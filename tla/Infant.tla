------------------------------- MODULE Infant -------------------------------
(***************************************************************************)
(* The iNFAnt engine: infant_kernel_one_output and the host code around it. *)
(* A transition fires when its source is in the vector of the states        *)
(* activated last, and sets its destination in the other vector.  The       *)
(* threads of a block share out the words of the vectors, the transitions   *)
(* of the symbol and the states, each by a loop with stride BlockDim.       *)
(*                                                                          *)
(* Both vectors are in shared memory, one behind the other; their roles     *)
(* swap with the parity of the position.  A thread takes one step per       *)
(* iteration of a loop, in any interleaving; only barriers order the loops. *)
(***************************************************************************)
EXTENDS ClonedNetwork

CONSTANTS
    Group,      \* indices of nfas, blockIdx.x
    Stream,     \* indices of symbol_streams, blockIdx.y
    BlockDim,   \* blockDim.x, the threads of a block
    WordBits,   \* bits of an int of the state vectors
    Capacity,   \* match_array_capacity
    Symbol,     \* bytes, the alphabet
    Id,         \* original ids of states
    Jobs        \* the (networks, streams) a run may be started on

ASSUME BlockDimAssumption == BlockDim \in Nat \ {0}
ASSUME WordBitsAssumption == WordBits \in Nat \ {0}
ASSUME CapacityAssumption == Capacity \in Nat
ASSUME GridAssumption == IsFiniteSet(Group) /\ IsFiniteSet(Stream)

\* AlphabetBasedTransitionTable: the edges of n whose destination matches c,
\* in the order of their sources.
Transitions(n, c) ==
    { e \in Sids(n) \X Sids(n) : e[2] \in n.edges[e[1]] /\ match2(n, e[2], c) }

TransitionAt(n, c, i) ==
    LET table        == Transitions(n, c)
        Before(f, e) == f[1] < e[1] \/ (f[1] = e[1] /\ f[2] < e[2])
    IN  CHOOSE e \in table : Cardinality({ f \in table : Before(f, e) }) = i

\* init_host_transition_tables asserts that no table is empty.
ASSUME JobsAssumption ==
    \A j \in Jobs :
        /\ \A g \in Group : /\ IsNetwork(j.nfa[g], MaxInt, Symbol, Id)
                            /\ \E c \in Symbol : Transitions(Cloned(j.nfa[g]), c) # {}
        /\ \A y \in Stream : j.input[y] \in Seq(Symbol)

VARIABLES
    job,            \* the loaded networks and the streams
    pc,             \* where each thread is
    input_position, \* each thread's loop counter
    offset,         \* each thread's inner loop counter
    vec,            \* shr_bitvecs: the bits set in its two halves
    matches,        \* <<block, symbol_offset, state_id>> in match_array
    match_count,    \* match_count[0]
    trapped,        \* a device assertion has failed
    host,           \* the host: "waiting", "printed" or "exited"
    report_file     \* what print_to_file writes

vars == <<job, pc, input_position, offset, vec, matches, match_count, trapped, host, report_file>>

Block  == Group \X Stream
Tid    == 0 .. BlockDim - 1
Thread == Block \X Tid

nfa(b)       == Cloned(job.nfa[b[1]])
input(b)     == job.input[b[2]]
ThreadsOf(b) == {b} \X Tid

\* state_bitvec_length: the most words any group's states need.
BitvecLength ==
    LET words == { nfa(b).size \div WordBits + 1 : b \in Block }
    IN  CHOOSE w \in words : \A v \in words : v <= w

Word(w) == WordBits * w .. WordBits * w + WordBits - 1

\* The halves of shr_bitvecs that are the enabled and the active vector.
EnabledHalf(p) == (p + 1) % 2
ActiveHalf(p)  == p % 2

Enabled(t) == vec[t[1]][EnabledHalf(input_position[t])]

\* Shared memory is not initialised.
Init ==
    /\ job \in Jobs
    /\ pc = [t \in Thread |-> "load"]
    /\ input_position = [t \in Thread |-> 0]
    /\ offset = [t \in Thread |-> t[2]]
    /\ \E garbage \in {0, 1} :
          vec = [b \in Block |-> [h \in {0, 1} |-> 0 .. garbage * WordBits * BitvecLength - 1]]
    /\ matches = {}
    /\ match_count = 0
    /\ trapped = FALSE
    /\ host = "waiting"
    /\ report_file = {}

\* Mutant of Loop: the stride is left out.
Loop_NoStride(t, at, limit, to) ==
    /\ ~trapped
    /\ pc[t] = at
    /\ IF offset[t] < limit
       THEN UNCHANGED <<offset, pc>>
       ELSE offset' = [offset EXCEPT ![t] = t[2]] /\ pc' = [pc EXCEPT ![t] = to]
    /\ UNCHANGED <<job, input_position, host, report_file>>

\* A thread's next iteration of the loop "at" over limit items, or its end.
Loop(t, at, limit, to) ==
    /\ ~trapped
    /\ pc[t] = at
    /\ IF offset[t] < limit
       THEN offset' = [offset EXCEPT ![t] = @ + BlockDim] /\ UNCHANGED pc
       ELSE offset' = [offset EXCEPT ![t] = t[2]] /\ pc' = [pc EXCEPT ![t] = to]
    /\ UNCHANGED <<job, input_position, host, report_file>>

\* The start states are loaded into the second half, the first is cleared.
Load(t) ==
    LET word == Word(offset[t])
    IN  /\ Loop(t, "load", BitvecLength, "sync0")
        /\ vec' = IF offset[t] < BitvecLength
                  THEN [vec EXCEPT ![t[1]] =
                          [h \in {0, 1} |-> (@[h] \ word) \cup
                              IF h = 1 THEN nfa(t[1]).start \cap word ELSE {}]]
                  ELSE vec
        /\ UNCHANGED <<matches, match_count, trapped>>

\* A word of the active vector is cleared.
ClearActive(t) ==
    /\ Loop(t, "clear", BitvecLength, "sync2")
    /\ vec' = IF offset[t] < BitvecLength
              THEN [vec EXCEPT ![t[1]][ActiveHalf(input_position[t])] = @ \ Word(offset[t])]
              ELSE vec
    /\ UNCHANGED <<matches, match_count, trapped>>

\* set_bit, an atomicOr on the word of state s in the active vector.
SetActive(t, s) == vec' = [vec EXCEPT ![t[1]][ActiveHalf(input_position[t])] = @ \cup {s}]

\* A transition of the symbol: src_table and dst_table at the thread's offset.
Transit(t) ==
    LET n      == nfa(t[1])
        symbol == input(t[1])[input_position[t] + 1]
        length == Cardinality(Transitions(n, symbol))
        trans  == TransitionAt(n, symbol, offset[t])
    IN  /\ Loop(t, "transit", length, "sync3")
        /\ IF offset[t] < length /\ trans[1] \in Enabled(t)
           THEN SetActive(t, trans[2])
           ELSE UNCHANGED vec
        /\ UNCHANGED <<matches, match_count, trapped>>

\* Mutant of Output: the assertion lets one report too many through.
Output_OffByOne(t) ==
    LET s   == offset[t]
        hit == s < nfa(t[1]).size /\ s \in Enabled(t) \cap nfa(t[1]).report
    IN  /\ Loop(t, "output", nfa(t[1]).size, "sync4")
        /\ match_count' = IF hit THEN match_count + 1 ELSE match_count
        /\ trapped' = (hit /\ match_count > Capacity)
        /\ matches' = IF hit /\ match_count <= Capacity
                      THEN matches \cup {<<t[1], input_position[t], s>>}
                      ELSE matches
        /\ UNCHANGED vec

\* A state: if it is enabled and reports, a slot is claimed and stored, and a
\* slot past the capacity fails the device assertion.
Output(t) ==
    LET s   == offset[t]
        hit == s < nfa(t[1]).size /\ s \in Enabled(t) \cap nfa(t[1]).report
    IN  /\ Loop(t, "output", nfa(t[1]).size, "sync4")
        /\ match_count' = IF hit THEN match_count + 1 ELSE match_count
        /\ trapped' = (hit /\ match_count >= Capacity)
        /\ matches' = IF hit /\ match_count < Capacity
                      THEN matches \cup {<<t[1], input_position[t], s>>}
                      ELSE matches
        /\ UNCHANGED vec

\* A state that is always enabled.
AlwaysEnabled(t) ==
    /\ Loop(t, "always", nfa(t[1]).size, "sync5")
    /\ IF offset[t] < nfa(t[1]).size /\ offset[t] \in nfa(t[1]).always
       THEN SetActive(t, offset[t])
       ELSE UNCHANGED vec
    /\ UNCHANGED <<matches, match_count, trapped>>

\* __syncthreads: all threads of block b are at a barrier, and leave it.
Barrier(b, at, to) ==
    /\ ~trapped
    /\ \A t \in ThreadsOf(b) : pc[t] = at
    /\ pc' = [t \in Thread |-> IF t[1] = b THEN to ELSE pc[t]]
    /\ UNCHANGED <<job, offset, vec, matches, match_count, trapped, host, report_file>>

\* Mutant of LoopTest: the last symbol is left out.
LoopTest_DropsLast(b, p) == IF p + 1 < Len(input(b)) THEN "sync1" ELSE "done"

LoopTest(b, p) == IF p < Len(input(b)) THEN "sync1" ELSE "done"

Sync0(b) == Barrier(b, "sync0", LoopTest(b, 0)) /\ UNCHANGED input_position
Sync1(b) == Barrier(b, "sync1", "clear") /\ UNCHANGED input_position

Sync2(b) == Barrier(b, "sync2", "transit") /\ UNCHANGED input_position
Sync3(b) == Barrier(b, "sync3", "output") /\ UNCHANGED input_position
Sync4(b) == Barrier(b, "sync4", "always") /\ UNCHANGED input_position

Sync5(b) ==
    LET p == input_position[<<b, 0>>] + 1
    IN  /\ Barrier(b, "sync5", LoopTest(b, p))
        /\ input_position' = [t \in Thread |-> IF t[1] = b THEN p ELSE input_position[t]]

\* The kernel has ended, or copy_back fails because it was trapped.
Finish ==
    /\ host = "waiting"
    /\ trapped \/ \A t \in Thread : pc[t] = "done"
    /\ host' = IF trapped THEN "exited" ELSE "printed"
    /\ report_file' = IF trapped THEN {}
                      ELSE { <<m[2], nfa(m[1]).original_id[m[3]]>> : m \in matches }
    /\ UNCHANGED <<job, pc, input_position, offset, vec, matches, match_count, trapped>>

Terminated == host # "waiting" /\ UNCHANGED vars

ThreadStep(t) == \/ Load(t)
                 \/ ClearActive(t)
                 \/ Transit(t)
                 \/ Output(t)
                 \/ AlwaysEnabled(t)

BlockStep(b) == Sync0(b) \/ Sync1(b) \/ Sync2(b) \/ Sync3(b) \/ Sync4(b) \/ Sync5(b)

Next == \/ \E t \in Thread : ThreadStep(t)
        \/ \E b \in Block : BlockStep(b)
        \/ Finish
        \/ Terminated

Spec == Init /\ [][Next]_vars

\* Resident warps are issued, open barriers are left, the host waits.
Fairness == /\ \A t \in Thread : WF_vars(ThreadStep(t))
            /\ \A b \in Block : WF_vars(BlockStep(b))
            /\ WF_vars(Finish)

FairSpec == Spec /\ Fairness
-----------------------------------------------------------------------------
(* The engine implements EnableActiveNFA on the networks as they were        *)
(* loaded, without the clones.  The vector the kernel calls enabled holds    *)
(* the states the last symbol activated; what is enabled are the             *)
(* destinations of their edges.  A state is reported one symbol late.        *)

Lead(b) == <<b, 0>>
position == [b \in Block |-> input_position[Lead(b)]]

\* The vector with the states the last symbol activated.
Activations(b) ==
    IF pc[Lead(b)] \in {"load", "sync0"} THEN nfa(b).start
    ELSE vec[b][EnabledHalf(position[b])]

abs_enabled == [b \in Block |-> Successors(nfa(b), Activations(b))]

abs_reports ==
    { <<m[1], m[2] - 1, m[3]>> : m \in matches } \cup
    UNION { { <<b, position[b] - 1, s>> : s \in Activations(b) \cap nfa(b).report } : b \in Block }

Abs == INSTANCE EnableActiveNFA WITH position <- position,
                                     enabled <- abs_enabled,
                                     reports <- abs_reports

\* Whatever the interleaving, a symbol moves the states of the loaded network
\* as one step: clones stand in for starts, halves swap, words are cleared and
\* bits set by different threads.
Implements == Abs!Spec

-----------------------------------------------------------------------------
PCs == {"load", "sync0", "sync1", "clear", "sync2", "transit", "sync3",
        "output", "sync4", "always", "sync5", "done"}

\* The types of the shared memory and of the threads' registers.
TypeOK ==
    /\ job \in Jobs
    /\ pc \in [Thread -> PCs]
    /\ input_position \in [Thread -> Nat]
    /\ offset \in [Thread -> Nat]
    /\ vec \in [Block -> [{0, 1} -> SUBSET (0 .. WordBits * BitvecLength - 1)]]
    /\ \A m \in matches : m[1] \in Block /\ m[2] \in Nat /\ m[3] \in Sids(nfa(m[1]))
    /\ Cardinality(matches) <= Capacity
    /\ match_count \in Nat
    /\ trapped \in BOOLEAN
    /\ host \in {"waiting", "printed", "exited"}

\* The reports of the loaded networks as the kernel makes them: a symbol
\* late, so that those of the last symbol are never made.
LateReports ==
    UNION { { <<b, r[1] + 1, r[2]>> :
                r \in { q \in ReportsOf(job.nfa[b[1]], input(b)) : q[1] + 1 < Len(input(b)) } } :
            b \in Block }

\* A file is written only if all reports fitted, and lists each of them at the
\* offset after the symbol that made it; the host gives up only if they did not
\* fit.
ReportsLate ==
    /\ host = "printed" =>
          /\ match_count = Cardinality(LateReports)
          /\ report_file = { <<m[2], job.nfa[m[1][1]].original_id[m[3]]>> : m \in LateReports }
    /\ host = "exited" => Cardinality(LateReports) > Capacity

\* The run ends: the host prints or gives up.
Terminates == <>(host # "waiting")
=============================================================================
