------------------------------- MODULE Ppopp12 -------------------------------
(***************************************************************************)
(* The PPoPP12 engine: its two kernels and the host code around them.  The  *)
(* active states are kept in slots, one per compatible group, and an        *)
(* activated state is stored in the slot of its group.  Nothing checks      *)
(* whether the slot is taken: the groups are there so that it is not.       *)
(* A state that was split is in several slots, and each copy reports.       *)
(*                                                                          *)
(* Shared memory has two arrays of slots, the current and the next.  In     *)
(* ppopp12_kernel their roles swap with the parity of the position; in      *)
(* ppopp12_kernel_shrreadchunk the next one is moved into the current one,  *)
(* and the stream is read by chunks of BlockDim symbols.  The threads of a  *)
(* block share out the slots by loops with stride BlockDim.                 *)
(***************************************************************************)
EXTENDS ClonedNetwork, NetworkCopies, Incompatibility

CONSTANTS
    Group,      \* indices of nfa_in_tb, blockIdx.x
    Stream,     \* indices of symbol_streams, blockIdx.y
    BlockDim,   \* blockDim.x, the threads of a block
    SlotCount,  \* active_state_array_size
    Capacity,   \* output_buffer_size, the length of match_array
    Id,         \* original ids of states
    Jobs        \* the networks read and given to the kernel, the slots, the
                \* streams and the kernel of a run

ASSUME BlockDimAssumption == BlockDim \in Nat \ {0}
ASSUME SlotCountAssumption == SlotCount \in Nat \ {0}
ASSUME CapacityAssumption == Capacity \in Nat

Slot == 0 .. SlotCount - 1

\* A slot for every state, different ones for incompatible states: what
\* IncompatibleStates and IndependentSets compute for a component and
\* calc_str_id_to_compatible_group_per_block shifts apart for those of a group.
SlotsFor(n, slot, incompatible) ==
    /\ slot \in [Sids(n) -> Slot]
    /\ incompatible \subseteq Sids(n) \X Sids(n)
    /\ ClosedUnder(n, incompatible)
    /\ \A p \in incompatible : p[1] # p[2] => slot[p[1]] # slot[p[2]]

\* The constructor clones the starts of the network read; preprocessing then splits
\* states, clones and starts among them, until none has more than four edges, and
\* numbers the states anew.  base gives the state each was before.
ASSUME JobsAssumption ==
    \A j \in Jobs :
        /\ \A g \in Group :
              /\ IsNetwork(j.read[g], MaxInt, Symbol, Id)
              /\ IsNetwork(j.nfa[g], MaxInt, Symbol, Id)
              /\ HasAllCopies(j.nfa[g], Cloned(j.read[g]), j.base[g])
              /\ \A s \in Sids(j.nfa[g]) : Cardinality(j.nfa[g].edges[s]) <= 4
              /\ SlotsFor(j.nfa[g], j.slot[g], j.incompatible[g])
        /\ \A y \in Stream : j.input[y] \in Seq(Symbol)
        /\ j.chunked \in BOOLEAN

VARIABLES
    job,            \* the networks, the slots, the streams and the kernel
    pc,             \* where each thread is
    input_position, \* each thread's loop counter
    offset,         \* each thread's inner loop counter
    to_store,       \* what the thread has still to store for its slot
    slots,          \* active_state_array: both arrays of slots
    shrd_chunk,     \* the symbols of the chunk
    matches,        \* <<block, symbol_offset, state_id>> stored by match_array
    match_count,    \* match_count[0]
    host,           \* the host: "waiting", "printed" or "aborted"
    report_file     \* what print_to_file writes

vars == <<job, pc, input_position, offset, to_store, slots, shrd_chunk, matches,
          match_count, host, report_file>>

Block  == Group \X Stream
Tid    == 0 .. BlockDim - 1
Thread == Block \X Tid

nfa(b)       == job.nfa[b[1]]
input(b)     == job.input[b[2]]
group(b)     == job.slot[b[1]]
ThreadsOf(b) == {b} \X Tid

Empty == -1

\* The arrays: 0 is current at even positions, or at all.
CurrentArray(p) == IF job.chunked THEN 0 ELSE p % 2
NextArray(p)    == 1 - CurrentArray(p)

\* prepare_initial_active_state_array: the start states in their slots.
InitialSlots(b) ==
    [i \in Slot |-> IF \E s \in nfa(b).start : group(b)[s] = i
                    THEN CHOOSE s \in nfa(b).start : group(b)[s] = i
                    ELSE Empty]

\* Shared memory is not initialised.
Init ==
    /\ job \in Jobs
    /\ pc = [t \in Thread |-> "load"]
    /\ input_position = [t \in Thread |-> 0]
    /\ offset = [t \in Thread |-> t[2]]
    /\ to_store = [t \in Thread |-> {}]
    /\ \E garbage \in {Empty, 0} :
          slots = [b \in Block |-> [a \in {0, 1} |-> [i \in Slot |-> garbage]]]
    /\ \E garbage \in Symbol : shrd_chunk = [b \in Block |-> [k \in Tid |-> garbage]]
    /\ matches = {}
    /\ match_count = 0
    /\ host = "waiting"
    /\ report_file = {}

\* A thread's next iteration of the loop "at" over the slots, or its end.
Loop(t, at, to) ==
    /\ pc[t] = at
    /\ IF offset[t] < SlotCount
       THEN offset' = [offset EXCEPT ![t] = @ + BlockDim] /\ UNCHANGED pc
       ELSE offset' = [offset EXCEPT ![t] = t[2]] /\ pc' = [pc EXCEPT ![t] = to]
    /\ UNCHANGED <<job, input_position, host, report_file>>

\* Value v is stored in slot i of array a.
Stored(b, a, i, v) == [slots EXCEPT ![b][a][i] = v]

\* Slot i of both arrays has the values given for them.
BothStored(b, i, v, w) == [slots EXCEPT ![b][0][i] = v, ![b][1][i] = w]

\* The initial slots are loaded into the first array; the chunk kernel clears
\* the second.
Load(t) ==
    LET i == offset[t]
        s == InitialSlots(t[1])[i]
    IN  /\ Loop(t, "load", "sync0")
        /\ slots' = IF i >= SlotCount THEN slots
                    ELSE IF job.chunked THEN BothStored(t[1], i, s, Empty)
                    ELSE Stored(t[1], 0, i, s)
        /\ UNCHANGED <<to_store, shrd_chunk, matches, match_count>>

\* base_idx of the chunk that position p is in.
Base(p) == BlockDim * (p \div BlockDim)

\* A thread reads its symbol of the chunk.
ReadChunk(t) ==
    LET p == Base(input_position[t]) + t[2]
    IN  /\ pc[t] = "read"
        /\ pc' = [pc EXCEPT ![t] = "sync1"]
        /\ shrd_chunk' = IF p < Len(input(t[1]))
                         THEN [shrd_chunk EXCEPT ![t[1]][t[2]] = input(t[1])[p + 1]]
                         ELSE shrd_chunk
        /\ UNCHANGED <<job, input_position, offset, to_store, slots, matches,
                       match_count, host, report_file>>

\* A slot of the next array is cleared.
ClearNext(t) ==
    /\ Loop(t, "clear", "sync2")
    /\ slots' = IF offset[t] < SlotCount
                THEN Stored(t[1], NextArray(input_position[t]), offset[t], Empty)
                ELSE slots
    /\ UNCHANGED <<to_store, shrd_chunk, matches, match_count>>

\* Mutant of Targets: the table ignores the symbol.
Targets_AnySymbol(t, s) == nfa(t[1]).edges[s] \cup ({s} \cap nfa(t[1]).always)

\* The symbol as the thread reads it.
CurrentSymbol(t) ==
    IF job.chunked THEN shrd_chunk[t[1]][input_position[t] - Base(input_position[t])]
    ELSE input(t[1])[input_position[t] + 1]

\* transition_table and states_status: what the active state s makes active.
Targets(t, s) ==
    Activated(nfa(t[1]), nfa(t[1]).edges[s], CurrentSymbol(t))
        \cup ({s} \cap nfa(t[1]).always)

\* A slot of the current array.
Transit(t) ==
    LET i == offset[t]
        s == slots[t[1]][CurrentArray(input_position[t])][i]
        active == i < SlotCount /\ s # Empty
    IN  /\ IF active
           THEN /\ pc[t] = "transit"
                /\ pc' = [pc EXCEPT ![t] = "store"]
                /\ UNCHANGED <<job, input_position, offset, host, report_file>>
           ELSE Loop(t, "transit", "sync3")
        /\ to_store' = IF active THEN [to_store EXCEPT ![t] = Targets(t, s)] ELSE to_store
        /\ UNCHANGED <<slots, shrd_chunk, matches, match_count>>

\* A target is stored in the slot of its group.
Store(t) ==
    /\ pc[t] = "store"
    /\ \E s \in to_store[t] :
          /\ slots' = Stored(t[1], NextArray(input_position[t]), group(t[1])[s], s)
          /\ to_store' = [to_store EXCEPT ![t] = @ \ {s}]
    /\ UNCHANGED <<job, pc, input_position, offset, shrd_chunk, matches, match_count, host,
                   report_file>>

\* Mutant of NextSlot: the stride is added for empty slots only.
NextSlot_NoStride(t) ==
    /\ to_store[t] = {}
    /\ pc[t] = "store"
    /\ pc' = [pc EXCEPT ![t] = "transit"]
    /\ UNCHANGED <<job, input_position, offset, to_store, slots, shrd_chunk, matches,
                   match_count, host, report_file>>

\* All targets of the slot are stored.
NextSlot(t) ==
    /\ to_store[t] = {}
    /\ pc[t] = "store"
    /\ pc' = [pc EXCEPT ![t] = "transit"]
    /\ offset' = [offset EXCEPT ![t] = @ + BlockDim]
    /\ UNCHANGED <<job, input_position, to_store, slots, shrd_chunk, matches, match_count,
                   host, report_file>>

\* A slot of the next array: if its state reports, an entry is claimed and
\* stored.  Nothing compares it with match_array_capacity; what is stored past
\* the array counts in matches, and the host never gets to read it.
Output(t) ==
    LET i == offset[t]
        s == slots[t[1]][NextArray(input_position[t])][i]
        hit == i < SlotCount /\ s \in nfa(t[1]).report
    IN  /\ Loop(t, "output", "sync4")
        /\ match_count' = IF hit THEN match_count + 1 ELSE match_count
        /\ matches' = IF hit
                      THEN matches \cup {<<t[1], input_position[t], s>>}
                      ELSE matches
        /\ UNCHANGED <<to_store, slots, shrd_chunk>>

\* The chunk kernel moves a slot of the next array into the current one.
Swap(t) ==
    /\ Loop(t, "swap", "sync5")
    /\ slots' = IF offset[t] < SlotCount
                THEN BothStored(t[1], offset[t], slots[t[1]][1][offset[t]], Empty)
                ELSE slots
    /\ UNCHANGED <<to_store, shrd_chunk, matches, match_count>>

\* __syncthreads: all threads of block b are at a barrier, and leave it.
Barrier(b, at, to) ==
    /\ \A t \in ThreadsOf(b) : pc[t] = at
    /\ pc' = [t \in Thread |-> IF t[1] = b THEN to ELSE pc[t]]
    /\ UNCHANGED <<job, offset, to_store, slots, shrd_chunk, matches, match_count, host,
                   report_file>>

\* Where the symbol at position p begins: at the clearing of the next array, or
\* at its chunk.
SymbolStart(p) ==
    IF ~job.chunked THEN "sync1" ELSE IF p = Base(p) THEN "read" ELSE "transit"

\* Mutant of LoopTest: the last symbol is left out.
LoopTest_DropsLast(b, p) == IF p + 1 < Len(input(b)) THEN SymbolStart(p) ELSE "done"

LoopTest(b, p) == IF p < Len(input(b)) THEN SymbolStart(p) ELSE "done"

\* A barrier that ends an iteration.
LoopBarrier(b, at) ==
    LET p == input_position[<<b, 0>>] + 1
    IN  /\ Barrier(b, at, LoopTest(b, p))
        /\ input_position' = [t \in Thread |-> IF t[1] = b THEN p ELSE input_position[t]]

Sync0(b) == Barrier(b, "sync0", LoopTest(b, 0)) /\ UNCHANGED input_position

\* Mutant of Sync1: no barrier after the chunk is read.
Sync1_Missing(b) ==
    \E t \in ThreadsOf(b) :
        /\ pc[t] = "sync1"
        /\ pc' = [pc EXCEPT ![t] = IF job.chunked THEN "transit" ELSE "clear"]
        /\ UNCHANGED <<job, input_position, offset, to_store, slots, shrd_chunk, matches,
                       match_count, host, report_file>>

Sync1(b) ==
    /\ Barrier(b, "sync1", IF job.chunked THEN "transit" ELSE "clear")
    /\ UNCHANGED input_position

Sync2(b) == Barrier(b, "sync2", "transit") /\ UNCHANGED input_position
Sync3(b) == Barrier(b, "sync3", "output") /\ UNCHANGED input_position

Sync4(b) ==
    IF job.chunked
    THEN Barrier(b, "sync4", "swap") /\ UNCHANGED input_position
    ELSE LoopBarrier(b, "sync4")

Sync5(b) == LoopBarrier(b, "sync5")

\* The host reads match_count entries; Array2::get asserts that each is there.
Finish ==
    /\ host = "waiting"
    /\ \A t \in Thread : pc[t] = "done"
    /\ host' = IF match_count > Capacity THEN "aborted" ELSE "printed"
    /\ report_file' = IF match_count > Capacity THEN {}
                      ELSE { <<m[2], nfa(m[1]).original_id[m[3]]>> : m \in matches }
    /\ UNCHANGED <<job, pc, input_position, offset, to_store, slots, shrd_chunk, matches,
                   match_count>>

Terminated == host # "waiting" /\ UNCHANGED vars

ThreadStep(t) == \/ Load(t)
                 \/ ReadChunk(t)
                 \/ ClearNext(t)
                 \/ Transit(t)
                 \/ Store(t)
                 \/ NextSlot(t)
                 \/ Output(t)
                 \/ Swap(t)

BlockStep(b) == Sync0(b) \/ Sync1(b) \/ Sync2(b) \/ Sync3(b) \/ Sync4(b) \/ Sync5(b)

Next == \/ \E t \in Thread : ThreadStep(t)
        \/ \E b \in Block : BlockStep(b)
        \/ Finish
        \/ Terminated

Spec == Init /\ [][Next]_vars

\* Resident warps are issued, open barriers are left, the host waits.
Fairness == /\ \A t \in Thread : WF_vars(ThreadStep(t))
            /\ \A b \in Block : WF_vars(BlockStep(b))
            /\ WF_vars(Finish)

FairSpec == Spec /\ Fairness
-----------------------------------------------------------------------------
(* The engine implements EnableActiveNFA on the networks as they were read.  *)
(* What is enabled are the destinations of the edges of the states in the    *)
(* current slots, and of copies their originals.                             *)

Lead(b) == <<b, 0>>

\* The state of the network read that state s of block b is a copy of; a clone is one
\* of a clone.
Original(b, s) == job.base[b[1]][s]

\* The networks read, on the streams.
abs_job == [nfa |-> job.read, input |-> job.input]

\* The symbol is through when the moving of the slots begins.
Swapping(b) == pc[Lead(b)] \in {"swap", "sync5"}
position == [b \in Block |-> input_position[Lead(b)] + IF Swapping(b) THEN 1 ELSE 0]

\* The array in which slot i has the state the last symbol made active: the one
\* that is current, or the next one until the slot is moved.
LatestArray(b, i) ==
    LET owner == <<b, i % BlockDim>>
    IN  IF Swapping(b) /\ pc[owner] = "swap" /\ offset[owner] <= i THEN 1
        ELSE CurrentArray(position[b])

\* The states active after the last symbol.
ActiveStates(b) ==
    IF pc[Lead(b)] \in {"load", "sync0"} THEN nfa(b).start
    ELSE { slots[b][LatestArray(b, i)][i] : i \in Slot } \ {Empty}

abs_enabled ==
    [b \in Block |-> OriginalsOf(job.base[b[1]], Successors(nfa(b), ActiveStates(b)))]

\* Reports count when the symbol is through.
abs_matches ==
    { <<m[1], m[2], Original(m[1], m[3])>> : m \in { r \in matches : r[2] < position[r[1]] } }

Abs == INSTANCE EnableActiveNFA WITH job <- abs_job,
                                     Jobs <- { [nfa |-> j.read, input |-> j.input] : j \in Jobs },
                                     position <- position,
                                     enabled <- abs_enabled,
                                     reports <- abs_matches

\* Whatever the interleaving, a symbol moves the states of the network read, without
\* clones and with no state split, as one step: the slots never lose an active state.
Implements == Abs!Spec

-----------------------------------------------------------------------------
PCs == {"load", "sync0", "sync1", "clear", "sync2", "transit", "store", "sync3",
        "output", "sync4", "read", "swap", "sync5", "done"}

\* The types of the shared memory and of the threads' registers; once the
\* symbols are read, a state is only ever in the slot of its group.
TypeOK ==
    /\ job \in Jobs
    /\ pc \in [Thread -> PCs]
    /\ input_position \in [Thread -> Nat]
    /\ offset \in [Thread -> Nat]
    /\ \A t \in Thread : to_store[t] \subseteq Sids(nfa(t[1]))
    /\ \A b \in Block : slots[b] \in [{0, 1} -> [Slot -> Sids(nfa(b)) \cup {Empty}]]
    /\ \A b \in Block, i \in Slot :
          LET s == slots[b][LatestArray(b, i)][i]
          IN  pc[Lead(b)] \notin {"load", "sync0"} /\ s # Empty => group(b)[s] = i
    /\ \A b \in Block : shrd_chunk[b] \in [Tid -> Symbol]
    /\ \A m \in matches : m[1] \in Block /\ m[2] \in Nat /\ m[3] \in Sids(nfa(m[1]))
    /\ match_count \in Nat
    /\ host \in {"waiting", "printed", "aborted"}

\* The states in the current slots are pairwise incompatible: what the analysis
\* calls compatible is never active together (ppopp12_kernels.cu:88).
ActiveIncompatible ==
    TypeOK /\ \A b \in Block : \A s, u \in ActiveStates(b) : <<s, u>> \in job.incompatible[b[1]]

\* What the networks read report.
Expected ==
    UNION { { <<b, r[1], r[2]>> : r \in ReportsOf(job.read[b[1]], input(b)) } : b \in Block }

\* The same of every copy of a state.
ExpectedOfCopies ==
    UNION { { <<r[1], r[2], s>> : s \in Copies(job.base[r[1][1]], {r[3]}) } : r \in Expected }

\* The file lists the reports of the networks read, although each is claimed by every
\* copy of the state; and the host aborts only if those of the copies do not fit.
ReportsExact ==
    /\ host = "printed" =>
          /\ match_count = Cardinality(ExpectedOfCopies)
          /\ report_file = { <<r[2], job.read[r[1][1]].original_id[r[3]]>> : r \in Expected }
    /\ host = "aborted" => Cardinality(ExpectedOfCopies) > Capacity

\* The kernel ends, in whichever order its threads run, and the host prints or
\* aborts.
Terminates == <>(host # "waiting")

=============================================================================
