------------------------------ MODULE HotStart ------------------------------
(***************************************************************************)
(* The kernels of HotStart.  States 0 .. hot-1 of a group are hot: thread i *)
(* runs state i for every symbol.  The other states are cold and wait in a  *)
(* queue in shared memory that the threads of the block share out; a bitset *)
(* keeps a state from being queued twice for one symbol.                    *)
(*                                                                          *)
(* hotstart_ea_kernel queues the states that are enabled, tests them, and   *)
(* swaps its two queues; hotstart_ea_kernel_without_MC2 differs in that it  *)
(* looks every symbol up.  hotstart_transition_table queues the states that *)
(* are active, reads from a table which successors the symbol activates,    *)
(* and copies the next queue over the current one; each component gets a    *)
(* start state that stands for being active before the input.               *)
(* hotcold_nodup_queue_mc_cold_after_hot is hotstart_ea_kernel with cells    *)
(* for the hot states in shared memory, as in ObatKernel: a hot state runs   *)
(* when it is enabled, and hot states are enabled by both stages.            *)
(*                                                                          *)
(* Shared memory is one array: the cells of the hot states, two queues of    *)
(* QueueSize cells, the current and the next, and the words of the bitset.   *)
(*                                                                          *)
(* A report is claimed and stored as in ObatKernel; here that is one step.  *)
(***************************************************************************)
EXTENDS NetworkCopies, NodePacking

CONSTANTS
    Group,      \* indices of grpd_nfas1, blockIdx.x
    Stream,     \* indices of the remapped symbol_streams, blockIdx.y
    BlockDim,   \* blockDim.x
    QueueSize,  \* active_queue_size
    Id,         \* original ids of states
    Jobs        \* the networks read and given to the kernel, the streams,
                \* the kernel, and run_cold_stage

\* Thread 0 moves the tail and thread 1 swaps the queues.
ASSUME BlockDimAssumption == BlockDim \in Nat \ {0, 1}
ASSUME QueueSizeAssumption == QueueSize \in Nat \ {0}

\* The kernels: hotstart_ea_kernel, hotstart_transition_table and
\* hotcold_nodup_queue_mc_cold_after_hot.
Kernel == {"enable", "table", "cold after hot"}

\* An entry of the table that is none: edges have 16 bits.
EMPTY_ENTRY == 56789

\* add_fake_start_node_for_ccs: every component that has starts gets an all-input
\* start before them, and they lose their flags; all-input starts lose their loops.
\* ccs are the starts of these components, one after the other.  The new ones have
\* names of their own; no edge leads to them, so they are never reported.
WithFakeStarts(n, ccs) ==
    LET total   == n.size + Len(ccs)
        all     == 0 .. total - 1
        loop(s) == IF s \in n.always THEN {s} ELSE {}
    IN  [size        |-> total,
         edges       |-> [s \in all |-> IF s < n.size THEN n.edges[s] \ loop(s)
                                        ELSE ccs[s - n.size + 1]],
         symbol_set  |-> [s \in all |-> IF s < n.size THEN n.symbol_set[s] ELSE Byte],
         start       |-> n.size .. total - 1,
         always      |-> n.size .. total - 1,
         report      |-> n.report,
         original_id |-> [s \in all |-> n.original_id[IF s < n.size THEN s ELSE 0]]]

\* The starts of the components that have some.
AreStartsByComponent(ccs, n) ==
    /\ ccs \in Seq(SUBSET n.start \ {{}})
    /\ UNION { ccs[i] : i \in DOMAIN ccs } = n.start

\* The bound on the states: an edge in the table is one of 16 bits, and not none.
MostStates(j) == IF j.kernel = "table" THEN EMPTY_ENTRY ELSE 65536

\* The network whose states are split and numbered anew for the kernel.
Unsplit(j, g) ==
    IF j.kernel = "table" THEN WithFakeStarts(j.read[g], j.ccs[g]) ELSE j.read[g]

\* limit_out_degree_on_ccs splits states, new starts among them, until none has more
\* than four edges; base gives the state each was before.  group_nfas_by_hotcold makes
\* every start state hot and bounds the hot states of a group by the block size, and
\* order_nfa_intid_by_hotcold gives them the first numbers.  The third kernel always
\* has its cold stage.
ASSUME JobsAssumption ==
    \A j \in Jobs :
        /\ \A g \in Group :
              /\ IsNetwork(j.read[g], MaxInt, Byte, Id)
              /\ IsNetwork(j.nfa[g], MostStates(j), Byte, Id)
              /\ j.kernel = "table" => AreStartsByComponent(j.ccs[g], j.read[g])
              /\ HasAllCopies(j.nfa[g], Unsplit(j, g), j.base[g])
              /\ \A s \in Sids(j.nfa[g]) : Cardinality(j.nfa[g].edges[s]) <= 4
              /\ j.nfa[g].hot \in 1 .. BlockDim
              /\ j.nfa[g].start \subseteq 0 .. j.nfa[g].hot - 1
              /\ j.nfa[g].hot <= j.nfa[g].size
        /\ \A y \in Stream : j.input[y] \in Seq(Byte)
        /\ j.kernel \in Kernel /\ j.run_cold_stage \in BOOLEAN
        /\ j.kernel = "cold after hot" => j.run_cold_stage

VARIABLES
    job,         \* node_list or transition_table, num_hot_states, input_stream
    pc,          \* where each thread is
    symbol_pos,  \* each thread's loop counter
    tt,          \* each thread's index into the current queue
    state,       \* the state each thread runs
    to_enable,   \* its successors still to be visited
    slot,        \* the one being visited and its index in the next queue
    current,     \* cold_warp_active_queue, as an offset into the shared array
    queue_cells, \* the cells of the two queues
    dedup_bs,    \* the bits set in the bitset
    tail,        \* tail_of_the_cold_warp_active_queue
    next_tail,   \* tail_of_the_cold_warp_next_active_queue
    is_active_state1, \* the cells set of 2 * BlockDim: a hot state is enabled,
                 \* or will be when BlockDim is added
    reports,     \* <<block, offset, sid>> in real_output_array
    count,       \* tail_of_real_output_array
    printed,     \* the host has ended
    report_file  \* what it printed

shared == <<current, queue_cells, dedup_bs, tail, next_tail, is_active_state1>>
vars == <<job, pc, symbol_pos, tt, state, to_enable, slot, shared, reports, count, printed, report_file>>

Block  == Group \X Stream
Tid    == 0 .. BlockDim - 1
Thread == Block \X Tid

Table        == job.kernel = "table"
ColdAfterHot == job.kernel = "cold after hot"

nfa(b)       == job.nfa[b[1]]
input(b)     == job.input[b[2]]
Hot(n)       == 0 .. n.hot - 1
Cold(n)      == Sids(n) \ Hot(n)
ThreadsOf(b) == {b} \X Tid

\* cold_warp_next_active_queue.
next(b) == QueueSize - current[b]

\* num_cell_nodup_bitset: words for the largest number of cold states.
DedupWords ==
    LET cold == { nfa(b).size - nfa(b).hot : b \in Block }
    IN  CHOOSE w \in { (k + 31) \div 32 : k \in cold } :
            \A k \in cold : (k + 31) \div 32 <= w

\* The bits of word w of the bitset.
Word(w) == 32 * w .. 32 * w + 31

\* Shared memory is not initialised: the first values are arbitrary.
Init ==
    /\ job \in Jobs
    /\ pc = [t \in Thread |-> "init"]
    /\ symbol_pos = [t \in Thread |-> 0]
    /\ tt = [t \in Thread |-> 0]
    /\ state = [t \in Thread |-> 0]
    /\ to_enable = [t \in Thread |-> {}]
    /\ slot = [t \in Thread |-> <<0, 0>>]
    /\ current = [b \in Block |-> 0]
    /\ queue_cells = [b \in Block |-> [i \in 0 .. 2 * QueueSize - 1 |-> 0]]
    /\ \E garbage \in {0, 1} :
          /\ tail = [b \in Block |-> garbage]
          /\ next_tail = [b \in Block |-> garbage]
          /\ dedup_bs = [b \in Block |-> 0 .. 32 * garbage * DedupWords - 1]
          /\ is_active_state1 = [b \in Block |-> IF ColdAfterHot THEN 0 .. 2 * garbage * BlockDim - 1
                                             ELSE {}]
    /\ reports = {}
    /\ count = 0
    /\ printed = FALSE
    /\ report_file = {}

Goto(t, from, to) == pc[t] = from /\ pc' = [pc EXCEPT ![t] = to]

\* The bits that a thread clears: its share of the words.
Mine(t) == UNION { Word(w) : w \in { v \in 0 .. DedupWords - 1 : v % BlockDim = t[2] } }

\* Block b's cells with hot state s enabled or not, and not enabled for later.
Promoted(b, s, enabled) ==
    (is_active_state1[b] \ {s, s + BlockDim}) \cup (IF enabled THEN {s} ELSE {})

\* Before the loop: thread 0 sets the tails; with the table, every thread.  A
\* thread with cells enables its state if it is a start.
Begin(t) ==
    /\ Goto(t, "init", "sync0")
    /\ IF t[2] = 0 \/ Table
       THEN /\ tail' = [tail EXCEPT ![t[1]] = 0]
            /\ next_tail' = [next_tail EXCEPT ![t[1]] = 0]
       ELSE UNCHANGED <<tail, next_tail>>
    /\ dedup_bs' = IF ColdAfterHot THEN [dedup_bs EXCEPT ![t[1]] = @ \ Mine(t)] ELSE dedup_bs
    /\ is_active_state1' =
          IF ColdAfterHot /\ t[2] \in Hot(nfa(t[1]))
          THEN [is_active_state1 EXCEPT ![t[1]] =
                  Promoted(t[1], t[2], t[2] \in nfa(t[1]).start)]
          ELSE is_active_state1
    /\ UNCHANGED <<job, symbol_pos, tt, state, to_enable, slot, current,
                   queue_cells, reports, count, printed, report_file>>

\* Before a symbol: thread 1 swaps the queues, unless they are copied, thread 0
\* moves the tail, and every thread clears its words of the bitset.
Prepare(t) ==
    LET b == t[1]
    IN  /\ Goto(t, "prepare", "sync1")
        /\ current' = IF t[2] = 1 /\ ~Table THEN [current EXCEPT ![b] = next(b)] ELSE current
        /\ IF t[2] = 0
           THEN /\ tail' = [tail EXCEPT ![b] = next_tail[b]]
                /\ next_tail' = [next_tail EXCEPT ![b] = 0]
           ELSE UNCHANGED <<tail, next_tail>>
        /\ dedup_bs' = [dedup_bs EXCEPT ![b] = @ \ Mine(t)]
        /\ UNCHANGED <<job, symbol_pos, tt, state, to_enable, slot, queue_cells,
                       is_active_state1, reports, count, printed, report_file>>

symbol(t) == input(t[1])[symbol_pos[t] + 1]

\* The test is made on the packed node; there is none with the table.
Matches(t, s) == Table \/ PackedMatch(PackedNode(nfa(t[1]).symbol_set[s]), symbol(t))

\* create_ull64_for_nfa: the successors of s that the symbol activates.
Entry(t, s) == { e \in nfa(t[1]).edges[s] : match2(nfa(t[1]), e, symbol(t)) }

\* What s is to enable: its cold successors, or those in the table, or all.
Targets(t, s) ==
    CASE Table -> Entry(t, s)
      [] ColdAfterHot -> nfa(t[1]).edges[s]
      [] OTHER -> nfa(t[1]).edges[s] \cap Cold(nfa(t[1]))

\* Thread t runs s.
Fire(t, s) ==
    /\ state' = [state EXCEPT ![t] = s]
    /\ to_enable' = [to_enable EXCEPT ![t] = Targets(t, s)]

\* The hot stage: thread t's own state.  Only a kernel with cells asks whether
\* the state is enabled.
HotStage(t) ==
    LET fires == /\ t[2] \in Hot(nfa(t[1])) /\ Matches(t, t[2])
                 /\ ColdAfterHot => t[2] \in is_active_state1[t[1]]
    IN  /\ Goto(t, "hot", IF fires THEN "enable" ELSE "cold")
        /\ tt' = [tt EXCEPT ![t] = t[2]]
        /\ IF fires THEN Fire(t, t[2]) ELSE UNCHANGED <<state, to_enable>>
        /\ UNCHANGED <<job, symbol_pos, slot, shared, reports, count, printed, report_file>>

\* Mutant of ColdStage: the stride is added for matching states only.
ColdStage_NoStride(t) ==
    LET b == t[1]
        s == queue_cells[b][current[b] + tt[t]]
    IN  /\ pc[t] = "cold"
        /\ IF job.run_cold_stage /\ tt[t] < tail[b]
           THEN IF Matches(t, s)
                THEN Goto(t, "cold", "enable") /\ Fire(t, s) /\ UNCHANGED tt
                ELSE UNCHANGED <<tt, pc, state, to_enable>>
           ELSE /\ Goto(t, "cold", "sync2")
                /\ tt' = [tt EXCEPT ![t] = t[2]]
                /\ UNCHANGED <<state, to_enable>>
        /\ UNCHANGED <<job, symbol_pos, slot, shared, reports, count, printed, report_file>>

\* One iteration of the cold stage's loop up to the match test.  After it tt is
\* where the copying of the queue begins.
ColdStage(t) ==
    LET b == t[1]
        s == queue_cells[b][current[b] + tt[t]]
    IN  /\ pc[t] = "cold"
        /\ IF job.run_cold_stage /\ tt[t] < tail[b]
           THEN IF Matches(t, s)
                THEN Goto(t, "cold", "enable") /\ Fire(t, s) /\ UNCHANGED tt
                ELSE /\ tt' = [tt EXCEPT ![t] = @ + BlockDim]
                     /\ UNCHANGED <<pc, state, to_enable>>
           ELSE /\ Goto(t, "cold", "sync2")
                /\ tt' = [tt EXCEPT ![t] = t[2]]
                /\ UNCHANGED <<state, to_enable>>
        /\ UNCHANGED <<job, symbol_pos, slot, shared, reports, count, printed, report_file>>

\* The pc after a successor is queued or found in the queue.
Visited == IF Table THEN "entry" ELSE "enable"

\* The successors to enable that have cells, and those that do not.
WithCells(t) == IF ColdAfterHot THEN to_enable[t] \cap Hot(nfa(t[1])) ELSE {}
ToQueue(t) == to_enable[t] \ WithCells(t)

\* The store that enables a hot state for the next symbol.
EnableHot(t) ==
    \E e \in WithCells(t) :
        /\ pc[t] = "enable"
        /\ to_enable' = [to_enable EXCEPT ![t] = @ \ {e}]
        /\ is_active_state1' = [is_active_state1 EXCEPT ![t[1]] = @ \cup {e + BlockDim}]
        /\ UNCHANGED <<job, pc, symbol_pos, tt, state, slot, current, queue_cells, dedup_bs,
                       tail, next_tail, reports, count, printed, report_file>>

\* Mutant of Dedup: the bit is tested and set without atomicOr, so another
\* thread's may be lost.
Dedup_NotAtomic(t) ==
    LET b == t[1]
        n_bit(e) == e - nfa(b).hot
        queues(e) == e \in Cold(nfa(b)) /\ n_bit(e) \notin dedup_bs[b]
    IN  \E e \in ToQueue(t), lost \in BOOLEAN :
           /\ Goto(t, "enable", IF queues(e) THEN "push" ELSE Visited)
           /\ to_enable' = [to_enable EXCEPT ![t] = @ \ {e}]
           /\ slot' = [slot EXCEPT ![t] = <<e, 0>>]
           /\ dedup_bs' = IF queues(e) /\ ~lost
                          THEN [dedup_bs EXCEPT ![b] = @ \cup {n_bit(e)}] ELSE dedup_bs
           /\ UNCHANGED <<job, symbol_pos, tt, state, current, queue_cells, tail,
                          next_tail, is_active_state1, reports, count, printed, report_file>>

\* atomicOr on the bitset; a state whose bit was set is in the queue already,
\* and a hot state is never queued.
Dedup(t) ==
    LET b == t[1]
        n_bit(e) == e - nfa(b).hot
        queues(e) == e \in Cold(nfa(b)) /\ n_bit(e) \notin dedup_bs[b]
    IN  \E e \in ToQueue(t) :
           /\ Goto(t, "enable", IF queues(e) THEN "push" ELSE Visited)
           /\ to_enable' = [to_enable EXCEPT ![t] = @ \ {e}]
           /\ slot' = [slot EXCEPT ![t] = <<e, 0>>]
           /\ dedup_bs' = IF queues(e)
                          THEN [dedup_bs EXCEPT ![b] = @ \cup {n_bit(e)}] ELSE dedup_bs
           /\ UNCHANGED <<job, symbol_pos, tt, state, current, queue_cells, tail,
                          next_tail, is_active_state1, reports, count, printed, report_file>>

\* atomicAdd on the tail of the next queue.
Push(t) ==
    LET b == t[1]
    IN  /\ Goto(t, "push", "store")
        /\ slot' = [slot EXCEPT ![t][2] = next_tail[b]]
        /\ next_tail' = [next_tail EXCEPT ![b] = @ + 1]
        /\ UNCHANGED <<job, symbol_pos, tt, state, to_enable, current, queue_cells,
                       dedup_bs, tail, is_active_state1, reports, count, printed, report_file>>

\* The bits of the binary representation of a state's number.
BitsOf(n) == { i \in 0 .. 15 : (n \div 2^i) % 2 = 1 }

\* The store into the next queue.  In two of the kernels a device assertion
\* compares the index with QueueSize; in hotstart_ea_kernel nothing does: a store
\* past the second queue hits the bitset, or memory beyond it.
Store(t) ==
    LET b == t[1]
        cell == next(b) + slot[t][2]
        word == cell - 2 * QueueSize
        asserted == job.kernel = "enable" \/ slot[t][2] < QueueSize
    IN  /\ Goto(t, "store", IF asserted THEN Visited ELSE "trapped")
        /\ queue_cells' = IF word < 0 /\ asserted
                          THEN [queue_cells EXCEPT ![b][cell] = slot[t][1]]
                          ELSE queue_cells
        /\ dedup_bs' = IF word \in 0 .. DedupWords - 1 /\ asserted
                       THEN [dedup_bs EXCEPT ![b] = (@ \ Word(word)) \cup
                                { 32 * word + i : i \in BitsOf(slot[t][1]) }]
                       ELSE dedup_bs
        /\ UNCHANGED <<job, symbol_pos, tt, state, to_enable, slot, current, tail,
                       next_tail, is_active_state1, reports, count, printed, report_file>>

Reported(t, s) ==
    LET reporting == s \in nfa(t[1]).report
    IN  /\ reports' = IF reporting THEN reports \cup {<<t[1], symbol_pos[t], s>>} ELSE reports
        /\ count' = IF reporting THEN count + 1 ELSE count

\* With the table: the report of the successor just visited.
ReportEntry(t) ==
    /\ Goto(t, "entry", "enable")
    /\ Reported(t, slot[t][1])
    /\ UNCHANGED <<job, symbol_pos, tt, state, to_enable, slot, shared, printed, report_file>>

\* Without it: the report of a matching state.  Then the thread's next state.
Report(t) ==
    /\ to_enable[t] = {}
    /\ Goto(t, "enable", "cold")
    /\ IF Table THEN UNCHANGED <<reports, count>> ELSE Reported(t, state[t])
    /\ tt' = [tt EXCEPT ![t] = IF state[t] \in Hot(nfa(t[1])) THEN t[2] ELSE @ + BlockDim]
    /\ UNCHANGED <<job, symbol_pos, state, to_enable, slot, shared, printed, report_file>>

\* With the table: a turn of the loop that copies the next queue.
CopyQueue(t) ==
    LET b == t[1]
    IN  /\ pc[t] = "copy"
        /\ IF tt[t] < next_tail[b]
           THEN /\ queue_cells' = [queue_cells EXCEPT ![b][current[b] + tt[t]] =
                                     queue_cells[b][next(b) + tt[t]]]
                /\ tt' = [tt EXCEPT ![t] = @ + BlockDim]
                /\ UNCHANGED pc
           ELSE Goto(t, "copy", "sync3") /\ UNCHANGED <<queue_cells, tt>>
        /\ UNCHANGED <<job, symbol_pos, state, to_enable, slot, current, dedup_bs, tail,
                       next_tail, is_active_state1, reports, count, printed, report_file>>

\* With cells: thread t's hot state is enabled for the next symbol if it is an
\* all-input start or one of the stages has enabled it.
Update(t) ==
    LET s == t[2]
        enabled == s \in nfa(t[1]).always \/ s + BlockDim \in is_active_state1[t[1]]
    IN  /\ Goto(t, "update", "sync3")
        /\ is_active_state1' = IF s \in Hot(nfa(t[1]))
                               THEN [is_active_state1 EXCEPT ![t[1]] = Promoted(t[1], s, enabled)]
                               ELSE is_active_state1
        /\ UNCHANGED <<job, symbol_pos, tt, state, to_enable, slot, current, queue_cells, dedup_bs,
                       tail, next_tail, reports, count, printed, report_file>>

LoopTest(b, pos) == IF pos < Len(input(b)) THEN "prepare" ELSE "done"

\* __syncthreads: all threads of block b are at a barrier, and leave it.
Barrier(b, at, to) ==
    /\ \A t \in ThreadsOf(b) : pc[t] = at
    /\ pc' = [t \in Thread |-> IF t[1] = b THEN to ELSE pc[t]]
    /\ UNCHANGED <<job, tt, state, to_enable, slot, shared, reports, count, printed, report_file>>

Sync0(b) == Barrier(b, "sync0", LoopTest(b, 0)) /\ UNCHANGED symbol_pos
\* Mutant of Sync1: no barrier between the preparation and the hot stage.
Sync1_Missing(b) ==
    \E t \in ThreadsOf(b) :
        /\ Goto(t, "sync1", "hot")
        /\ UNCHANGED <<job, symbol_pos, tt, state, to_enable, slot, shared,
                       reports, count, printed, report_file>>

Sync1(b) == Barrier(b, "sync1", "hot") /\ UNCHANGED symbol_pos

\* The last barrier of the loop's body.
EndSymbol(b, at) ==
    /\ Barrier(b, at, LoopTest(b, symbol_pos[<<b, 0>>] + 1))
    /\ symbol_pos' = [t \in Thread |-> IF t[1] = b THEN symbol_pos[t] + 1 ELSE symbol_pos[t]]

\* The queue is copied with the table, and only after a cold stage.
QueueIsCopied == Table /\ job.run_cold_stage

Sync2(b) == ~QueueIsCopied /\ ~ColdAfterHot /\ EndSymbol(b, "sync2")
Sync2BeforeCopy(b) == QueueIsCopied /\ Barrier(b, "sync2", "copy") /\ UNCHANGED symbol_pos
Sync2BeforeUpdate(b) == ColdAfterHot /\ Barrier(b, "sync2", "update") /\ UNCHANGED symbol_pos
Sync3(b) == EndSymbol(b, "sync3")

\* A device assertion has failed; the kernel does not end.
Trapped == \E t \in Thread : pc[t] = "trapped"

\* print_to_file: the offsets and original ids, once each.
Lines == { <<r[2], nfa(r[1]).original_id[r[3]]>> : r \in reports }

\* organize_reports2; of a kernel that was trapped nothing is printed: copy_back
\* exits.
PrintReports ==
    /\ ~printed
    /\ printed' = TRUE
    /\ Trapped \/ \A t \in Thread : pc[t] = "done"
    /\ report_file' = IF Trapped THEN {} ELSE Lines
    /\ UNCHANGED <<job, pc, symbol_pos, tt, state, to_enable, slot, shared, reports, count>>

Terminated == printed /\ UNCHANGED vars

ThreadStep(t) == \/ Begin(t)
                 \/ Prepare(t)
                 \/ HotStage(t)
                 \/ ColdStage(t)
                 \/ EnableHot(t)
                 \/ Dedup(t)
                 \/ Push(t)
                 \/ Store(t)
                 \/ ReportEntry(t)
                 \/ Report(t)
                 \/ CopyQueue(t)
                 \/ Update(t)

BlockStep(b) == \/ Sync0(b) \/ Sync1(b) \/ Sync2(b)
                \/ Sync2BeforeCopy(b) \/ Sync2BeforeUpdate(b) \/ Sync3(b)

Next == \/ \E t \in Thread : ThreadStep(t)
        \/ \E b \in Block : BlockStep(b)
        \/ PrintReports
        \/ Terminated

Spec == Init /\ [][Next]_vars

\* As for ObatKernel: resident warps are issued, open barriers are left, the
\* host waits for the kernel.
Fairness == /\ \A t \in Thread : WF_vars(ThreadStep(t))
            /\ \A b \in Block : WF_vars(BlockStep(b))
            /\ WF_vars(PrintReports)

FairSpec == Spec /\ Fairness
-----------------------------------------------------------------------------
(* What the kernels compute: the run of EnableActiveNFA on the networks, with *)
(* cells.  Without, hot states are enabled for every symbol or, with the     *)
(* table, active before every symbol, so that their successors are enabled.  *)
(* A symbol is consumed when the last barrier before the queue or the cells  *)
(* are moved opens.                                                          *)

\* Network n with other starts and edges.
Started(n, start, always, edges) ==
    [size |-> n.size, edges |-> edges, symbol_set |-> n.symbol_set, start |-> start,
     always |-> always, report |-> n.report, original_id |-> n.original_id]

HotAlways(n, j) ==
    LET always == IF j.kernel = "table" THEN Successors(n, Hot(n)) ELSE Hot(n)
        edges  == [s \in Sids(n) |-> IF j.run_cold_stage THEN n.edges[s] ELSE {}]
    IN  IF j.kernel = "cold after hot" THEN n ELSE Started(n, always, always, edges)

Lead(b) == <<b, 0>>

HotAlwaysJob(j) == [nfa |-> [g \in Group |-> HotAlways(j.nfa[g], j)], input |-> j.input]

abs_job == HotAlwaysJob(job)

Moving(b) == pc[Lead(b)] \in {"copy", "update", "sync3"}

abs_position ==
    [b \in Block |-> symbol_pos[Lead(b)] + (IF Moving(b) THEN 1 ELSE 0)]

\* The queue for the next symbol: where it begins and how long it is.  Between
\* the barriers it is the next queue until thread 1 has swapped or all threads
\* have copied, and its tail is the next tail until thread 0 has moved it.
Before == {"copy", "update", "sync3", "prepare", "done"}

Base(b) == IF IF Table THEN Moving(b) ELSE pc[<<b, 1>>] \in Before
           THEN next(b) ELSE current[b]

Size(b) == IF pc[Lead(b)] \in Before THEN next_tail[b] ELSE tail[b]

Queue(b) == IF pc[Lead(b)] \in {"init", "sync0"} THEN <<>>
            ELSE [i \in 1 .. Size(b) |-> queue_cells[b][Base(b) + i - 1]]

Queued(b) == IF job.run_cold_stage THEN { Queue(b)[i] : i \in DOMAIN Queue(b) } ELSE {}

\* The hot states enabled for the next symbol: a thread may have its cells still
\* to set before the loop, or to promote after a symbol.
HotEnabled(b) ==
    { s \in Hot(nfa(b)) :
        CASE pc[<<b, s>>] = "init"   -> s \in nfa(b).start
          [] pc[<<b, s>>] = "update" -> \/ s \in nfa(b).always
                                       \/ s + BlockDim \in is_active_state1[b]
          [] OTHER                   -> s \in is_active_state1[b] }

\* With the table, what is queued is active.
abs_enabled ==
    [b \in Block |->
        CASE Table        -> Successors(nfa(b), Hot(nfa(b)) \cup Queued(b))
          [] ColdAfterHot -> HotEnabled(b) \cup Queued(b)
          [] OTHER        -> Hot(nfa(b)) \cup Queued(b)]

abs_reports == { r \in reports : r[2] < abs_position[r[1]] }

Abs == INSTANCE EnableActiveNFA WITH job <- abs_job,
                                     Jobs <- { HotAlwaysJob(j) : j \in Jobs },
                                     position <- abs_position,
                                     enabled <- abs_enabled,
                                     reports <- abs_reports

\* The kernels implement EnableActiveNFA on those networks, whatever the
\* interleaving of the threads: swapping or copying the queues, moving the tail,
\* clearing the bitset and promoting the cells are not atomic, a cold state is
\* queued by whichever thread sets its bit, and a hot one enabled by any.
Implements == Abs!Spec

-----------------------------------------------------------------------------
PCs == {"init", "sync0", "prepare", "sync1", "hot", "cold", "enable", "push",
        "store", "entry", "sync2", "copy", "update", "sync3", "done", "trapped"}

\* The types of the shared memory and of the threads' registers.
TypeOK ==
    /\ job \in Jobs
    /\ pc \in [Thread -> PCs]
    /\ symbol_pos \in [Thread -> Nat]
    /\ tt \in [Thread -> Nat]
    /\ state \in [Thread -> Nat] /\ to_enable \in [Thread -> SUBSET Nat]
    /\ slot \in [Thread -> Nat \X Nat]
    /\ \A t \in Thread : /\ state[t] \in Sids(nfa(t[1]))
                        /\ to_enable[t] \subseteq Sids(nfa(t[1]))
                        /\ slot[t][1] \in Sids(nfa(t[1]))
    /\ current \in [Block -> {0, QueueSize}]
    /\ queue_cells \in [Block -> [0 .. 2 * QueueSize - 1 -> Nat]]
    /\ dedup_bs \in [Block -> SUBSET Int]
    /\ is_active_state1 \in [Block -> SUBSET (0 .. 2 * BlockDim - 1)]
    /\ tail \in [Block -> Nat] /\ next_tail \in [Block -> Nat]
    /\ reports \subseteq Block \X Nat \X Nat
    /\ count \in Nat
    /\ printed \in BOOLEAN
    /\ report_file \subseteq Nat \X Id

\* The queue has a cell for each cold state of the group, or is not overrun
\* without notice.
Fits(b)  == Cardinality(Cold(nfa(b))) <= QueueSize
Roomy(b) == Fits(b) \/ job.kernel # "enable"

\* A cold state is at most once in the queue of a symbol, whichever threads find
\* it there at once; so a queue with a cell for each cold state of the group is
\* never overrun, its assertion never fails, and no state is run twice
\* (kernels.h:571, 575, 892).  Nothing is said of hotstart_ea_kernel with more
\* cold states than cells, which writes over its bitset.
QueueInv ==
    (\A b \in Block : Roomy(b)) =>
        /\ TypeOK
        /\ \A b \in Block :
              /\ job.run_cold_stage => /\ Cardinality(Queued(b)) = Len(Queue(b))
                                       /\ Queued(b) \subseteq Cold(nfa(b))
              /\ Fits(b) => /\ \A t \in ThreadsOf(b) : pc[t] = "store" => slot[t][2] < QueueSize
                            /\ \A t \in ThreadsOf(b) : pc[t] # "trapped"

\* What job j should report.
Expected(j) ==
    UNION { { <<b, r[1], r[2]>> : r \in ReportsOf(j.nfa[b[1]], j.input[b[2]]) } : b \in Block }

Printed(j) == { <<r[2], j.nfa[r[1][1]].original_id[r[3]]>> : r \in Expected(j) }

\* The network read, as far as the kernel is to run it: with the table, a start is
\* enabled for every symbol, of whichever kind it is.
Meant(n) == IF Table THEN Started(n, n.start, n.start, n.edges) ELSE n

\* When a kernel has ended, the file lists exactly the reports of the networks,
\* without cells those with hot states that never rest, and each was claimed
\* once, or with the table once for every active predecessor.  If all hot states
\* are all-input starts, its lines are those of the networks read, although
\* states were split, and with the table the starts have lost loops and flags to new
\* ones.
ReportsExact ==
    printed /\ ~Trapped =>
        /\ IF Table THEN count >= Cardinality(Expected(abs_job))
           ELSE count = Cardinality(Expected(abs_job))
        /\ report_file = Printed(abs_job)
        /\ (job.run_cold_stage /\ \A g \in Group : Hot(job.nfa[g]) \subseteq job.nfa[g].always)
              => report_file = Printed([nfa |-> [g \in Group |-> Meant(job.read[g])],
                                        input |-> job.input])

\* The kernel ends: no thread waits at a barrier another never reaches.
Terminates == <>printed

\* What the comment before the hot stage's test asks for: the match of a hot
\* state that is not enabled does not count.
OnlyEnabledReport ==
    \A r \in reports : <<r[2], r[3]>> \in ReportsOf(nfa(r[1]), input(r[1]))
=============================================================================
