----------------------------- MODULE ObatKernel -----------------------------
(***************************************************************************)
(* The kernel OBAT_baseline_kernel2_fix_ (algorithm obat2, "NewTran") and   *)
(* the host code around it: one thread per NFA state, two boolean arrays    *)
(* in shared memory, and barriers between the phases of a symbol.           *)
(*                                                                          *)
(* obat_matchset_compression_new_imp (obat_MC) is the same kernel, but for   *)
(* the test of a symbol, which it makes on the packed node.                 *)
(*                                                                          *)
(* A thread takes one step between two accesses to memory another thread    *)
(* can touch, in any interleaving with the other threads of its block and   *)
(* of the other blocks.  Only __syncthreads orders them: all threads of a   *)
(* block that have not exited arrive at it, then all leave it.              *)
(***************************************************************************)
EXTENDS HomogeneousNFA, NodePacking

CONSTANTS
    Group,      \* indices of grouped_nfas, blockIdx.x
    Stream,     \* indices of symbol_streams, blockIdx.y
    BlockDim,   \* blockDim.x, the threads of a block
    Capacity,   \* output_buffer_size, the length of real_output_array
    Id,         \* original ids of states
    Jobs        \* the networks and streams a run may be started on, and
                \* whether it is one of obat_MC

ASSUME BlockDimAssumption == BlockDim \in Nat \ {0}
ASSUME CapacityAssumption == Capacity \in Nat \ {0}
\* check_grouped_nfa_sizes bounds the size of a network by BlockDim.
ASSUME JobsAssumption ==
    \A j \in Jobs :
        /\ \A g \in Group : IsNetwork(j.nfa[g], BlockDim, Byte, Id)
        /\ \A y \in Stream : j.input[y] \in Seq(Byte)
        /\ j.packed \in BOOLEAN

VARIABLES
    job,            \* node_list, node_ms, num_of_state_array, input_stream
    pc,             \* where each thread is
    symbol_pos,     \* each thread's loop counter
    is_active,      \* is_active_state1[threadIdx.x]
    is_active_next, \* is_active_state1[threadIdx.x + blockDim.x]
    to_enable,      \* edges the thread's inner loop has still to store
    write_to,       \* the slot the thread's atomicAdd returned
    tail,           \* tail_of_real_output_array
    output,         \* real_output_array, as a partial function
    host,           \* the host: "waiting", "printed" or "aborted"
    report_file,    \* what print_reports writes
    claims          \* history: the <<block, offset, sid>> slot i was claimed for

vars == <<job, pc, symbol_pos, is_active, is_active_next, to_enable,
          write_to, tail, output, host, report_file, claims>>

Block  == Group \X Stream
Tid    == 0 .. BlockDim - 1
Thread == Block \X Tid

nfa(b)       == job.nfa[b[1]]
input(b)     == job.input[b[2]]
ThreadsOf(b) == {b} \X Sids(nfa(b))  \* the threads that run the if body

Init ==
    /\ job \in Jobs
    \* A thread without a state leaves the kernel at once.
    /\ pc = [t \in Thread |-> IF t[2] < nfa(t[1]).size THEN "start" ELSE "done"]
    /\ symbol_pos = [t \in Thread |-> 0]
    /\ is_active = [t \in Thread |-> FALSE]
    /\ is_active_next = [t \in Thread |-> FALSE]
    /\ to_enable = [t \in Thread |-> {}]
    /\ write_to = [t \in Thread |-> 0]
    /\ tail = 0
    /\ output = <<>>
    /\ host = "waiting"
    /\ report_file = {}
    /\ claims = <<>>

Goto(t, from, to) == pc[t] = from /\ pc' = [pc EXCEPT ![t] = to]

\* Before the loop: the thread's two cells are set.
Start(t) ==
    /\ Goto(t, "start", "sync0")
    /\ is_active' = [is_active EXCEPT ![t] = t[2] \in nfa(t[1]).start]
    /\ is_active_next' = [is_active_next EXCEPT ![t] = FALSE]
    /\ UNCHANGED <<job, symbol_pos, to_enable, write_to, tail, output, host, report_file, claims>>

\* The test of a symbol: in a bitmap, or on the packed node.
Matches(n, s, c) == IF job.packed THEN PackedMatch(PackedNode(n.symbol_set[s]), c)
                                  ELSE match2(n, s, c)

\* The condition of the loop body's if, as thread t evaluates it.
Fires(t) == /\ Matches(nfa(t[1]), t[2], input(t[1])[symbol_pos[t] + 1])
            /\ is_active[t]

Match(t) ==
    /\ Goto(t, "match", IF Fires(t) THEN "enable" ELSE "sync1")
    /\ to_enable' = [to_enable EXCEPT ![t] =
                        IF Fires(t) THEN nfa(t[1]).edges[t[2]] ELSE {}]
    /\ UNCHANGED <<job, symbol_pos, is_active, is_active_next, write_to, tail,
                   output, host, report_file, claims>>

\* One iteration of the loop over the packed edges.
Enable(t) ==
    /\ pc[t] = "enable"
    /\ \E s \in to_enable[t] :
          /\ is_active_next' = [is_active_next EXCEPT ![<<t[1], s>>] = TRUE]
          /\ to_enable' = [to_enable EXCEPT ![t] = @ \ {s}]
    /\ UNCHANGED <<job, pc, symbol_pos, is_active, write_to, tail, output, host, report_file, claims>>

\* Mutant of Claim: the tail is read and stored without atomicAdd, so another
\* thread's increment may be lost.
Claim_NotAtomic(t) ==
    LET reporting == t[2] \in nfa(t[1]).report
    IN  /\ to_enable[t] = {}
        /\ Goto(t, "enable", IF reporting THEN "write" ELSE "sync1")
        /\ write_to' = IF reporting THEN [write_to EXCEPT ![t] = tail] ELSE write_to
        /\ tail' \in IF reporting THEN {tail, tail + 1} ELSE {tail}
        /\ claims' = IF reporting
                     THEN Append(claims, <<t[1], symbol_pos[t], t[2]>>)
                     ELSE claims
        /\ UNCHANGED <<job, symbol_pos, is_active, is_active_next, to_enable,
                       output, host, report_file>>

\* atomicAdd on the tail all blocks share; a state that does not report
\* goes to the barrier.
Claim(t) ==
    LET reporting == t[2] \in nfa(t[1]).report
    IN  /\ to_enable[t] = {}
        /\ Goto(t, "enable", IF reporting THEN "write" ELSE "sync1")
        /\ write_to' = IF reporting THEN [write_to EXCEPT ![t] = tail] ELSE write_to
        /\ tail' = IF reporting THEN tail + 1 ELSE tail
        /\ claims' = IF reporting
                     THEN Append(claims, <<t[1], symbol_pos[t], t[2]>>)
                     ELSE claims
        /\ UNCHANGED <<job, symbol_pos, is_active, is_active_next, to_enable,
                       output, host, report_file>>

\* The report thread t stores.
Entry(t) == [symbol_offset |-> symbol_pos[t], state_id |-> t[2], nfa |-> t[1][1]]

\* Array out with value v stored at index i.
Stored(out, i, v) == [k \in DOMAIN out \cup {i} |-> IF k = i THEN v ELSE out[k]]

Write_TailAgain(t) ==
    /\ Goto(t, "write", "sync1")
    /\ output' = IF tail - 1 < Capacity
                 THEN Stored(output, tail - 1, Entry(t))
                 ELSE output
    /\ UNCHANGED <<job, symbol_pos, is_active, is_active_next, to_enable,
                   write_to, tail, host, report_file, claims>>

\* The store to real_output_array[write_to].  The kernel does not compare
\* write_to with the length of the array: a store past its end hits other
\* memory, and the array itself keeps what it had.
Write(t) ==
    /\ Goto(t, "write", "sync1")
    /\ output' = IF write_to[t] < Capacity
                 THEN Stored(output, write_to[t], Entry(t))
                 ELSE output
    /\ UNCHANGED <<job, symbol_pos, is_active, is_active_next, to_enable,
                   write_to, tail, host, report_file, claims>>

\* Mutant of Promote: an all-input state is not enabled again.
Promote_ForgetsAlways(t) ==
    /\ Goto(t, "promote", "sync2")
    /\ is_active' = [is_active EXCEPT ![t] = is_active_next[t]]
    /\ UNCHANGED <<job, symbol_pos, is_active_next, to_enable, write_to, tail,
                   output, host, report_file, claims>>

Promote(t) ==
    /\ Goto(t, "promote", "sync2")
    /\ is_active' = [is_active EXCEPT ![t] =
                        t[2] \in nfa(t[1]).always \/ is_active_next[t]]
    /\ UNCHANGED <<job, symbol_pos, is_active_next, to_enable, write_to, tail,
                   output, host, report_file, claims>>

Clear(t) ==
    /\ Goto(t, "clear", "sync3")
    /\ is_active_next' = [is_active_next EXCEPT ![t] = FALSE]
    /\ UNCHANGED <<job, symbol_pos, is_active, to_enable, write_to, tail,
                   output, host, report_file, claims>>

\* Mutant of Released: the barrier counts the threads that exited.
Released_AllThreads(b, at) == \A t \in {b} \X Tid : pc[t] = at

\* __syncthreads: the threads of block b are all at a barrier, and leave it.
Released(b, at) == \A t \in ThreadsOf(b) : pc[t] = at

Barrier(b, at, to) ==
    /\ Released(b, at)
    /\ pc' = [t \in Thread |-> IF t \in ThreadsOf(b) THEN to ELSE pc[t]]
    /\ UNCHANGED <<job, symbol_pos, is_active, is_active_next, to_enable,
                   write_to, tail, output, host, report_file, claims>>

\* Mutant of Sync1: no barrier between the match phase and the promotion.
Sync1_Missing(b) ==
    \E t \in ThreadsOf(b) :
        /\ Goto(t, "sync1", "promote")
        /\ UNCHANGED <<job, symbol_pos, is_active, is_active_next, to_enable,
                       write_to, tail, output, host, report_file, claims>>

\* Mutant of LoopTest: the last symbol is left out.
LoopTest_DropsLast(b, pos) == IF pos + 1 < Len(input(b)) THEN "match" ELSE "done"

\* The loop test.
LoopTest(b, pos) == IF pos < Len(input(b)) THEN "match" ELSE "done"

Sync0(b) == Barrier(b, "sync0", LoopTest(b, 0))
Sync1(b) == Barrier(b, "sync1", "promote")
Sync2(b) == Barrier(b, "sync2", "clear")

\* The last barrier of the loop body; each thread increments its own counter.
Sync3(b) ==
    /\ Released(b, "sync3")
    /\ symbol_pos' = [t \in Thread |-> IF t \in ThreadsOf(b) THEN symbol_pos[t] + 1
                                                            ELSE symbol_pos[t]]
    /\ pc' = [t \in Thread |-> IF t \in ThreadsOf(b) THEN LoopTest(b, symbol_pos[t] + 1)
                                                    ELSE pc[t]]
    /\ UNCHANGED <<job, is_active, is_active_next, to_enable, write_to, tail,
                   output, host, report_file, claims>>

\* copy_back and print_reports.  Array2::get asserts that the index is
\* inside the array; the file gets each (offset, original id) once, without
\* the stream.
PrintReports ==
    /\ host = "waiting"
    /\ \A t \in Thread : pc[t] = "done"
    /\ IF tail > Capacity
       THEN host' = "aborted" /\ UNCHANGED report_file
       ELSE /\ host' = "printed"
            /\ report_file' =
                 { <<output[i].symbol_offset,
                     job.nfa[output[i].nfa].original_id[output[i].state_id]>> :
                   i \in 0 .. tail - 1 }
    /\ UNCHANGED <<job, pc, symbol_pos, is_active, is_active_next, to_enable,
                   write_to, tail, output, claims>>

\* The process has ended.
Terminated == host # "waiting" /\ UNCHANGED vars

ThreadStep(t) == \/ Start(t)
                 \/ Match(t)
                 \/ Enable(t)
                 \/ Claim(t)
                 \/ Write(t)
                 \/ Promote(t)
                 \/ Clear(t)

BlockStep(b) == \/ Sync0(b)
                \/ Sync1(b)
                \/ Sync2(b)
                \/ Sync3(b)

Next == \/ \E t \in Thread : ThreadStep(t)
        \/ \E b \in Block : BlockStep(b)
        \/ PrintReports
        \/ Terminated

Spec == Init /\ [][Next]_vars

\* A resident warp is issued as long as it is not blocked at a barrier, and a
\* barrier all threads reached opens; the host waits in copy_back.
Fairness == /\ \A t \in Thread : WF_vars(ThreadStep(t))
            /\ \A b \in Block : WF_vars(BlockStep(b))
            /\ WF_vars(PrintReports)

FairSpec == Spec /\ Fairness

-----------------------------------------------------------------------------
(* The promise kept: EnableActiveNFA.  A block consumes its symbol when the  *)
(* barrier after the match phase opens; until a thread promoted its state    *)
(* the enabled set is in the next array.                                     *)

Lead(b) == <<b, 0>>

abs_position ==
    [b \in Block |-> IF pc[Lead(b)] \in {"promote", "sync2", "clear", "sync3"}
                     THEN symbol_pos[Lead(b)] + 1
                     ELSE symbol_pos[Lead(b)]]

abs_enabled ==
    [b \in Block |->
        IF pc[Lead(b)] \in {"start", "sync0"} THEN nfa(b).start
        ELSE IF pc[Lead(b)] \in {"promote", "sync2"}
        THEN nfa(b).always \cup { s \in Sids(nfa(b)) : is_active_next[<<b, s>>] }
        ELSE { s \in Sids(nfa(b)) : is_active[<<b, s>>] }]

abs_reports ==
    { claims[i] : i \in { k \in DOMAIN claims : claims[k][2] < abs_position[claims[k][1]] } }

Abs == INSTANCE EnableActiveNFA WITH position <- abs_position,
                                     enabled <- abs_enabled,
                                     reports <- abs_reports

\* The kernel implements the simultaneous step of EnableActiveNFA in every
\* block, whatever the interleaving of the threads.
Implements == Abs!Spec

-----------------------------------------------------------------------------
PCs == {"start", "sync0", "match", "enable", "write", "sync1", "promote",
        "sync2", "clear", "sync3", "done"}

\* The types of the device memory and of the threads' registers.
TypeOK ==
    /\ job \in Jobs
    /\ pc \in [Thread -> PCs]
    /\ symbol_pos \in [Thread -> Nat]
    /\ is_active \in [Thread -> BOOLEAN]
    /\ is_active_next \in [Thread -> BOOLEAN]
    /\ to_enable \in [Thread -> SUBSET Tid]
    /\ write_to \in [Thread -> Nat]
    /\ tail \in Nat
    /\ DOMAIN output \subseteq 0 .. Capacity - 1
    /\ \A i \in DOMAIN output :
          output[i] \in [symbol_offset : Nat, state_id : Tid, nfa : Group]
    /\ host \in {"waiting", "printed", "aborted"}
    /\ report_file \subseteq Nat \X Id
    /\ claims \in Seq(Block \X Nat \X Tid)

\* No data race on the next array: while a thread has a store into the cell
\* of state s to make, thread s of the same block is neither about to read
\* that cell (promote) nor about to reset it (clear).
NoRace ==
    \A t \in Thread : pc[t] = "enable" =>
        \A s \in to_enable[t] : pc[<<t[1], s>>] \notin {"start", "promote", "clear"}

\* The slots atomicAdd hands out belong to one thread each, over all blocks,
\* and a slot a thread is about to write holds no other report.
SlotsExclusive ==
    \A t \in Thread : pc[t] = "write" =>
        /\ write_to[t] \in 0 .. tail - 1 /\ write_to[t] \notin DOMAIN output
        /\ \A u \in Thread \ {t} : pc[u] = "write" => write_to[u] # write_to[t]

\* What the run should report: every report of every block.
Expected ==
    UNION { { <<b, r[1], r[2]>> : r \in ReportsOf(nfa(b), input(b)) } : b \in Block }

\* When the kernel has ended, count_of_match is the number of reports of the
\* networks on their streams, and if the array holds them all the file lists
\* exactly their offsets and original ids.
ReportsExact ==
    /\ host # "waiting" => tail = Cardinality(Expected)
    /\ host = "printed" =>
         report_file = { <<r[2], nfa(r[1]).original_id[r[3]]>> : r \in Expected }

\* A report once in real_output_array is never overwritten.
ReportsKept == [][\A i \in DOMAIN output : i \in DOMAIN output' /\ output'[i] = output[i]]_vars

\* The kernel ends and the host prints: no barrier is missed by a thread.
Terminates == <>(host # "waiting")

\* The assertion of Array2::get, which print_reports calls for every index
\* below the tail.
GetInBounds == host # "aborted"

-----------------------------------------------------------------------------
(* Why the kernel is correct: an invariant that every step preserves.        *)

SetUp     == {"start", "sync0"}
Matching  == {"match", "enable", "write", "sync1"}
Promoting == {"promote", "sync2"}
Clearing  == {"clear", "sync3"}
Exited    == {"done"}
Phases    == {SetUp, Matching, Promoting, Clearing, Exited}

\* The threads of a block are between the same two barriers of the same
\* symbol; a thread without a state has left the kernel.
Lockstep ==
    /\ \A b \in Block : \A t \in ThreadsOf(b) :
          /\ symbol_pos[t] = symbol_pos[Lead(b)]
          /\ \A P \in Phases : pc[t] \in P <=> pc[Lead(b)] \in P
          /\ pc[t] \in SetUp => symbol_pos[t] = 0
          /\ pc[t] \in Matching \cup Promoting \cup Clearing =>
                symbol_pos[t] < Len(input(b))
    /\ \A t \in Thread : t \notin ThreadsOf(t[1]) => pc[t] = "done"

\* What a thread knows about its own cells and registers.
ThreadLocal ==
    \A b \in Block : \A t \in ThreadsOf(b) :
        /\ pc[t] \in {"enable", "write"} => Fires(t)
        /\ pc[t] = "write" => t[2] \in nfa(b).report
        /\ to_enable[t] \subseteq nfa(b).edges[t[2]]
        /\ pc[t] # "enable" => to_enable[t] = {}
        /\ pc[t] = "sync0" => is_active[t] = (t[2] \in nfa(b).start) /\ ~is_active_next[t]
        /\ pc[t] = "sync2" => is_active[t] = (t[2] \in nfa(b).always \/ is_active_next[t])
        /\ pc[t] = "sync3" => ~is_active_next[t]

\* Thread r has taken the branch of a firing state and stored edge s.
HasEnabled(b, r, s) ==
    /\ pc[<<b, r>>] \in {"enable", "write", "sync1"}
    /\ Fires(<<b, r>>)
    /\ s \in nfa(b).edges[r] \ to_enable[<<b, r>>]

\* In the match phase the next array holds the edges stored so far.
NextArray ==
    \A b \in Block : pc[Lead(b)] \in Matching =>
        \A s \in Sids(nfa(b)) :
            is_active_next[<<b, s>>] <=> \E r \in Sids(nfa(b)) : HasEnabled(b, r, s)

\* Thread s has made its claim for the current symbol.
HasClaimed(b, s) ==
    /\ pc[<<b, s>>] \in {"write", "sync1"}
    /\ Fires(<<b, s>>)
    /\ s \in nfa(b).report

\* The claims of a block are those of the symbols before, and those made so
\* far for the symbol the block is matching.
ClaimsSoFar ==
    /\ \A k \in DOMAIN claims :
          LET b == claims[k][1]
          IN  \/ claims[k][2] < abs_position[b]
              \/ /\ pc[Lead(b)] \in Matching
                 /\ \E s \in Sids(nfa(b)) :
                       HasClaimed(b, s) /\ claims[k] = <<b, abs_position[b], s>>
    /\ \A b \in Block : pc[Lead(b)] \in Matching =>
          \A s \in Sids(nfa(b)) : HasClaimed(b, s) =>
             \E k \in DOMAIN claims : claims[k] = <<b, symbol_pos[Lead(b)], s>>

\* Every slot below the tail was handed out once: it has been written, or one
\* thread is about to write it, or it is past the end of the array.
Slots ==
    /\ SlotsExclusive
    /\ tail = Len(claims)
    /\ DOMAIN output \subseteq 0 .. tail - 1
    /\ \A i \in 0 .. tail - 1 :
          \/ i \in DOMAIN output
          \/ i >= Capacity
          \/ \E t \in Thread : pc[t] = "write" /\ write_to[t] = i
    /\ \A i \in DOMAIN output : output[i].state_id \in Sids(job.nfa[output[i].nfa])

\* A report is claimed once, and its slot is for it.
Ledger ==
    /\ \A j, k \in DOMAIN claims : claims[j] = claims[k] => j = k
    /\ \A t \in Thread : pc[t] = "write" =>
          claims[write_to[t] + 1] = <<t[1], symbol_pos[t], t[2]>>
    /\ \A i \in DOMAIN output :
          LET c == claims[i + 1]
          IN  output[i] = [symbol_offset |-> c[2], state_id |-> c[3], nfa |-> c[1][1]]

\* A block leaves the kernel at the end of its stream, and the host reads the
\* array when all have left: if it holds every claim, the file lists them.
Endings ==
    /\ \A b \in Block : pc[Lead(b)] = "done" => symbol_pos[Lead(b)] = Len(input(b))
    /\ host # "waiting" => \A t \in Thread : pc[t] = "done"
    /\ host = "printed" =>
          report_file = { <<claims[k][2], nfa(claims[k][1]).original_id[claims[k][3]]>> :
                          k \in DOMAIN claims }

\* The inductive invariant: what every step of a thread, a barrier or the host
\* keeps, and what the safety properties follow from.
IInv == /\ TypeOK /\ Lockstep /\ ThreadLocal /\ NextArray /\ ClaimsSoFar /\ Slots
        /\ Ledger /\ Endings
=============================================================================
