--------------------------- MODULE HotStartProofs ---------------------------
(***************************************************************************)
(* The kernels of HotStart, for every set of groups, streams and jobs, every *)
(* block size and queue length, whatever the interleaving of the threads:    *)
(* no state is in the cold queue twice, so that it is not overrun; a symbol's *)
(* stages together do what a symbol does to the network, so that the kernels *)
(* implement EnableActiveNFA; and what is counted and printed is what the    *)
(* networks report.                                                          *)
(***************************************************************************)
EXTENDS HotStart, NetworkProofs

\* What the threads of a block do together between two barriers.
Phase(p) == IF p \in {"init", "sync0"} THEN 0
            ELSE IF p \in {"prepare", "sync1"} THEN 1
            ELSE IF p \in {"copy", "update", "sync3"} THEN 3
            ELSE IF p = "done" THEN 4
            ELSE 2

PhaseOf(b) == Phase(pc[Lead(b)])

\* A barrier opens for all threads of a block or for none.
Lockstep(b) == \A t \in ThreadsOf(b) : Phase(pc[t]) = PhaseOf(b)

\* The queue to be run holds cold states, each once, in its own cells.
QueueSound(b) ==
    /\ Size(b) <= QueueSize
    /\ \A i \in 0 .. Size(b) - 1 : queue_cells[b][Base(b) + i] \in Cold(nfa(b))
    /\ \A i, j \in 0 .. Size(b) - 1 :
          queue_cells[b][Base(b) + i] = queue_cells[b][Base(b) + j] => i = j

\* Cold state e has its bit.
Marked(b, e) == e \in Cold(nfa(b)) /\ e - nfa(b).hot \in dedup_bs[b]

\* The threads that found a bit clear and have not stored the state, and those of
\* them that have a cell for it.
Queueing(b) == { t \in ThreadsOf(b) : pc[t] \in {"push", "store", "trapped"} }
Claiming(b) == { t \in ThreadsOf(b) : pc[t] \in {"store", "trapped"} }

\* The cells of the next queue that are claimed and stored.
Written(b) == { i \in 0 .. next_tail[b] - 1 : \A t \in Claiming(b) : slot[t][2] # i }

Cell(b, i) == queue_cells[b][next(b) + i]

\* While a symbol is worked off: each state of the next queue, stored or still
\* with a thread, has its bit, and is there once.
NextSound(b) ==
    /\ \A t \in Claiming(b) : slot[t][2] \in 0 .. next_tail[b] - 1
    /\ \A t, u \in Claiming(b) : slot[t][2] = slot[u][2] => t = u
    /\ \A i \in Written(b) : i < QueueSize /\ Marked(b, Cell(b, i))
    /\ \A i, j \in Written(b) : Cell(b, i) = Cell(b, j) => i = j
    /\ \A t \in Queueing(b) : Marked(b, slot[t][1])
    /\ \A t, u \in Queueing(b) : slot[t][1] = slot[u][1] => t = u
    /\ \A t \in Queueing(b) : \A i \in Written(b) : slot[t][1] # Cell(b, i)

\* A state with its bit is in the next queue, or a thread is about to store it.
Kept(b) ==
    \A e \in Cold(nfa(b)) : Marked(b, e) =>
        \/ \E i \in Written(b) : Cell(b, i) = e
        \/ \E t \in Queueing(b) : slot[t][1] = e

\* Where a thread is, for the kernel it runs; and with the table what it has
\* copied.
ThreadInv(t) ==
    LET b == t[1]
    IN  /\ pc[t] = "copy" => Table
        /\ pc[t] = "update" => ColdAfterHot
        /\ Phase(pc[t]) = 3 => job.run_cold_stage
        /\ pc[t] = "trapped" => slot[t][2] >= QueueSize
        /\ pc[t] = "sync2" => tt[t] = t[2]
        /\ pc[t] = "copy" => tt[t] % BlockDim = t[2]
        /\ Table /\ pc[t] \in {"copy", "sync3"} =>
              \A i \in 0 .. next_tail[b] - 1 :
                 i % BlockDim = t[2] /\ (pc[t] = "copy" => i < tt[t])
                     => queue_cells[b][current[b] + i] = Cell(b, i)

BlockInv(b) ==
    /\ Lockstep(b)
    /\ pc[Lead(b)] \in {"sync0", "sync1"} => next_tail[b] = 0
    /\ job.run_cold_stage /\ PhaseOf(b) # 0 => QueueSound(b)
    /\ PhaseOf(b) = 2 => NextSound(b)
    /\ \A t \in ThreadsOf(b) : ThreadInv(t)

IInv ==
    /\ TypeOK
    /\ \A r \in reports : r[3] \in Sids(nfa(r[1]))
    /\ \A b \in Block : BlockInv(b)

AllRoomy == \A b \in Block : Roomy(b)

-----------------------------------------------------------------------------
(* Networks, blocks and threads.                                             *)

\* A network as a kernel gets it.
KernelNetwork(n) ==
    /\ n.size \in Nat \ {0} /\ n.size <= 65536 /\ n.hot \in 1 .. BlockDim /\ n.hot <= n.size
    /\ n.edges \in [Sids(n) -> SUBSET Sids(n)]
    /\ n.symbol_set \in [Sids(n) -> SUBSET Byte]
    /\ n.start \subseteq Hot(n) /\ n.always \subseteq n.start /\ n.report \subseteq Sids(n)
    /\ n.original_id \in [Sids(n) -> Id]

\* The networks of a job, from the assumption on Jobs.
LEMMA JobFacts ==
    ASSUME NEW j \in Jobs, NEW g \in Group, NEW y \in Stream
    PROVE  /\ KernelNetwork(j.nfa[g])
           /\ j.input[y] \in Seq(Byte)
           /\ j.kernel \in Kernel
           /\ j.kernel = "cold after hot" => j.run_cold_stage
<1>1. /\ j.input[y] \in Seq(Byte) /\ j.kernel \in Kernel
      /\ j.kernel = "cold after hot" => j.run_cold_stage
  BY JobsAssumption
<1> DEFINE m == j.nfa[g]
<1>2. IsNetwork(m, MostStates(j), Byte, Id)
  BY JobsAssumption
<1>3. MostStates(j) \in Nat /\ MostStates(j) <= 65536
  BY DEF MostStates, EMPTY_ENTRY
<1>4. m.hot \in 1 .. BlockDim /\ m.start \subseteq Hot(m) /\ m.hot <= m.size
  BY JobsAssumption DEF Hot
<1> HIDE DEF m
<1>5. KernelNetwork(m)
  BY <1>2, <1>3, <1>4 DEF IsNetwork, KernelNetwork
<1> QED
  BY <1>1, <1>5 DEF m

\* The network of a block.
LEMMA BlockFacts ==
    ASSUME TypeOK, NEW b \in Block
    PROVE  /\ KernelNetwork(nfa(b))
           /\ nfa(b).size \in Nat \ {0} /\ nfa(b).hot \in 1 .. BlockDim /\ nfa(b).hot <= nfa(b).size
           /\ nfa(b).edges \in [Sids(nfa(b)) -> SUBSET Sids(nfa(b))]
           /\ nfa(b).original_id \in [Sids(nfa(b)) -> Id]
           /\ Hot(nfa(b)) \subseteq Sids(nfa(b)) /\ Hot(nfa(b)) \subseteq Tid
           /\ Cold(nfa(b)) \subseteq Sids(nfa(b)) /\ Sids(nfa(b)) \subseteq Nat
           /\ 0 \in Sids(nfa(b)) /\ 0 \in Hot(nfa(b))
           /\ input(b) \in Seq(Byte)
           /\ job.kernel \in Kernel
           /\ ColdAfterHot => job.run_cold_stage
<1>1. b[1] \in Group /\ b[2] \in Stream
  BY DEF Block
<1>2. KernelNetwork(nfa(b))
  BY <1>1, JobFacts DEF TypeOK, nfa
<1>3. /\ input(b) \in Seq(Byte)
      /\ job.kernel \in Kernel
      /\ ColdAfterHot => job.run_cold_stage
  BY <1>1, JobFacts DEF TypeOK, input, ColdAfterHot
<1>4. /\ nfa(b).size \in Nat \ {0} /\ nfa(b).hot \in 1 .. BlockDim /\ nfa(b).hot <= nfa(b).size
      /\ nfa(b).edges \in [Sids(nfa(b)) -> SUBSET Sids(nfa(b))]
      /\ nfa(b).original_id \in [Sids(nfa(b)) -> Id]
  BY <1>2 DEF KernelNetwork
<1> QED
  BY <1>2, <1>3, <1>4, BlockDimAssumption DEF Hot, Cold, Sids, Tid

\* The threads of a block.
LEMMA ThreadFacts ==
    /\ \A t \in Thread : /\ t[1] \in Block /\ t[2] \in Tid /\ t = <<t[1], t[2]>>
                         /\ t \in ThreadsOf(t[1])
    /\ \A b \in Block : /\ ThreadsOf(b) \subseteq Thread
                        /\ Lead(b) \in ThreadsOf(b) /\ <<b, 1>> \in ThreadsOf(b)
                        /\ Lead(b)[2] = 0 /\ <<b, 1>>[2] = 1
                        /\ \A t \in ThreadsOf(b) : t[1] = b /\ t[2] \in Tid /\ t = <<b, t[2]>>
                        /\ \A i \in Tid : <<b, i>> \in ThreadsOf(b)
    /\ 0 \in Tid /\ 1 \in Tid
BY BlockDimAssumption DEF Thread, Tid, ThreadsOf, Lead

\* The job of a run is fixed.
LEMMA JobKept ==
    ASSUME [Next]_vars
    PROVE  /\ job' = job /\ Table' = Table /\ ColdAfterHot' = ColdAfterHot
           /\ \A b : nfa(b)' = nfa(b)
           /\ \A b : Roomy(b)' = Roomy(b)
           /\ \A b : Fits(b)' = Fits(b)
<1>1. job' = job
  <2>1. ASSUME NEW t \in Thread, ThreadStep(t) PROVE job' = job
    BY <2>1 DEF ThreadStep, Begin, Prepare, HotStage, ColdStage, EnableHot, Dedup, Push, Store,
                ReportEntry, Report, CopyQueue, Update
  <2>2. ASSUME NEW b \in Block, BlockStep(b) PROVE job' = job
    BY <2>2 DEF BlockStep, Sync0, Sync1, Sync2, Sync2BeforeCopy, Sync2BeforeUpdate, Sync3,
                EndSymbol, Barrier
  <2>3. PrintReports \/ Terminated \/ UNCHANGED vars => job' = job
    BY DEF PrintReports, Terminated, vars
  <2> QED
    BY <2>1, <2>2, <2>3 DEF Next
<1> QED
  BY <1>1 DEF Table, ColdAfterHot, nfa, Roomy, Fits

\* Indices i and a with one remainder, i not before a and less than a stride after.
LEMMA Strides ==
    ASSUME NEW a \in Nat
    PROVE  /\ a % BlockDim \in Tid
           /\ (a + BlockDim) % BlockDim = a % BlockDim
           /\ \A i \in Nat : a <= i /\ i < a + BlockDim /\ i % BlockDim = a % BlockDim => i = a
           /\ \A t \in Tid : t % BlockDim = t
BY BlockDimAssumption, StridesOf DEF Tid

-----------------------------------------------------------------------------
(* Types.                                                                    *)

\* The threads of one block are in one phase; the queue that is run holds cold
\* states.
LEMMA PhaseFacts ==
    ASSUME IInv, NEW t \in Thread
    PROVE  /\ Phase(pc[t]) = PhaseOf(t[1])
           /\ Phase(pc[<<t[1], 1>>]) = PhaseOf(t[1])
           /\ PhaseOf(t[1]) = 2 =>
                 /\ Base(t[1]) = current[t[1]] /\ Size(t[1]) = tail[t[1]]
                 /\ ~Moving(t[1])
<1>1. t \in ThreadsOf(t[1]) /\ <<t[1], 1>> \in ThreadsOf(t[1]) /\ t[1] \in Block
  BY ThreadFacts
<1>2. Phase(pc[t]) = PhaseOf(t[1]) /\ Phase(pc[<<t[1], 1>>]) = PhaseOf(t[1])
  BY <1>1 DEF IInv, BlockInv, Lockstep
<1>3. ASSUME PhaseOf(t[1]) = 2
      PROVE  pc[<<t[1], 1>>] \notin Before /\ pc[Lead(t[1])] \notin Before
  BY <1>2, <1>3 DEF PhaseOf, Phase, Before
<1> QED
  BY <1>2, <1>3 DEF Base, Size, Moving, Before

\* The initial state has the types.
LEMMA InitType == ASSUME Init PROVE TypeOK
<1>1. job \in Jobs
  BY DEF Init
<1>2. \A t \in Thread : 0 \in Sids(nfa(t[1]))
  <2>1. ASSUME NEW t \in Thread PROVE 0 \in Sids(nfa(t[1]))
    <3>1. t[1][1] \in Group /\ t[1][2] \in Stream
      BY DEF Thread, Block
    <3>3. KernelNetwork(job.nfa[t[1][1]])
      BY <1>1, <3>1, JobFacts
    <3>2. job.nfa[t[1][1]].size \in Nat \ {0}
      BY <3>3 DEF KernelNetwork
    <3> QED
      BY <3>2 DEF nfa, Sids
  <2> QED
    BY <2>1
<1>3. \A b \in Block : is_active_state1[b] \subseteq 0 .. 2 * BlockDim - 1
  BY BlockDimAssumption DEF Init
<1>4. \A b \in Block : dedup_bs[b] \in SUBSET Int
  BY DEF Init
<1>5. /\ dedup_bs \in [Block -> SUBSET Int]
      /\ is_active_state1 \in [Block -> SUBSET (0 .. 2 * BlockDim - 1)]
  BY <1>3, <1>4 DEF Init
<1>6. /\ queue_cells \in [Block -> [0 .. 2 * QueueSize - 1 -> Nat]]
      /\ tail \in [Block -> Nat] /\ next_tail \in [Block -> Nat]
      /\ current \in [Block -> {0, QueueSize}]
      /\ to_enable \in [Thread -> SUBSET Nat] /\ slot \in [Thread -> Nat \X Nat]
  BY DEF Init
<1> QED
  BY <1>1, <1>2, <1>5, <1>6 DEF Init, TypeOK, PCs

\* The types of what belongs to a block, and of the registers of a thread.
LEMMA BlockType ==
    ASSUME TypeOK, NEW b \in Block
    PROVE  /\ QueueSize \in Nat \ {0} /\ BlockDim \in Nat
           /\ current[b] \in {0, QueueSize} /\ next(b) \in {0, QueueSize}
           /\ next(b) + current[b] = QueueSize
           /\ tail[b] \in Nat /\ next_tail[b] \in Nat
           /\ queue_cells[b] \in [0 .. 2 * QueueSize - 1 -> Nat]
           /\ dedup_bs[b] \subseteq Int
           /\ is_active_state1[b] \subseteq 0 .. 2 * BlockDim - 1
<1>1. current[b] \in {0, QueueSize} /\ QueueSize \in Nat \ {0} /\ BlockDim \in Nat
  BY QueueSizeAssumption, BlockDimAssumption DEF TypeOK
<1>2. next(b) = QueueSize - current[b]
  BY DEF next
<1> QED
  BY <1>1, <1>2 DEF TypeOK

\* The types of a thread's registers.
LEMMA ThreadType ==
    ASSUME TypeOK, NEW t \in Thread
    PROVE  /\ t[1] \in Block /\ t[2] \in Tid /\ t[2] \in Nat
           /\ tt[t] \in Nat /\ pc[t] \in PCs /\ symbol_pos[t] \in Nat
           /\ state[t] \in Nat /\ to_enable[t] \subseteq Nat
           /\ slot[t][1] \in Nat /\ slot[t][2] \in Nat /\ slot[t] = <<slot[t][1], slot[t][2]>>
           /\ state[t] \in Sids(nfa(t[1])) /\ to_enable[t] \subseteq Sids(nfa(t[1]))
           /\ slot[t][1] \in Sids(nfa(t[1]))
<1>1. t[1] \in Block /\ t[2] \in Tid /\ t[2] \in Nat
  BY ThreadFacts DEF Tid
<1>2. slot[t] \in Nat \X Nat
  BY DEF TypeOK
<1> QED
  BY <1>1, <1>2 DEF TypeOK

\* A function whose value at one place is changed.
LEMMA Changed ==
    ASSUME NEW S, NEW T, NEW f \in [S -> T], NEW x \in S, NEW v \in T
    PROVE  [f EXCEPT ![x] = v] \in [S -> T]
OBVIOUS

\* A function changed at one point has the new value there.
LEMMA ChangedThere ==
    ASSUME NEW S, NEW T, NEW f \in [S -> T], NEW x \in S, NEW v
    PROVE  /\ [f EXCEPT ![x] = v][x] = v
           /\ \A y \in S : y # x => [f EXCEPT ![x] = v][y] = f[y]
OBVIOUS

\* A function to sets whose value at one place is changed.
LEMMA SetChanged ==
    ASSUME NEW S, NEW T, NEW f \in [S -> SUBSET T], NEW x \in S, NEW V \in SUBSET T
    PROVE  [f EXCEPT ![x] = V] \in [S -> SUBSET T]
OBVIOUS

\* Every step keeps the types.
LEMMA TypeStep ==
    ASSUME AllRoomy, IInv, [Next]_vars
    PROVE  TypeOK' /\ \A r \in reports' : r[3] \in Sids(nfa(r[1])')
<1> DEFINE Told == \A r \in reports' : r[3] \in Sids(nfa(r[1])')
           Registers == \A t \in Thread : /\ state[t] \in Sids(nfa(t[1]))
                                          /\ to_enable[t] \subseteq Sids(nfa(t[1]))
                                          /\ slot[t][1] \in Sids(nfa(t[1]))
<1>0. TypeOK /\ Registers /\ \A r \in reports : r[3] \in Sids(nfa(r[1]))
  BY DEF IInv, TypeOK
<1>1. job' = job /\ (\A b : nfa(b)' = nfa(b)) /\ Table' = Table /\ ColdAfterHot' = ColdAfterHot
  BY JobKept
<1>2. ASSUME NEW t \in Thread, ThreadStep(t)
      PROVE  TypeOK' /\ Told
  <2> DEFINE b == t[1]
  <2>0. b \in Block /\ t[1] = b /\ t[1] \in Block /\ t[2] \in Tid
    BY ThreadFacts
  <2>0a. /\ Hot(nfa(b)) \subseteq Tid /\ Sids(nfa(b)) \subseteq Nat
         /\ Cold(nfa(b)) \subseteq Sids(nfa(b)) /\ Hot(nfa(b)) \subseteq Sids(nfa(b))
         /\ nfa(b).edges \in [Sids(nfa(b)) -> SUBSET Sids(nfa(b))]
    BY <1>0, <2>0, BlockFacts
  <2>0b. /\ BlockDim \in Nat /\ QueueSize \in Nat
         /\ Tid \subseteq Nat /\ t[2] \in Nat
    BY <2>0, BlockDimAssumption, QueueSizeAssumption DEF Tid
  <2> HIDE DEF b
  <2>1. CASE Begin(t)
    <3>1. is_active_state1' \in [Block -> SUBSET (0 .. 2 * BlockDim - 1)]
      <4>1. ASSUME t[2] \in Hot(nfa(b)), NEW on \in BOOLEAN
            PROVE  Promoted(b, t[2], on) \subseteq 0 .. 2 * BlockDim - 1
        BY <1>0, <2>0, <2>0a, <2>0b, <4>1 DEF TypeOK, Promoted, Tid
      <4> DEFINE start == t[2] \in nfa(b).start
      <4>2. start \in BOOLEAN
        OBVIOUS
      <4>3. \/ is_active_state1' = is_active_state1
            \/ /\ t[2] \in Hot(nfa(b))
               /\ is_active_state1' = [is_active_state1 EXCEPT ![b] = Promoted(b, t[2], start)]
        BY <2>1 DEF Begin, b
      <4> HIDE DEF Promoted, start
      <4>4. is_active_state1 \in [Block -> SUBSET (0 .. 2 * BlockDim - 1)]
        BY <1>0 DEF TypeOK
      <4>5. t[2] \in Hot(nfa(b)) =>
               [is_active_state1 EXCEPT ![b] = Promoted(b, t[2], start)]
                  \in [Block -> SUBSET (0 .. 2 * BlockDim - 1)]
        BY <2>0, <4>1, <4>2, <4>4, SetChanged
      <4> QED
        BY <4>3, <4>4, <4>5
    <3>2. tail' \in [Block -> Nat] /\ next_tail' \in [Block -> Nat]
      <4>1. /\ tail' = tail \/ tail' = [tail EXCEPT ![b] = 0]
            /\ next_tail' = next_tail \/ next_tail' = [next_tail EXCEPT ![b] = 0]
        BY <2>1, <2>0 DEF Begin
      <4>2. tail \in [Block -> Nat] /\ next_tail \in [Block -> Nat]
        BY <1>0 DEF TypeOK
      <4>3. /\ [tail EXCEPT ![b] = 0] \in [Block -> Nat]
            /\ [next_tail EXCEPT ![b] = 0] \in [Block -> Nat]
        BY <2>0, <4>2, Changed
      <4> QED
        BY <4>1, <4>2, <4>3
    <3>4. dedup_bs' \in [Block -> SUBSET Int]
      BY <1>0, <2>1, <2>0, SetChanged DEF Begin, TypeOK
    <3>3. pc' \in [Thread -> PCs]
      BY <1>0, <2>1 DEF Begin, Goto, TypeOK, PCs
    <3> QED
      BY <1>0, <1>1, <2>1, <3>1, <3>2, <3>3, <3>4 DEF Begin, TypeOK
  <2>2. CASE Prepare(t)
    <3>0. /\ pc' = [pc EXCEPT ![t] = "sync1"]
          /\ current' = current \/ current' = [current EXCEPT ![b] = next(b)]
          /\ tail' = tail \/ tail' = [tail EXCEPT ![b] = next_tail[b]]
          /\ next_tail' = next_tail \/ next_tail' = [next_tail EXCEPT ![b] = 0]
      BY <2>2, <2>0 DEF Prepare, Goto
    <3>1. pc' \in [Thread -> PCs] /\ current' \in [Block -> {0, QueueSize}]
      <4>1. "sync1" \in PCs /\ next(b) \in {0, QueueSize}
        BY <1>0, <2>0, BlockType DEF PCs
      <4>2. pc \in [Thread -> PCs] /\ current \in [Block -> {0, QueueSize}]
        BY <1>0 DEF TypeOK
      <4>3. /\ [pc EXCEPT ![t] = "sync1"] \in [Thread -> PCs]
            /\ [current EXCEPT ![b] = next(b)] \in [Block -> {0, QueueSize}]
        BY <2>0, <4>1, <4>2, Changed
      <4> QED
        BY <3>0, <4>2, <4>3
    <3>2. tail' \in [Block -> Nat] /\ next_tail' \in [Block -> Nat]
      <4>1. tail \in [Block -> Nat] /\ next_tail \in [Block -> Nat]
        BY <1>0 DEF TypeOK
      <4>2. /\ [tail EXCEPT ![b] = next_tail[b]] \in [Block -> Nat]
            /\ [next_tail EXCEPT ![b] = 0] \in [Block -> Nat]
        BY <2>0, <4>1, Changed
      <4> QED
        BY <3>0, <4>1, <4>2
    <3>3. dedup_bs' \in [Block -> SUBSET Int]
      BY <1>0, <2>2, <2>0, SetChanged DEF Prepare, TypeOK
    <3> QED
      BY <1>0, <1>1, <2>2, <3>1, <3>2, <3>3 DEF Prepare, TypeOK
  <2>3. ASSUME NEW s \in Sids(nfa(b)), Fire(t, s)
        PROVE  /\ state' \in [Thread -> Nat] /\ to_enable' \in [Thread -> SUBSET Nat]
               /\ \A u \in Thread : /\ state'[u] \in Sids(nfa(u[1]))
                                    /\ to_enable'[u] \subseteq Sids(nfa(u[1]))
    <3>1. Targets(t, s) \subseteq Sids(nfa(b))
      BY <2>0a DEF b, Targets, Entry
    <3>2. /\ state' = [state EXCEPT ![t] = s]
          /\ to_enable' = [to_enable EXCEPT ![t] = Targets(t, s)]
      BY <2>3 DEF Fire
    <3> QED
      BY <1>0, <2>0a, <3>1, <3>2 DEF TypeOK, b
  <2>4. CASE HotStage(t)
    <3>1. pc' \in [Thread -> PCs] /\ tt' \in [Thread -> Nat]
      BY <1>0, <2>4, <2>0b DEF HotStage, Goto, TypeOK, PCs
    <3>2. /\ state' \in [Thread -> Nat] /\ to_enable' \in [Thread -> SUBSET Nat]
          /\ \A u \in Thread : /\ state'[u] \in Sids(nfa(u[1]))
                               /\ to_enable'[u] \subseteq Sids(nfa(u[1]))
      <4>1. CASE Fire(t, t[2]) /\ t[2] \in Hot(nfa(b))
        BY <2>0a, <2>3, <4>1
      <4>2. CASE UNCHANGED <<state, to_enable>>
        BY <1>0, <4>2 DEF TypeOK
      <4> QED
        BY <2>4, <4>1, <4>2 DEF HotStage, b
    <3> QED
      BY <1>0, <1>1, <2>4, <3>1, <3>2 DEF HotStage, TypeOK, shared
  <2>5. CASE ColdStage(t)
    <3> DEFINE s == queue_cells[b][current[b] + tt[t]]
    <3>0. pc' \in [Thread -> PCs]
      <4>1. \/ pc' = pc
            \/ pc' = [pc EXCEPT ![t] = "enable"]
            \/ pc' = [pc EXCEPT ![t] = "sync2"]
        BY <2>5 DEF ColdStage, Goto
      <4>2. pc \in [Thread -> PCs]
        BY <1>0 DEF TypeOK
      <4>3. "enable" \in PCs /\ "sync2" \in PCs
        BY DEF PCs
      <4>4. /\ [pc EXCEPT ![t] = "enable"] \in [Thread -> PCs]
            /\ [pc EXCEPT ![t] = "sync2"] \in [Thread -> PCs]
        BY <2>0, <4>2, <4>3, Changed
      <4> QED
        BY <4>1, <4>2, <4>4
    <3>0a. \/ tt' = tt
           \/ \E v \in Nat : tt' = [tt EXCEPT ![t] = v]
      BY <1>0, <2>5, <2>0b DEF ColdStage, TypeOK
    <3>1. tt' \in [Thread -> Nat]
      BY <1>0, <3>0a DEF TypeOK
    <3>2. ASSUME job.run_cold_stage, tt[t] < tail[b] PROVE s \in Sids(nfa(b))
      <4>1. PhaseOf(b) = 2 /\ Base(b) = current[b] /\ Size(b) = tail[b]
        BY <2>5, PhaseFacts DEF ColdStage, Goto, Phase, b
      <4>2. QueueSound(b)
        BY <2>0, <3>2, <4>1 DEF IInv, BlockInv
      <4>3. tt[t] \in 0 .. tail[b] - 1
        BY <1>0, <2>0, <3>2 DEF TypeOK
      <4> QED
        BY <2>0a, <4>1, <4>2, <4>3 DEF QueueSound
    <3>3. /\ state' \in [Thread -> Nat] /\ to_enable' \in [Thread -> SUBSET Nat]
          /\ \A u \in Thread : /\ state'[u] \in Sids(nfa(u[1]))
                               /\ to_enable'[u] \subseteq Sids(nfa(u[1]))
      <4>1. CASE job.run_cold_stage /\ tt[t] < tail[b] /\ Fire(t, s)
        BY <2>3, <3>2, <4>1
      <4>2. CASE UNCHANGED <<state, to_enable>>
        BY <1>0, <4>2 DEF TypeOK
      <4> QED
        BY <2>5, <4>1, <4>2 DEF ColdStage, b
    <3> QED
      BY <1>0, <1>1, <2>5, <3>0, <3>1, <3>3 DEF ColdStage, TypeOK, shared
  <2>6. CASE EnableHot(t)
    <3>1. PICK e \in WithCells(t) :
             /\ to_enable' = [to_enable EXCEPT ![t] = @ \ {e}]
             /\ is_active_state1' = [is_active_state1 EXCEPT ![t[1]] = @ \cup {e + BlockDim}]
      BY <2>6 DEF EnableHot
    <3>2. e \in Tid
      BY <2>0a, <3>1 DEF WithCells, b
    <3>3. is_active_state1' \in [Block -> SUBSET (0 .. 2 * BlockDim - 1)]
      BY <1>0, <2>0, <2>0b, <3>1, <3>2, SetChanged DEF TypeOK, Tid
    <3>4. /\ to_enable' \in [Thread -> SUBSET Nat]
          /\ \A u \in Thread : to_enable'[u] \subseteq Sids(nfa(u[1]))
      BY <1>0, <3>1 DEF TypeOK
    <3> QED
      BY <1>0, <1>1, <2>6, <3>3, <3>4 DEF EnableHot, TypeOK
  <2>7. CASE Dedup(t)
    <3>1. PICK e \in ToQueue(t) :
             /\ pc' = [pc EXCEPT ![t] = IF e \in Cold(nfa(b)) /\ e - nfa(b).hot \notin dedup_bs[b]
                                        THEN "push" ELSE Visited]
             /\ to_enable' = [to_enable EXCEPT ![t] = @ \ {e}]
             /\ slot' = [slot EXCEPT ![t] = <<e, 0>>]
             /\ dedup_bs' = IF e \in Cold(nfa(b)) /\ e - nfa(b).hot \notin dedup_bs[b]
                            THEN [dedup_bs EXCEPT ![b] = @ \cup {e - nfa(b).hot}] ELSE dedup_bs
      BY <2>7 DEF Dedup, Goto, b
    <3>2. e \in Sids(nfa(b)) /\ e \in Nat
      BY <1>0, <2>0a, <3>1 DEF ToQueue, b
    <3>3. /\ to_enable' \in [Thread -> SUBSET Nat]
          /\ \A u \in Thread : to_enable'[u] \subseteq Sids(nfa(u[1]))
      BY <1>0, <3>1 DEF TypeOK
    <3>4. /\ slot' \in [Thread -> Nat \X Nat]
          /\ \A u \in Thread : slot'[u][1] \in Sids(nfa(u[1]))
      BY <1>0, <3>1, <3>2 DEF TypeOK, b
    <3>5. pc' \in [Thread -> PCs]
      BY <1>0, <3>1 DEF TypeOK, PCs, Visited
    <3>6. nfa(b).hot \in Int
      BY <1>0, <2>0, BlockFacts
    <3>7. dedup_bs' \in [Block -> SUBSET Int]
      BY <1>0, <2>0, <3>1, <3>2, <3>6, SetChanged DEF TypeOK
    <3> QED
      BY <1>0, <1>1, <2>7, <3>3, <3>4, <3>5, <3>7 DEF Dedup, TypeOK
  <2>8. CASE Push(t)
    <3>1. /\ slot' \in [Thread -> Nat \X Nat]
          /\ \A u \in Thread : slot'[u][1] \in Sids(nfa(u[1]))
      BY <1>0, <2>0, <2>8 DEF TypeOK, Push
    <3>2. pc' \in [Thread -> PCs] /\ next_tail' \in [Block -> Nat]
      BY <1>0, <2>0, <2>8 DEF TypeOK, PCs, Push, Goto
    <3> QED
      BY <1>0, <1>1, <2>8, <3>1, <3>2 DEF Push, TypeOK
  <2>9. CASE Store(t)
    <3> DEFINE cell == next(b) + slot[t][2]
    <3>1. cell \in Nat
      BY <1>0, <2>0, BlockType, ThreadType
    <3>2. slot[t][1] \in Nat
      BY <1>0, ThreadType
    <3>3. pc' \in [Thread -> PCs]
      BY <1>0, <2>9 DEF TypeOK, PCs, Store, Goto, Visited
    <3>4. queue_cells' \in [Block -> [0 .. 2 * QueueSize - 1 -> Nat]]
      <4>1. \/ queue_cells' = queue_cells
            \/ queue_cells' = [queue_cells EXCEPT ![b][cell] = slot[t][1]] /\ cell - 2 * QueueSize < 0
        BY <2>9 DEF Store, b
      <4> HIDE DEF cell
      <4>2. cell - 2 * QueueSize < 0 => cell \in 0 .. 2 * QueueSize - 1
        BY <2>0b, <3>1
      <4>3. ASSUME cell \in 0 .. 2 * QueueSize - 1
            PROVE  [queue_cells[b] EXCEPT ![cell] = slot[t][1]] \in [0 .. 2 * QueueSize - 1 -> Nat]
        BY <1>0, <2>0, <3>2, <4>3, BlockType, Changed
      <4>4. queue_cells \in [Block -> [0 .. 2 * QueueSize - 1 -> Nat]]
        BY <1>0 DEF TypeOK
      <4>5. ASSUME cell \in 0 .. 2 * QueueSize - 1
            PROVE  [queue_cells EXCEPT ![b][cell] = slot[t][1]]
                     \in [Block -> [0 .. 2 * QueueSize - 1 -> Nat]]
        BY <2>0, <4>3, <4>4, <4>5, Changed
      <4> QED
        BY <4>1, <4>2, <4>4, <4>5
    <3>5. dedup_bs' \in [Block -> SUBSET Int]
      <4>1. PICK w : \/ dedup_bs' = dedup_bs
                     \/ /\ w \in 0 .. DedupWords - 1
                        /\ dedup_bs' = [dedup_bs EXCEPT ![b] = (@ \ Word(w)) \cup
                                { 32 * w + i : i \in BitsOf(slot[t][1]) }]
        BY <2>9 DEF Store, b
      <4>2. w \in 0 .. DedupWords - 1 => { 32 * w + i : i \in BitsOf(slot[t][1]) } \subseteq Int
        BY DEF BitsOf
      <4>3. (dedup_bs[b] \ Word(w)) \subseteq Int
        BY <1>0, <2>0, BlockType
      <4>4. dedup_bs \in [Block -> SUBSET Int]
        BY <1>0 DEF TypeOK
      <4>5. ASSUME NEW V, V \subseteq Int
            PROVE  [dedup_bs EXCEPT ![b] = (@ \ Word(w)) \cup V] \in [Block -> SUBSET Int]
        BY <2>0, <4>3, <4>4, <4>5, SetChanged
      <4> QED
        BY <4>1, <4>2, <4>4, <4>5
    <3> QED
      BY <1>0, <1>1, <2>9, <3>3, <3>4, <3>5 DEF Store, TypeOK
  <2>10. ASSUME NEW s \in Sids(nfa(b)), Reported(t, s)
         PROVE  reports' \subseteq Block \X Nat \X Nat /\ count' \in Nat /\ Told
    <3>1. \/ reports' = reports
          \/ reports' = reports \cup {<<b, symbol_pos[t], s>>}
      BY <2>10 DEF Reported, b
    <3>2. <<b, symbol_pos[t], s>> \in Block \X Nat \X Nat
      BY <1>0, <2>0, <2>0a DEF TypeOK
    <3>3. count' \in Nat
      BY <1>0, <2>10 DEF TypeOK, Reported
    <3> QED
      BY <1>0, <1>1, <3>1, <3>2, <3>3 DEF TypeOK
  <2>11. CASE ReportEntry(t)
    <3>1. reports' \subseteq Block \X Nat \X Nat /\ count' \in Nat /\ Told
      BY <1>0, <2>10, <2>11 DEF ReportEntry, TypeOK, b
    <3>2. pc' \in [Thread -> PCs]
      BY <1>0, <2>11 DEF ReportEntry, Goto, TypeOK, PCs
    <3> QED
      BY <1>0, <1>1, <2>11, <3>1, <3>2 DEF ReportEntry, TypeOK, shared
  <2>12. CASE Report(t)
    <3>1. reports' \subseteq Block \X Nat \X Nat /\ count' \in Nat /\ Told
      <4>1. CASE Reported(t, state[t])
        BY <1>0, <2>10, <4>1 DEF b
      <4>2. CASE UNCHANGED <<reports, count>>
        BY <1>0, <1>1, <4>2 DEF TypeOK
      <4> QED
        BY <2>12, <4>1, <4>2 DEF Report
    <3>2. pc' \in [Thread -> PCs]
      BY <1>0, <2>12 DEF Report, Goto, TypeOK, PCs
    <3>3. tt' \in [Thread -> Nat]
      BY <1>0, <2>0b, <2>12 DEF Report, TypeOK
    <3> QED
      BY <1>0, <1>1, <2>12, <3>1, <3>2, <3>3 DEF Report, TypeOK, shared
  <2>13. CASE CopyQueue(t)
    <3>1. pc' \in [Thread -> PCs]
      BY <1>0, <2>13 DEF CopyQueue, Goto, TypeOK, PCs
    <3>2. tt' \in [Thread -> Nat]
      <4>1. tt' = tt \/ tt' = [tt EXCEPT ![t] = @ + BlockDim]
        BY <2>13 DEF CopyQueue
      <4>2. tt \in [Thread -> Nat]
        BY <1>0 DEF TypeOK
      <4>3. [tt EXCEPT ![t] = @ + BlockDim] \in [Thread -> Nat]
        BY <2>0b, <4>2
      <4> QED
        BY <4>1, <4>2, <4>3
    <3>3. queue_cells' \in [Block -> [0 .. 2 * QueueSize - 1 -> Nat]]
      <4>1. CASE tt[t] < next_tail[b]
        <5>1. PhaseOf(b) = 3 /\ job.run_cold_stage
          BY <2>0, <2>13, PhaseFacts, ThreadFacts DEF CopyQueue, Phase, IInv, BlockInv, ThreadInv, b
        <5>2. pc[Lead(b)] \in Before /\ QueueSound(b)
          BY <2>0, <5>1 DEF PhaseOf, Phase, Before, IInv, BlockInv
        <5>3. tt[t] \in 0 .. QueueSize - 1
          BY <1>0, <2>0, <2>0b, <4>1, <5>2 DEF TypeOK, QueueSound, Size
        <5>4. next(b) + tt[t] \in 0 .. 2 * QueueSize - 1
          BY <1>0, <2>0, <5>3, BlockType
        <5>5. queue_cells[b][next(b) + tt[t]] \in Nat
          BY <1>0, <2>0, <5>4, BlockType
        <5>6. queue_cells' = [queue_cells EXCEPT ![b][current[b] + tt[t]] =
                                     queue_cells[b][next(b) + tt[t]]]
          BY <2>13, <4>1 DEF CopyQueue, b
        <5> QED
          BY <1>0, <5>5, <5>6 DEF TypeOK
      <4>2. CASE ~(tt[t] < next_tail[b])
        BY <1>0, <2>13, <4>2 DEF CopyQueue, TypeOK, b
      <4> QED
        BY <4>1, <4>2
    <3> QED
      BY <1>0, <1>1, <2>13, <3>1, <3>2, <3>3 DEF CopyQueue, TypeOK
  <2>14. CASE Update(t)
    <3>1. is_active_state1' \in [Block -> SUBSET (0 .. 2 * BlockDim - 1)]
      <4>1. ASSUME t[2] \in Hot(nfa(b)), NEW on \in BOOLEAN
            PROVE  Promoted(b, t[2], on) \subseteq 0 .. 2 * BlockDim - 1
        BY <1>0, <2>0, <2>0a, <2>0b, <4>1 DEF TypeOK, Promoted, Tid
      <4>2. \/ is_active_state1' = is_active_state1
            \/ /\ t[2] \in Hot(nfa(b))
               /\ \E on \in BOOLEAN :
                     is_active_state1' = [is_active_state1 EXCEPT ![b] = Promoted(b, t[2], on)]
        BY <2>14 DEF Update, b
      <4> HIDE DEF Promoted
      <4>3. ASSUME t[2] \in Hot(nfa(b)), NEW on \in BOOLEAN
            PROVE  [is_active_state1 EXCEPT ![b] = Promoted(b, t[2], on)]
                     \in [Block -> SUBSET (0 .. 2 * BlockDim - 1)]
        BY <1>0, <2>0, <4>1, <4>3, SetChanged DEF TypeOK
      <4> QED
        BY <1>0, <4>2, <4>3 DEF TypeOK
    <3>2. pc' \in [Thread -> PCs]
      BY <1>0, <2>14 DEF Update, Goto, TypeOK, PCs
    <3> QED
      BY <1>0, <1>1, <2>14, <3>1, <3>2 DEF Update, TypeOK
  <2> QED
    BY <1>2, <2>1, <2>2, <2>4, <2>5, <2>6, <2>7, <2>8, <2>9, <2>11, <2>12, <2>13, <2>14
       DEF ThreadStep
<1>3. ASSUME NEW b \in Block, NEW at, NEW to \in PCs, Barrier(b, at, to),
             symbol_pos' \in [Thread -> Nat]
      PROVE  TypeOK' /\ Told
  <2>1. pc' \in [Thread -> PCs]
    BY <1>0, <1>3 DEF Barrier, TypeOK
  <2> QED
    BY <1>0, <1>1, <1>3, <2>1 DEF Barrier, TypeOK, shared
<1>4. ASSUME NEW b \in Block, BlockStep(b)
      PROVE  TypeOK' /\ Told
  <2>1. \A k : LoopTest(b, k) \in PCs
    BY DEF LoopTest, PCs
  <2>2. ASSUME NEW at, EndSymbol(b, at)
        PROVE  TypeOK' /\ Told
    <3>1. symbol_pos' \in [Thread -> Nat]
      BY <1>0, <2>2 DEF EndSymbol, TypeOK
    <3> QED
      BY <1>3, <2>1, <2>2, <3>1 DEF EndSymbol
  <2>3. symbol_pos' = symbol_pos => symbol_pos' \in [Thread -> Nat]
    BY <1>0 DEF TypeOK
  <2>4. "hot" \in PCs /\ "copy" \in PCs /\ "update" \in PCs
    BY DEF PCs
  <2> QED
    BY <1>3, <1>4, <2>1, <2>2, <2>3, <2>4
       DEF BlockStep, Sync0, Sync1, Sync2, Sync2BeforeCopy, Sync2BeforeUpdate, Sync3
<1>5. CASE PrintReports
  <2>1. Lines \subseteq Nat \X Id
    <3>1. ASSUME NEW r \in reports PROVE r[2] \in Nat /\ nfa(r[1]).original_id[r[3]] \in Id
      <4>1. r[1] \in Block /\ r[2] \in Nat /\ r[3] \in Sids(nfa(r[1]))
        BY <1>0, <3>1 DEF TypeOK
      <4> QED
        BY <1>0, <4>1, BlockFacts
    <3> QED
      BY <3>1 DEF Lines
  <2> QED
    BY <1>0, <1>1, <1>5, <2>1 DEF PrintReports, TypeOK, shared
<1>6. CASE UNCHANGED vars
  BY <1>0, <1>1, <1>6 DEF vars, shared, TypeOK
<1> QED
  BY <1>2, <1>4, <1>5, <1>6 DEF Next, Terminated

-----------------------------------------------------------------------------
(* What a step leaves as it is.                                              *)

\* The next queue, if no cell, bit or thread of it changes.
LEMMA NextKept ==
    ASSUME job' = job, NEW b \in Block, NextSound(b),
           Claiming(b)' = Claiming(b), Queueing(b)' = Queueing(b),
           \A t \in Queueing(b) : slot'[t] = slot[t],
           next_tail'[b] = next_tail[b], current'[b] = current[b],
           queue_cells'[b] = queue_cells[b], dedup_bs'[b] = dedup_bs[b]
    PROVE  NextSound(b)' /\ (Kept(b) => Kept(b)')
<1>1. Claiming(b) \subseteq Queueing(b)
  BY DEF Claiming, Queueing
<1>2. Written(b)' = Written(b)
  BY <1>1 DEF Written
<1>3. \A i : queue_cells'[b][next(b)' + i] = Cell(b, i)
  BY DEF Cell, next
<1>4. \A i \in Written(b)' : i < QueueSize /\ Marked(b, Cell(b, i))'
  BY <1>2, <1>3 DEF NextSound, Marked, Cell, nfa
<1>5. \A i, j \in Written(b)' : Cell(b, i)' = Cell(b, j)' => i = j
  BY <1>2, <1>3 DEF NextSound, Cell
<1>6. /\ \A t \in Claiming(b)' : slot'[t][2] \in 0 .. next_tail'[b] - 1
      /\ \A t, u \in Claiming(b)' : slot'[t][2] = slot'[u][2] => t = u
  BY <1>1 DEF NextSound
<1>7. /\ \A t \in Queueing(b)' : Marked(b, slot[t][1])'
      /\ \A t, u \in Queueing(b)' : slot'[t][1] = slot'[u][1] => t = u
  BY DEF NextSound, Marked, nfa
<1>8. \A t \in Queueing(b)' : \A i \in Written(b)' : slot'[t][1] # Cell(b, i)'
  BY <1>2, <1>3 DEF NextSound, Cell
<1>9. Kept(b) => Kept(b)'
  <2>1. \A i : Cell(b, i)' = Cell(b, i)
    BY <1>3 DEF Cell
  <2>2. \A e : Marked(b, e)' = Marked(b, e)
    BY DEF Marked, nfa
  <2>3. \A t \in Queueing(b) : slot'[t][1] = slot[t][1]
    OBVIOUS
  <2> QED
    BY <1>2, <2>1, <2>2, <2>3 DEF Kept, nfa
<1> QED
  BY <1>4, <1>5, <1>6, <1>7, <1>8, <1>9 DEF NextSound

\* The queue to be run, if it is where it was.
LEMMA QueueKept ==
    ASSUME job' = job, NEW b \in Block, QueueSound(b),
           Base(b)' = Base(b), Size(b)' = Size(b),
           \A i \in 0 .. Size(b) - 1 : queue_cells'[b][Base(b) + i] = queue_cells[b][Base(b) + i]
    PROVE  QueueSound(b)'
BY DEF QueueSound, nfa

\* A block whose threads and memory a step does not touch.
LEMMA BlockKept ==
    ASSUME job' = job, NEW b \in Block, BlockInv(b),
           \A t \in ThreadsOf(b) : pc'[t] = pc[t] /\ slot'[t] = slot[t] /\ tt'[t] = tt[t],
           current'[b] = current[b], queue_cells'[b] = queue_cells[b],
           dedup_bs'[b] = dedup_bs[b], tail'[b] = tail[b], next_tail'[b] = next_tail[b]
    PROVE  BlockInv(b)'
<1>1. Lead(b) \in ThreadsOf(b) /\ <<b, 1>> \in ThreadsOf(b)
  BY ThreadFacts
<1>2. pc'[Lead(b)] = pc[Lead(b)] /\ pc'[<<b, 1>>] = pc[<<b, 1>>]
  BY <1>1
<1>3. PhaseOf(b)' = PhaseOf(b)
  BY <1>2 DEF PhaseOf
<1>4. Base(b)' = Base(b) /\ Size(b)' = Size(b)
  BY <1>2 DEF Base, Size, Moving, Table, next
<1>5. Lockstep(b)'
  BY <1>3 DEF BlockInv, Lockstep
<1>6. job.run_cold_stage /\ PhaseOf(b)' # 0 => QueueSound(b)'
  BY <1>3, <1>4, QueueKept DEF BlockInv
<1>7. PhaseOf(b)' = 2 => NextSound(b)'
  <2>1. Claiming(b)' = Claiming(b) /\ Queueing(b)' = Queueing(b)
    BY DEF Claiming, Queueing
  <2>2. \A t \in Queueing(b) : slot'[t] = slot[t]
    BY DEF Queueing
  <2> QED
    BY <1>3, <2>1, <2>2, NextKept DEF BlockInv
<1>8. \A t \in ThreadsOf(b) : ThreadInv(t)'
  <2>1. ASSUME NEW t \in ThreadsOf(b) PROVE ThreadInv(t)'
    <3>1. t[1] = b /\ ThreadInv(t)
      BY ThreadFacts DEF BlockInv
    <3>2. /\ pc'[t] = pc[t] /\ slot'[t] = slot[t] /\ tt'[t] = tt[t]
          /\ Table' = Table /\ ColdAfterHot' = ColdAfterHot
          /\ \A i : Cell(b, i)' = Cell(b, i)
      BY DEF Table, ColdAfterHot, Cell, next
    <3> HIDE DEF Table, ColdAfterHot, Cell
    <3> QED
      BY <3>1, <3>2 DEF ThreadInv
  <2> QED
    BY <2>1
<1> QED
  BY <1>2, <1>5, <1>6, <1>7, <1>8 DEF BlockInv

\* A thread's step touches its own registers and the memory of its block.
LEMMA Elsewhere ==
    ASSUME TypeOK, NEW t \in Thread, ThreadStep(t)
    PROVE  /\ \A u \in Thread : u # t => pc'[u] = pc[u] /\ slot'[u] = slot[u] /\ tt'[u] = tt[u]
           /\ \A c \in Block : c # t[1] =>
                 /\ current'[c] = current[c] /\ queue_cells'[c] = queue_cells[c]
                 /\ dedup_bs'[c] = dedup_bs[c] /\ tail'[c] = tail[c]
                 /\ next_tail'[c] = next_tail[c]
<1> DEFINE Registers == \A u \in Thread : u # t =>
                           pc'[u] = pc[u] /\ slot'[u] = slot[u] /\ tt'[u] = tt[u]
           Memory == \A c \in Block : c # t[1] =>
                        /\ current'[c] = current[c] /\ queue_cells'[c] = queue_cells[c]
                        /\ dedup_bs'[c] = dedup_bs[c] /\ tail'[c] = tail[c]
                        /\ next_tail'[c] = next_tail[c]
<1>0. /\ pc \in [Thread -> PCs] /\ slot \in [Thread -> Nat \X Nat] /\ tt \in [Thread -> Nat]
      /\ current \in [Block -> {0, QueueSize}] /\ tail \in [Block -> Nat] /\ next_tail \in [Block -> Nat]
      /\ queue_cells \in [Block -> [0 .. 2 * QueueSize - 1 -> Nat]]
      /\ dedup_bs \in [Block -> SUBSET Int]
  BY DEF TypeOK
<1>1. CASE Begin(t)
  BY <1>0, <1>1 DEF Begin, Goto
<1>2. CASE Prepare(t)
  BY <1>0, <1>2 DEF Prepare, Goto
<1>3. CASE HotStage(t)
  BY <1>0, <1>3 DEF HotStage, Goto, shared
<1>4. CASE ColdStage(t)
  BY <1>0, <1>4 DEF ColdStage, Goto, shared
<1>5. CASE EnableHot(t)
  BY <1>0, <1>5 DEF EnableHot
<1>6. CASE Dedup(t)
  BY <1>0, <1>6 DEF Dedup, Goto
<1>7. CASE Push(t)
  BY <1>0, <1>7 DEF Push, Goto
<1>8. CASE Store(t)
  BY <1>0, <1>8 DEF Store, Goto
<1>9. CASE ReportEntry(t)
  BY <1>0, <1>9 DEF ReportEntry, Goto, shared
<1>10. CASE Report(t)
  BY <1>0, <1>10 DEF Report, Goto, shared
<1>11. CASE CopyQueue(t)
  BY <1>0, <1>11 DEF CopyQueue, Goto
<1>12. CASE Update(t)
  BY <1>0, <1>12 DEF Update, Goto
<1> QED
  BY <1>1, <1>2, <1>3, <1>4, <1>5, <1>6, <1>7, <1>8, <1>9, <1>10, <1>11, <1>12 DEF ThreadStep

\* A thread's step between the barriers that enclose the stages, as far as the
\* next queue allows it.
LEMMA WorkStep ==
    ASSUME TypeOK, job' = job, NEW b \in Block, BlockInv(b), NEW t \in ThreadsOf(b), NEW p,
           Phase(pc[t]) = 2, Phase(p) = 2, pc' = [pc EXCEPT ![t] = p],
           p = "sync2" => tt'[t] = t[2],
           p = "trapped" => slot'[t][2] >= QueueSize,
           \A u \in ThreadsOf(b) : u # t => slot'[u] = slot[u] /\ tt'[u] = tt[u],
           current'[b] = current[b], tail'[b] = tail[b],
           \A i \in 0 .. QueueSize - 1 : queue_cells'[b][current[b] + i] = queue_cells[b][current[b] + i],
           NextSound(b)'
    PROVE  BlockInv(b)'
<1>1. /\ Lead(b) \in ThreadsOf(b) /\ <<b, 1>> \in ThreadsOf(b) /\ ThreadsOf(b) \subseteq Thread
      /\ \A u \in ThreadsOf(b) : u[1] = b
  BY ThreadFacts
<1>2. pc'[t] = p /\ \A u \in ThreadsOf(b) : u # t => pc'[u] = pc[u]
  BY <1>1 DEF TypeOK
<1>3. PhaseOf(b) = 2 /\ \A u \in ThreadsOf(b) : Phase(pc[u]) = 2 /\ Phase(pc'[u]) = 2
  BY <1>1, <1>2 DEF BlockInv, Lockstep
<1>4. PhaseOf(b)' = 2
  BY <1>1, <1>3 DEF PhaseOf
<1>5. Lockstep(b)'
  BY <1>3, <1>4 DEF Lockstep
<1>6. \A u \in ThreadsOf(b) : /\ pc[u] \notin Before /\ pc'[u] \notin Before
                              /\ pc'[u] \notin {"sync0", "sync1", "copy", "update", "sync3"}
                              /\ pc[u] \notin {"copy", "update", "sync3"}
  BY <1>3 DEF Phase, Before
<1>7. /\ Base(b) = current[b] /\ Base(b)' = current[b]
      /\ Size(b) = tail[b] /\ Size(b)' = tail[b]
  BY <1>1, <1>6 DEF Base, Size, Moving
<1>8. job.run_cold_stage => QueueSound(b)'
  <2>1. ASSUME QueueSound(b)
        PROVE  \A i \in 0 .. Size(b) - 1 : i \in 0 .. QueueSize - 1
    <3>1. tail[b] \in Nat /\ tail[b] <= QueueSize /\ QueueSize \in Nat
      BY <1>7, <2>1, BlockType DEF QueueSound
    <3> QED
      BY <1>7, <3>1
  <2> QED
    BY <1>3, <1>7, <2>1, QueueKept DEF BlockInv
<1>9. \A u \in ThreadsOf(b) : ThreadInv(u)'
  <2>1. ASSUME NEW u \in ThreadsOf(b) PROVE ThreadInv(u)'
    <3>1. ThreadInv(u) /\ u[1] = b
      BY <1>1 DEF BlockInv
    <3>2. pc'[u] # "copy" /\ pc'[u] # "update" /\ pc'[u] # "sync3" /\ Phase(pc'[u]) # 3
      BY <1>3, <1>6
    <3>3. /\ pc'[u] = "trapped" => slot'[u][2] >= QueueSize
          /\ pc'[u] = "sync2" => tt'[u] = u[2]
      BY <1>2, <3>1 DEF ThreadInv
    <3> QED
      BY <3>2, <3>3 DEF ThreadInv
  <2> QED
    BY <2>1
<1> QED
  BY <1>1, <1>4, <1>5, <1>6, <1>8, <1>9 DEF BlockInv

-----------------------------------------------------------------------------
(* The next queue.                                                           *)

\* A thread finds the bit of a state clear, and sets it.
LEMMA DedupSound ==
    ASSUME TypeOK, job' = job, NEW b \in Block, NextSound(b), NEW t \in ThreadsOf(b), pc[t] = "enable",
           NEW e \in Cold(nfa(b)), e - nfa(b).hot \notin dedup_bs[b],
           pc' = [pc EXCEPT ![t] = "push"], slot' = [slot EXCEPT ![t] = <<e, 0>>],
           dedup_bs' = [dedup_bs EXCEPT ![b] = @ \cup {e - nfa(b).hot}],
           next_tail'[b] = next_tail[b], current'[b] = current[b], queue_cells'[b] = queue_cells[b]
    PROVE  NextSound(b)' /\ (Kept(b) => Kept(b)')
<1>0. ThreadsOf(b) \subseteq Thread
  BY ThreadFacts
<1>1. /\ pc'[t] = "push" /\ \A u \in ThreadsOf(b) : u # t => pc'[u] = pc[u]
      /\ slot'[t][1] = e /\ \A u \in ThreadsOf(b) : u # t => slot'[u] = slot[u]
      /\ dedup_bs'[b] = dedup_bs[b] \cup {e - nfa(b).hot}
  BY <1>0 DEF TypeOK
<1>2. /\ Claiming(b)' = Claiming(b) /\ Queueing(b)' = Queueing(b) \cup {t}
      /\ t \notin Queueing(b) /\ Claiming(b) \subseteq Queueing(b) /\ Queueing(b) \subseteq ThreadsOf(b)
  BY <1>1 DEF Claiming, Queueing
<1>3. \A u \in Queueing(b) : slot'[u] = slot[u]
  BY <1>1, <1>2
<1>4. Written(b)' = Written(b) /\ \A i : queue_cells'[b][next(b)' + i] = Cell(b, i)
  BY <1>2, <1>3 DEF Written, Cell, next
<1>5. \A f : Marked(b, f) => f # e
  BY DEF Marked
<1>6. \A f : Marked(b, f) => f \in Cold(nfa(b)') /\ f - nfa(b)'.hot \in dedup_bs'[b]
  BY <1>1 DEF Marked, nfa
<1>7. e \in Cold(nfa(b)') /\ e - nfa(b)'.hot \in dedup_bs'[b]
  BY <1>1 DEF nfa
<1>8. \A i \in Written(b)' : i < QueueSize /\ Marked(b, Cell(b, i))'
  BY <1>4, <1>6 DEF NextSound, Marked, Cell
<1>9. \A i, j \in Written(b)' : Cell(b, i)' = Cell(b, j)' => i = j
  BY <1>4 DEF NextSound, Cell
<1>10. /\ \A u \in Claiming(b)' : slot'[u][2] \in 0 .. next_tail'[b] - 1
       /\ \A u, v \in Claiming(b)' : slot'[u][2] = slot'[v][2] => u = v
  BY <1>2, <1>3 DEF NextSound
<1>11. \A u \in Queueing(b)' : Marked(b, slot[u][1])'
  BY <1>1, <1>2, <1>3, <1>6, <1>7 DEF NextSound, Marked
<1>12. \A u, v \in Queueing(b)' : slot'[u][1] = slot'[v][1] => u = v
  BY <1>1, <1>2, <1>3, <1>5 DEF NextSound
<1>13. \A u \in Queueing(b)' : \A i \in Written(b)' : slot'[u][1] # Cell(b, i)'
  BY <1>1, <1>2, <1>3, <1>4, <1>5 DEF NextSound, Cell
<1>14. Kept(b) => Kept(b)'
  <2>1. \A i : Cell(b, i)' = Cell(b, i)
    BY <1>4 DEF Cell
  <2>2. \A f \in Cold(nfa(b)) : Marked(b, f)' => f = e \/ Marked(b, f)
    <3>1. ASSUME NEW f \in Cold(nfa(b)), Marked(b, f)', ~Marked(b, f)
          PROVE  f = e
      <4>1. f - nfa(b).hot = e - nfa(b).hot
        BY <1>1, <3>1 DEF Marked, nfa
      <4>2. f \in Int /\ e \in Int /\ nfa(b).hot \in Int
        BY BlockFacts
      <4> QED
        BY <4>1, <4>2
    <3> QED
      BY <3>1
  <2>3. slot'[t][1] = e /\ t \in Queueing(b)' /\ \A u \in Queueing(b) : slot'[u][1] = slot[u][1]
    BY <1>1, <1>2, <1>3
  <2> QED
    BY <1>2, <1>4, <2>1, <2>2, <2>3 DEF Kept, nfa
<1> QED
  BY <1>8, <1>9, <1>10, <1>11, <1>12, <1>13, <1>14 DEF NextSound

\* A thread takes a cell.
LEMMA PushSound ==
    ASSUME TypeOK, job' = job, NEW b \in Block, NextSound(b), NEW t \in ThreadsOf(b), pc[t] = "push",
           pc' = [pc EXCEPT ![t] = "store"], slot' = [slot EXCEPT ![t][2] = next_tail[b]],
           next_tail' = [next_tail EXCEPT ![b] = @ + 1],
           current'[b] = current[b], queue_cells'[b] = queue_cells[b], dedup_bs'[b] = dedup_bs[b]
    PROVE  NextSound(b)' /\ (Kept(b) => Kept(b)')
<1>0. ThreadsOf(b) \subseteq Thread /\ next_tail[b] \in Nat
  BY ThreadFacts, BlockType
<1>0a. slot[t] = <<slot[t][1], slot[t][2]>>
  BY <1>0, ThreadType
<1>0b. slot' = [slot EXCEPT ![t] = <<slot[t][1], next_tail[b]>>]
  <2>1. \A x, y, z : [<<x, y>> EXCEPT ![2] = z] = <<x, z>>
    OBVIOUS
  <2>2. [slot[t] EXCEPT ![2] = next_tail[b]] = <<slot[t][1], next_tail[b]>>
    BY <1>0a, <2>1
  <2> QED
    BY <2>2
<1>1. /\ pc'[t] = "store" /\ \A u \in ThreadsOf(b) : u # t => pc'[u] = pc[u]
      /\ slot'[t] = <<slot[t][1], next_tail[b]>>
      /\ \A u \in ThreadsOf(b) : u # t => slot'[u] = slot[u]
      /\ next_tail'[b] = next_tail[b] + 1
  BY <1>0, <1>0b DEF TypeOK
<1>2. /\ Claiming(b)' = Claiming(b) \cup {t} /\ Queueing(b)' = Queueing(b)
      /\ t \notin Claiming(b) /\ t \in Queueing(b)
      /\ Claiming(b) \subseteq Queueing(b) /\ Queueing(b) \subseteq ThreadsOf(b)
  BY <1>1 DEF Claiming, Queueing
<1>3. /\ \A u \in Claiming(b) : slot'[u] = slot[u]
      /\ \A u \in Queueing(b) : slot'[u][1] = slot[u][1]
  BY <1>1, <1>2
<1>4. \A u \in Claiming(b) : slot[u][2] \in 0 .. next_tail[b] - 1
  BY DEF NextSound
<1>5. Written(b)' = Written(b)
  <2>1. Written(b)' = { i \in 0 .. next_tail[b] : \A u \in Claiming(b) \cup {t} : slot'[u][2] # i }
    BY <1>0, <1>1, <1>2 DEF Written
  <2>2. \A i \in 0 .. next_tail[b] : i # next_tail[b] => i \in 0 .. next_tail[b] - 1
    BY <1>0
  <2>3. 0 .. next_tail[b] - 1 \subseteq 0 .. next_tail[b] /\ next_tail[b] \notin 0 .. next_tail[b] - 1
    BY <1>0
  <2> QED
    BY <1>1, <1>3, <2>1, <2>2, <2>3 DEF Written
<1>6. \A i : queue_cells'[b][next(b)' + i] = Cell(b, i)
  BY DEF Cell, next
<1>7. \A i \in Written(b)' : i < QueueSize /\ Marked(b, Cell(b, i))'
  BY <1>5, <1>6 DEF NextSound, Marked, Cell, nfa
<1>8. \A i, j \in Written(b)' : Cell(b, i)' = Cell(b, j)' => i = j
  BY <1>5, <1>6 DEF NextSound, Cell
<1>9. \A u \in Claiming(b)' : slot'[u][2] \in 0 .. next_tail'[b] - 1
  BY <1>0, <1>1, <1>2, <1>3, <1>4
<1>10. \A u, v \in Claiming(b)' : slot'[u][2] = slot'[v][2] => u = v
  <2>1. \A u \in Claiming(b) : slot[u][2] # next_tail[b]
    BY <1>0, <1>4
  <2> QED
    BY <1>1, <1>2, <1>3, <2>1 DEF NextSound
<1>11. /\ \A u \in Queueing(b)' : Marked(b, slot[u][1])'
       /\ \A u, v \in Queueing(b)' : slot'[u][1] = slot'[v][1] => u = v
  BY <1>2, <1>3 DEF NextSound, Marked, nfa
<1>12. \A u \in Queueing(b)' : \A i \in Written(b)' : slot'[u][1] # Cell(b, i)'
  BY <1>2, <1>3, <1>5, <1>6 DEF NextSound, Cell
<1>13. Kept(b) => Kept(b)'
  <2>1. \A i : Cell(b, i)' = Cell(b, i)
    BY <1>6 DEF Cell
  <2>2. \A e : Marked(b, e)' = Marked(b, e)
    BY DEF Marked, nfa
  <2> QED
    BY <1>2, <1>3, <1>5, <2>1, <2>2 DEF Kept, nfa
<1> QED
  BY <1>7, <1>8, <1>9, <1>10, <1>11, <1>12, <1>13 DEF NextSound

\* It stores the state there.
LEMMA StoreSound ==
    ASSUME TypeOK, job' = job, NEW b \in Block, NextSound(b), NEW t \in ThreadsOf(b), pc[t] = "store",
           NEW p \in {"enable", "entry"}, slot[t][2] < QueueSize,
           pc' = [pc EXCEPT ![t] = p], slot' = slot,
           queue_cells' = [queue_cells EXCEPT ![b][next(b) + slot[t][2]] = slot[t][1]],
           next_tail'[b] = next_tail[b], current'[b] = current[b], dedup_bs'[b] = dedup_bs[b]
    PROVE  NextSound(b)' /\ (Kept(b) => Kept(b)')
<1> DEFINE k == slot[t][2]
<1>0. ThreadsOf(b) \subseteq Thread /\ next_tail[b] \in Nat
  BY ThreadFacts, BlockType
<1>1. /\ pc'[t] = p /\ \A u \in ThreadsOf(b) : u # t => pc'[u] = pc[u]
  BY <1>0 DEF TypeOK
<1>2. /\ Claiming(b)' = Claiming(b) \ {t} /\ Queueing(b)' = Queueing(b) \ {t}
      /\ t \in Claiming(b) /\ t \in Queueing(b)
      /\ Claiming(b) \subseteq Queueing(b) /\ Queueing(b) \subseteq ThreadsOf(b)
  BY <1>1 DEF Claiming, Queueing
<1>3. k \in 0 .. next_tail[b] - 1 /\ k \notin Written(b) /\ k \in Nat
  BY <1>0, <1>2 DEF NextSound, Written
<1>4. Written(b)' = Written(b) \cup {k}
  BY <1>2, <1>3 DEF Written, NextSound
<1>5. /\ queue_cells'[b][next(b) + k] = slot[t][1]
      /\ \A i \in Written(b) : queue_cells'[b][next(b) + i] = Cell(b, i)
  <2>1. next(b) \in {0, QueueSize} /\ QueueSize \in Nat
    BY BlockType
  <2>2. next(b) + k \in 0 .. 2 * QueueSize - 1
    BY <1>3, <2>1
  <2>3. ASSUME NEW i \in Written(b)
        PROVE  next(b) + i \in 0 .. 2 * QueueSize - 1 /\ next(b) + i # next(b) + k
    <3>1. i \in Nat /\ i < QueueSize /\ i # k
      BY <1>0, <1>3, <2>3 DEF NextSound, Written
    <3> QED
      BY <1>3, <2>1, <3>1
  <2>4. queue_cells'[b] = [queue_cells[b] EXCEPT ![next(b) + k] = slot[t][1]]
    BY DEF TypeOK
  <2>5. queue_cells[b] \in [0 .. 2 * QueueSize - 1 -> Nat]
    BY BlockType
  <2>6. queue_cells'[b][next(b) + k] = slot[t][1]
    <3> HIDE DEF k
    <3> DEFINE x == next(b) + k
    <3>1. /\ x \in 0 .. 2 * QueueSize - 1
          /\ queue_cells'[b] = [queue_cells[b] EXCEPT ![x] = slot[t][1]]
      BY <2>2, <2>4
    <3> HIDE DEF x
    <3>2. [queue_cells[b] EXCEPT ![x] = slot[t][1]][x] = slot[t][1]
      BY <2>5, <3>1, ChangedThere
    <3>3. queue_cells'[b][x] = slot[t][1]
      BY <3>1, <3>2
    <3> QED
      BY <3>3 DEF x
  <2>7. \A i \in Written(b) : queue_cells'[b][next(b) + i] = queue_cells[b][next(b) + i]
    <3> HIDE DEF k
    <3> QED
      BY <2>3, <2>4, <2>5
  <2> QED
    BY <2>6, <2>7 DEF Cell
<1>6. next(b)' = next(b)
  BY DEF next
<1>7. Marked(b, slot[t][1]) /\ \A i \in Written(b) : i < QueueSize /\ Marked(b, Cell(b, i))
  BY <1>2 DEF NextSound
<1>8. \A f : Marked(b, f) => f \in Cold(nfa(b)') /\ f - nfa(b)'.hot \in dedup_bs'[b]
  BY DEF Marked, nfa
<1>9. \A i \in Written(b)' : i < QueueSize /\ Marked(b, Cell(b, i))'
  BY <1>4, <1>5, <1>6, <1>7, <1>8 DEF Marked, Cell
<1>10. \A i, j \in Written(b)' : Cell(b, i)' = Cell(b, j)' => i = j
  BY <1>2, <1>4, <1>5, <1>6 DEF NextSound, Cell
<1>11. /\ \A u \in Claiming(b)' : slot'[u][2] \in 0 .. next_tail'[b] - 1
       /\ \A u, v \in Claiming(b)' : slot'[u][2] = slot'[v][2] => u = v
  BY <1>2 DEF NextSound
<1>12. /\ \A u \in Queueing(b)' : Marked(b, slot[u][1])'
       /\ \A u, v \in Queueing(b)' : slot'[u][1] = slot'[v][1] => u = v
  BY <1>2, <1>8 DEF NextSound, Marked
<1>13. \A u \in Queueing(b)' : \A i \in Written(b)' : slot'[u][1] # Cell(b, i)'
  BY <1>2, <1>4, <1>5, <1>6 DEF NextSound, Cell
<1>14. Kept(b) => Kept(b)'
  <2>1. /\ \A i : i = k => Cell(b, i)' = slot[t][1]
        /\ \A i \in Written(b) : Cell(b, i)' = Cell(b, i)
    BY <1>5, <1>6 DEF Cell
  <2>2. \A e : Marked(b, e)' = Marked(b, e)
    BY DEF Marked, nfa
  <2>3. \A u \in Queueing(b) : u = t \/ (u \in Queueing(b)' /\ slot'[u][1] = slot[u][1])
    BY <1>2
  <2>4. Written(b)' = Written(b) \cup {k}
    BY <1>4
  <2> HIDE DEF k
  <2>5. ASSUME Kept(b), NEW e \in Cold(nfa(b)), Marked(b, e)
        PROVE  \/ \E i \in Written(b)' : Cell(b, i)' = e
               \/ \E u \in Queueing(b)' : slot'[u][1] = e
    <3>1. CASE \E i \in Written(b) : Cell(b, i) = e
      BY <2>1, <2>4, <3>1
    <3>2. CASE \E u \in Queueing(b) : slot[u][1] = e
      <4>1. PICK u \in Queueing(b) : slot[u][1] = e
        BY <3>2
      <4>2. u = t => \E i \in Written(b)' : Cell(b, i)' = e
        BY <2>1, <2>4, <4>1
      <4>3. u # t => u \in Queueing(b)' /\ slot'[u][1] = e
        BY <2>3, <4>1
      <4> QED
        BY <4>2, <4>3
    <3> QED
      BY <2>5, <3>1, <3>2 DEF Kept
  <2> QED
    BY <2>2, <2>5 DEF Kept, nfa
<1> QED
  BY <1>9, <1>10, <1>11, <1>12, <1>13, <1>14 DEF NextSound

\* A claimed cell is one of the queue, if there is a cell for each cold state.
LEMMA SlotFits ==
    ASSUME TypeOK, NEW b \in Block, NextSound(b), Fits(b), NEW t \in Claiming(b)
    PROVE  slot[t][2] < QueueSize
<1> DEFINE S == 0 .. next_tail[b] - 1
           holder(i) == CHOOSE u \in Claiming(b) : slot[u][2] = i
           f == [i \in S |-> IF i \in Written(b) THEN Cell(b, i) ELSE slot[holder(i)][1]]
<1>0. Claiming(b) \subseteq Queueing(b)
  BY DEF Claiming, Queueing
<1>1. next_tail[b] \in Nat /\ QueueSize \in Nat /\ Cold(nfa(b)) \subseteq Sids(nfa(b))
  BY BlockType, BlockFacts
<1>2. \A i \in S : i \notin Written(b) => holder(i) \in Claiming(b) /\ slot[holder(i)][2] = i
  <2>1. \A i \in S : i \notin Written(b) => \E u \in Claiming(b) : slot[u][2] = i
    BY DEF Written
  <2> QED
    BY <2>1
<1> HIDE DEF holder
<1>3. f \in Injection(S, Cold(nfa(b)))
  <2>1. f \in [S -> Cold(nfa(b))]
    BY <1>0, <1>2 DEF NextSound, Marked
  <2>2. \A i, j \in S : f[i] = f[j] => i = j
    BY <1>0, <1>2 DEF NextSound
  <2> QED
    BY <2>1, <2>2 DEF Injection, IsInjective
<1>4. IsFiniteSet(Cold(nfa(b)))
  <2>1. nfa(b).size - 1 \in Int
    BY BlockFacts
  <2>2. IsFiniteSet(Sids(nfa(b)))
    BY <2>1, FS_Interval DEF Sids
  <2> QED
    BY <1>1, <2>2, FS_Subset
<1> HIDE DEF f
<1>5. Cardinality(S) <= Cardinality(Cold(nfa(b)))
  BY <1>3, <1>4, FS_Injection
<1>6. Cardinality(S) = next_tail[b]
  BY <1>1, FS_Interval
<1>7. Cardinality(Cold(nfa(b))) \in Nat
  BY <1>4, FS_CardinalityType
<1>8. slot[t][2] \in S
  BY DEF NextSound
<1> QED
  BY <1>1, <1>5, <1>6, <1>7, <1>8 DEF Fits

-----------------------------------------------------------------------------
(* The steps of the threads.                                                 *)

\* The cells of the queue being run are left alone.
SameQueue(b) ==
    /\ current'[b] = current[b] /\ tail'[b] = tail[b]
    /\ \A i \in 0 .. QueueSize - 1 :
          queue_cells'[b][current[b] + i] = queue_cells[b][current[b] + i]

\* A step of the stages.
LEMMA StagesKeep ==
    ASSUME AllRoomy, IInv, job' = job, NEW t \in Thread,
           \/ HotStage(t) \/ ColdStage(t) \/ EnableHot(t) \/ Dedup(t) \/ Push(t) \/ Store(t)
           \/ ReportEntry(t) \/ Report(t)
    PROVE  /\ BlockInv(t[1])'
           /\ Kept(t[1]) => Kept(t[1])'
           /\ SameQueue(t[1])
           /\ Store(t) => dedup_bs' = dedup_bs
<1> DEFINE b == t[1]
<1>0. /\ TypeOK /\ b \in Block /\ t \in ThreadsOf(b) /\ BlockInv(b) /\ t[1] = b
      /\ ThreadsOf(b) \subseteq Thread /\ Roomy(b)
  BY ThreadFacts DEF IInv, AllRoomy
<1>1. pc[t] \in {"hot", "cold", "enable", "push", "store", "entry"}
  BY DEF HotStage, ColdStage, EnableHot, Dedup, Push, Store, ReportEntry, Report, Goto
<1>2. Phase(pc[t]) = 2 /\ Phase(pc[Lead(b)]) = 2
  BY <1>0, <1>1 DEF Phase, BlockInv, Lockstep, PhaseOf
<1>3. NextSound(b)
  BY <1>0, <1>2 DEF BlockInv, PhaseOf
<1>4. /\ \A u \in ThreadsOf(b) : u # t => pc'[u] = pc[u] /\ slot'[u] = slot[u] /\ tt'[u] = tt[u]
  BY <1>0, Elsewhere DEF ThreadStep
<1>5. Visited \in {"enable", "entry"}
  BY DEF Visited
<1> DEFINE Keeps == /\ BlockInv(b)' /\ (Kept(b) => Kept(b)') /\ SameQueue(b)
                    /\ (Store(t) => dedup_bs' = dedup_bs)
<1> SUFFICES Keeps
  OBVIOUS
<1> HIDE DEF b
\* The next queue and its threads stay as they are.
<1>6. ASSUME NEW p, pc' = [pc EXCEPT ![t] = p], p \notin {"push", "store", "trapped"},
             pc[t] \notin {"push", "store"}, Phase(p) = 2, p = "sync2" => tt'[t] = t[2],
             current' = current, tail' = tail, next_tail' = next_tail,
             queue_cells' = queue_cells, dedup_bs' = dedup_bs
      PROVE  Keeps
  <2>1. pc'[t] = p
    BY <1>0, <1>6 DEF TypeOK
  <2>2. Claiming(b)' = Claiming(b) /\ Queueing(b)' = Queueing(b)
    BY <1>1, <1>4, <1>6, <2>1 DEF Claiming, Queueing
  <2>3. \A u \in Queueing(b) : slot'[u] = slot[u]
    BY <1>1, <1>4, <1>6 DEF Queueing
  <2>4. NextSound(b)' /\ (Kept(b) => Kept(b)')
    BY <1>0, <1>3, <1>6, <2>2, <2>3, NextKept
  <2>5. BlockInv(b)'
    BY <1>0, <1>2, <1>4, <1>6, <2>4, WorkStep
  <2> QED
    BY <1>6, <2>4, <2>5 DEF SameQueue
<1>7. CASE HotStage(t)
  <2>1. \E p \in {"enable", "cold"} : pc' = [pc EXCEPT ![t] = p]
    BY <1>7 DEF HotStage, Goto
  <2>2. Phase("enable") = 2 /\ Phase("cold") = 2
    BY DEF Phase
  <2>3. /\ current' = current /\ tail' = tail /\ next_tail' = next_tail
        /\ queue_cells' = queue_cells /\ dedup_bs' = dedup_bs /\ pc[t] = "hot"
    BY <1>7 DEF HotStage, Goto, shared
  <2> QED
    BY <1>6, <2>1, <2>2, <2>3
<1>8. CASE ColdStage(t)
  <2>1. \E p \in {"enable", "cold", "sync2"} : pc' = [pc EXCEPT ![t] = p] /\ (p = "sync2" => tt'[t] = t[2])
    <3>1. CASE job.run_cold_stage /\ tt[t] < tail[b]
      <4>1. pc' = [pc EXCEPT ![t] = "enable"] \/ pc' = pc
        BY <1>0, <1>8, <3>1 DEF ColdStage, Goto
      <4>2. pc = [pc EXCEPT ![t] = "cold"]
        BY <1>0, <1>8 DEF ColdStage, TypeOK
      <4> QED
        BY <4>1, <4>2
    <3>2. CASE ~(job.run_cold_stage /\ tt[t] < tail[b])
      <4>1. pc' = [pc EXCEPT ![t] = "sync2"] /\ tt' = [tt EXCEPT ![t] = t[2]]
        BY <1>0, <1>8, <3>2 DEF ColdStage, Goto
      <4> QED
        BY <1>0, <4>1 DEF TypeOK
    <3> QED
      BY <3>1, <3>2
  <2>2. Phase("enable") = 2 /\ Phase("cold") = 2 /\ Phase("sync2") = 2
    BY DEF Phase
  <2>3. /\ current' = current /\ tail' = tail /\ next_tail' = next_tail
        /\ queue_cells' = queue_cells /\ dedup_bs' = dedup_bs /\ pc[t] = "cold"
    BY <1>8 DEF ColdStage, shared
  <2> QED
    BY <1>6, <2>1, <2>2, <2>3
<1>9. CASE EnableHot(t)
  <2>1. pc' = [pc EXCEPT ![t] = "enable"]
    BY <1>0, <1>9 DEF EnableHot, TypeOK
  <2>2. Phase("enable") = 2
    BY DEF Phase
  <2>3. /\ current' = current /\ tail' = tail /\ next_tail' = next_tail
        /\ queue_cells' = queue_cells /\ dedup_bs' = dedup_bs /\ pc[t] = "enable"
    BY <1>9 DEF EnableHot
  <2> QED
    BY <1>6, <2>1, <2>2, <2>3
<1>10. CASE Dedup(t)
  <2>1. PICK e \in ToQueue(t) :
           /\ pc' = [pc EXCEPT ![t] = IF e \in Cold(nfa(b)) /\ e - nfa(b).hot \notin dedup_bs[b]
                                      THEN "push" ELSE Visited]
           /\ slot' = [slot EXCEPT ![t] = <<e, 0>>]
           /\ dedup_bs' = IF e \in Cold(nfa(b)) /\ e - nfa(b).hot \notin dedup_bs[b]
                          THEN [dedup_bs EXCEPT ![b] = @ \cup {e - nfa(b).hot}] ELSE dedup_bs
    BY <1>10 DEF Dedup, Goto, b
  <2>2. /\ current' = current /\ tail' = tail /\ next_tail' = next_tail
        /\ queue_cells' = queue_cells /\ pc[t] = "enable"
    BY <1>10 DEF Dedup, Goto
  <2>3. CASE e \in Cold(nfa(b)) /\ e - nfa(b).hot \notin dedup_bs[b]
    <3>1. pc' = [pc EXCEPT ![t] = "push"] /\ dedup_bs' = [dedup_bs EXCEPT ![b] = @ \cup {e - nfa(b).hot}]
      BY <2>1, <2>3
    <3>2. NextSound(b)' /\ (Kept(b) => Kept(b)')
      BY <1>0, <1>3, <2>1, <2>2, <2>3, <3>1, DedupSound
    <3>3. Phase("push") = 2
      BY DEF Phase
    <3>4. BlockInv(b)'
      BY <1>0, <1>2, <1>4, <2>2, <3>1, <3>2, <3>3, WorkStep
    <3>5. ~Store(t)
      BY <2>2 DEF Store, Goto
    <3> QED
      BY <2>2, <3>2, <3>4, <3>5 DEF SameQueue
  <2>4. CASE ~(e \in Cold(nfa(b)) /\ e - nfa(b).hot \notin dedup_bs[b])
    <3>1. pc' = [pc EXCEPT ![t] = Visited] /\ dedup_bs' = dedup_bs
      BY <2>1, <2>4
    <3>2. Phase(Visited) = 2
      BY <1>5 DEF Phase
    <3> QED
      BY <1>5, <1>6, <2>2, <3>1, <3>2
  <2> QED
    BY <2>3, <2>4
<1>11. CASE Push(t)
  <2>1. /\ pc[t] = "push" /\ pc' = [pc EXCEPT ![t] = "store"]
        /\ slot' = [slot EXCEPT ![t][2] = next_tail[b]] /\ next_tail' = [next_tail EXCEPT ![b] = @ + 1]
        /\ current' = current /\ tail' = tail /\ queue_cells' = queue_cells /\ dedup_bs' = dedup_bs
    BY <1>11 DEF Push, Goto, b
  <2>2. NextSound(b)' /\ (Kept(b) => Kept(b)')
    BY <1>0, <1>3, <2>1, PushSound
  <2>3. Phase("store") = 2
    BY DEF Phase
  <2>4. BlockInv(b)'
    BY <1>0, <1>2, <1>4, <2>1, <2>2, <2>3, WorkStep
  <2> QED
    BY <2>1, <2>2, <2>4 DEF SameQueue
<1>12. CASE Store(t)
  <2> DEFINE k == slot[t][2]
             asserted == job.kernel = "enable" \/ k < QueueSize
  <2>1. /\ pc[t] = "store" /\ pc' = [pc EXCEPT ![t] = IF asserted THEN Visited ELSE "trapped"]
        /\ slot' = slot /\ current' = current /\ tail' = tail /\ next_tail' = next_tail
    BY <1>12 DEF Store, Goto
  <2>2. k \in Nat /\ next(b) \in {0, QueueSize} /\ QueueSize \in Nat /\ current[b] \in {0, QueueSize}
        /\ next(b) + current[b] = QueueSize
    BY <1>0, BlockType, ThreadType
  <2> DEFINE word == (next(b) + k) - 2 * QueueSize
  <2>2a. /\ queue_cells' = IF word < 0 /\ asserted
                           THEN [queue_cells EXCEPT ![b][next(b) + k] = slot[t][1]]
                           ELSE queue_cells
         /\ word \notin 0 .. DedupWords - 1 => dedup_bs' = dedup_bs
    BY <1>12 DEF Store, b
  <2>2b. k < QueueSize => word < 0 /\ word \notin 0 .. DedupWords - 1
    BY <2>2
  <2>2c. ~asserted => queue_cells' = queue_cells /\ dedup_bs' = dedup_bs
    BY <1>12 DEF Store
  <2>3. t \in Claiming(b)
    BY <1>0, <2>1 DEF Claiming
  <2>4. asserted => k < QueueSize
    BY <1>0, <1>3, <2>3, SlotFits DEF Roomy
  <2>4a. slot' = slot /\ current' = current /\ tail' = tail /\ next_tail' = next_tail
    BY <2>1
  <2>5. CASE asserted
    <3>1. k < QueueSize
      BY <2>4, <2>5
    <3>2. /\ pc' = [pc EXCEPT ![t] = Visited] /\ dedup_bs' = dedup_bs
          /\ queue_cells' = [queue_cells EXCEPT ![b][next(b) + k] = slot[t][1]]
      BY <2>1, <2>2a, <2>2b, <2>5, <3>1
    <3>3. NextSound(b)' /\ (Kept(b) => Kept(b)')
      BY <1>0, <1>3, <1>5, <2>1, <3>1, <3>2, StoreSound
    <3>4. Phase(Visited) = 2 /\ Visited # "sync2" /\ Visited # "trapped"
      BY <1>5 DEF Phase
    <3>5. \A i \in 0 .. QueueSize - 1 : queue_cells'[b][current[b] + i] = queue_cells[b][current[b] + i]
      <4>1. \A i \in 0 .. QueueSize - 1 : current[b] + i # next(b) + k /\ current[b] + i \in 0 .. 2 * QueueSize - 1
        BY <2>2, <3>1
      <4>2. queue_cells'[b] = [queue_cells[b] EXCEPT ![next(b) + k] = slot[t][1]]
        BY <1>0, <3>2 DEF TypeOK
      <4>3. queue_cells[b] \in [0 .. 2 * QueueSize - 1 -> Nat]
        BY <1>0, BlockType
      <4> HIDE DEF k
      <4> QED
        BY <4>1, <4>2, <4>3
    <3>6. BlockInv(b)'
      BY <1>0, <1>2, <1>4, <2>4a, <3>2, <3>3, <3>4, <3>5, WorkStep
    <3> QED
      BY <2>4a, <3>2, <3>3, <3>5, <3>6 DEF SameQueue
  <2>6. CASE ~asserted
    <3>1. /\ pc' = [pc EXCEPT ![t] = "trapped"] /\ dedup_bs' = dedup_bs /\ queue_cells' = queue_cells
      BY <2>1, <2>2c, <2>6
    <3>2. slot'[t][2] >= QueueSize
      BY <2>1, <2>2, <2>6
    <3>3. pc'[t] = "trapped"
      BY <1>0, <3>1 DEF TypeOK
    <3>4. Claiming(b)' = Claiming(b) /\ Queueing(b)' = Queueing(b)
      BY <1>4, <2>1, <3>3 DEF Claiming, Queueing
    <3>5. NextSound(b)' /\ (Kept(b) => Kept(b)')
      BY <1>0, <1>3, <2>1, <3>1, <3>4, NextKept
    <3>6. Phase("trapped") = 2
      BY DEF Phase
    <3>7. /\ \A i \in 0 .. QueueSize - 1 :
                queue_cells'[b][current[b] + i] = queue_cells[b][current[b] + i]
          /\ "trapped" # "sync2"
      BY <3>1
    <3> HIDE DEF k, asserted
    <3>8. BlockInv(b)'
      BY <1>0, <1>2, <1>4, <2>4a, <3>1, <3>2, <3>5, <3>6, <3>7, WorkStep
    <3> QED
      BY <2>4a, <3>1, <3>5, <3>7, <3>8 DEF SameQueue
  <2> QED
    BY <2>5, <2>6
<1>13. CASE ReportEntry(t)
  <2>1. Phase("enable") = 2
    BY DEF Phase
  <2> QED
    BY <1>6, <1>13, <2>1 DEF ReportEntry, Goto, shared
<1>14. CASE Report(t)
  <2>1. Phase("cold") = 2
    BY DEF Phase
  <2> QED
    BY <1>6, <1>14, <2>1 DEF Report, Goto, shared
<1> QED
  BY <1>7, <1>8, <1>9, <1>10, <1>11, <1>12, <1>13, <1>14 DEF b

\* Setting the tails keeps the invariant of the block.
LEMMA BeginKeeps ==
    ASSUME IInv, job' = job, NEW t \in Thread, Begin(t)
    PROVE  BlockInv(t[1])'
<1> DEFINE b == t[1]
<1>0. /\ TypeOK /\ b \in Block /\ t \in ThreadsOf(b) /\ BlockInv(b) /\ t = <<b, t[2]>>
      /\ ThreadsOf(b) \subseteq Thread /\ Lead(b) \in ThreadsOf(b)
  BY ThreadFacts DEF IInv
<1>1. pc[t] = "init" /\ pc'[t] = "sync0"
  BY <1>0 DEF Begin, Goto, TypeOK
<1>2. \A u \in ThreadsOf(b) : u # t => pc'[u] = pc[u]
  BY <1>0, Elsewhere DEF ThreadStep
<1>3. \A u \in ThreadsOf(b) : pc[u] \in {"init", "sync0"} /\ pc'[u] \in {"init", "sync0"}
  <2>1. \A u \in ThreadsOf(b) : Phase(pc[u]) = 0
    BY <1>0, <1>1 DEF BlockInv, Lockstep, Phase
  <2>2. \A u \in ThreadsOf(b) : pc[u] \in {"init", "sync0"}
    BY <2>1 DEF Phase
  <2> QED
    BY <1>1, <1>2, <2>2
<1>4. Lockstep(b)' /\ PhaseOf(b)' = 0
  BY <1>0, <1>3 DEF Lockstep, PhaseOf, Phase
<1>5. pc'[Lead(b)] \in {"sync0", "sync1"} => next_tail'[b] = 0
  <2>1. CASE t = Lead(b)
    <3>1. t[2] = 0
      BY <2>1 DEF Lead
    <3> QED
      BY <1>0, <3>1 DEF Begin, TypeOK
  <2>2. CASE t # Lead(b)
    <3>1. pc'[Lead(b)] = pc[Lead(b)]
      BY <1>0, <1>2, <2>2
    <3>2. next_tail'[b] = next_tail[b] \/ next_tail'[b] = 0
      BY <1>0 DEF Begin, TypeOK
    <3> QED
      BY <1>0, <3>1, <3>2 DEF BlockInv
  <2> QED
    BY <2>1, <2>2
<1>6. \A u \in ThreadsOf(b) : ThreadInv(u)'
  BY <1>3 DEF ThreadInv, Phase
<1> QED
  BY <1>4, <1>5, <1>6 DEF BlockInv

\* Swapping, moving the tail and clearing keep the invariant of the block.
LEMMA PrepareKeeps ==
    ASSUME IInv, job' = job, NEW t \in Thread, Prepare(t)
    PROVE  BlockInv(t[1])'
<1> DEFINE b == t[1]
<1>0. /\ TypeOK /\ b \in Block /\ t \in ThreadsOf(b) /\ BlockInv(b) /\ t = <<b, t[2]>>
      /\ ThreadsOf(b) \subseteq Thread /\ Lead(b) \in ThreadsOf(b) /\ <<b, 1>> \in ThreadsOf(b)
      /\ Lead(b) # <<b, 1>> /\ Lead(b)[2] = 0 /\ <<b, 1>>[2] = 1
  BY ThreadFacts DEF IInv, Lead
<1>1. pc[t] = "prepare" /\ pc'[t] = "sync1"
  BY <1>0 DEF Prepare, Goto, TypeOK
<1>2. \A u \in ThreadsOf(b) : u # t => pc'[u] = pc[u]
  BY <1>0, Elsewhere DEF ThreadStep
<1>3. \A u \in ThreadsOf(b) : pc[u] \in {"prepare", "sync1"} /\ pc'[u] \in {"prepare", "sync1"}
  <2>1. \A u \in ThreadsOf(b) : Phase(pc[u]) = 1
    BY <1>0, <1>1 DEF BlockInv, Lockstep, Phase
  <2>2. \A u \in ThreadsOf(b) : pc[u] \in {"prepare", "sync1"}
    BY <2>1 DEF Phase
  <2> QED
    BY <1>1, <1>2, <2>2
<1>4. Lockstep(b)' /\ PhaseOf(b)' = 1 /\ PhaseOf(b) = 1
  BY <1>0, <1>3 DEF Lockstep, PhaseOf, Phase
<1>4a. queue_cells' = queue_cells
  BY DEF Prepare
<1>5. /\ QueueSound(b) => QueueSound(b)'
      /\ pc'[Lead(b)] \in {"sync0", "sync1"} => next_tail'[b] = 0
  <2>1. CASE t = Lead(b)
    <3>1. /\ current' = current /\ tail'[b] = next_tail[b] /\ next_tail'[b] = 0
          /\ pc'[<<b, 1>>] = pc[<<b, 1>>] /\ pc[Lead(b)] = "prepare" /\ pc'[Lead(b)] = "sync1"
      BY <1>0, <1>1, <1>2, <2>1 DEF Prepare, TypeOK
    <3>2. Size(b)' = Size(b) /\ Base(b)' = Base(b)
      BY <3>1 DEF Size, Base, Before, Moving, Table, next
    <3> QED
      BY <1>0, <1>4a, <3>1, <3>2, QueueKept
  <2>2. CASE t # Lead(b)
    <3>0. t[2] # 0
      BY <1>0, <2>2 DEF Lead
    <3>1. tail' = tail /\ next_tail' = next_tail /\ pc'[Lead(b)] = pc[Lead(b)]
      BY <1>0, <1>2, <2>2, <3>0 DEF Prepare
    <3>2. Size(b)' = Size(b)
      BY <3>1 DEF Size
    <3>3. Base(b)' = Base(b)
      <4>1. ~Moving(b) /\ ~Moving(b)'
        BY <1>0, <1>3 DEF Moving
      <4>2. CASE t[2] = 1
        <5>1. t = <<b, 1>>
          BY <1>0, <4>2
        <5>2. /\ pc[<<b, 1>>] = "prepare" /\ pc'[<<b, 1>>] = "sync1"
              /\ current'[b] = IF Table THEN current[b] ELSE next(b)
          BY <1>0, <1>1, <4>2, <5>1 DEF Prepare, TypeOK
        <5> QED
          BY <4>1, <5>2 DEF Base, Before, Table
      <4>3. CASE t[2] # 1
        <5>1. current' = current /\ pc'[<<b, 1>>] = pc[<<b, 1>>]
          BY <1>0, <1>2, <4>3 DEF Prepare
        <5> QED
          BY <4>1, <5>1 DEF Base, Table, next
      <4> QED
        BY <4>2, <4>3
    <3>4. QueueSound(b) => QueueSound(b)'
      BY <1>0, <1>4a, <3>2, <3>3, QueueKept
    <3> QED
      BY <1>0, <3>1, <3>4 DEF BlockInv
  <2> QED
    BY <2>1, <2>2
<1>6. \A u \in ThreadsOf(b) : ThreadInv(u)'
  BY <1>3 DEF ThreadInv, Phase
<1> QED
  BY <1>0, <1>4, <1>5, <1>6 DEF BlockInv

\* Its cells of the queue to be are copied by a thread one by one.
LEMMA CopyKeeps ==
    ASSUME IInv, job' = job, NEW t \in Thread, CopyQueue(t)
    PROVE  BlockInv(t[1])'
<1> DEFINE b == t[1]
<1>0. /\ TypeOK /\ b \in Block /\ t \in ThreadsOf(b) /\ BlockInv(b)
      /\ ThreadsOf(b) \subseteq Thread /\ Lead(b) \in ThreadsOf(b) /\ <<b, 1>> \in ThreadsOf(b)
      /\ \A u \in ThreadsOf(b) : u[1] = b /\ u[2] \in Tid /\ u = <<b, u[2]>>
  BY ThreadFacts DEF IInv
<1>1. pc[t] = "copy" /\ Table /\ tt[t] % BlockDim = t[2] /\ tt[t] \in Nat
  BY <1>0, ThreadType DEF CopyQueue, Goto, BlockInv, ThreadInv
<1>2. \A u \in ThreadsOf(b) : u # t => pc'[u] = pc[u] /\ slot'[u] = slot[u] /\ tt'[u] = tt[u]
  BY <1>0, Elsewhere DEF ThreadStep
<1>3. pc'[t] \in {"copy", "sync3"} /\ slot' = slot
  BY <1>0, <1>1 DEF CopyQueue, Goto, TypeOK
<1>4. \A u \in ThreadsOf(b) : /\ Phase(pc[u]) = 3 /\ Phase(pc'[u]) = 3
                              /\ pc[u] \in Before /\ pc'[u] \in Before
                              /\ pc[u] \in {"copy", "update", "sync3"}
                              /\ pc'[u] \in {"copy", "update", "sync3"}
  <2>1. \A u \in ThreadsOf(b) : Phase(pc[u]) = 3
    BY <1>0, <1>1 DEF BlockInv, Lockstep, Phase
  <2>2. \A u \in ThreadsOf(b) : pc[u] \in {"copy", "update", "sync3"}
    BY <2>1 DEF Phase
  <2>3. \A u \in ThreadsOf(b) : pc'[u] \in {"copy", "update", "sync3"}
    BY <1>2, <1>3, <2>2
  <2> QED
    BY <2>2, <2>3 DEF Phase, Before
<1>5. Lockstep(b)' /\ PhaseOf(b)' = 3 /\ PhaseOf(b) = 3
  BY <1>0, <1>4 DEF Lockstep, PhaseOf
<1>6. job.run_cold_stage /\ QueueSound(b)
  BY <1>0, <1>1, <1>5 DEF BlockInv, ThreadInv, Phase
<1>7. Base(b) = next(b) /\ Base(b)' = next(b) /\ Size(b) = next_tail[b] /\ Size(b)' = next_tail[b]
  <2>1. current' = current /\ next_tail' = next_tail /\ next(b)' = next(b)
    BY DEF CopyQueue, next
  <2> QED
    BY <1>0, <1>1, <1>4, <2>1 DEF Base, Size, Moving, Table
<1>8. /\ next_tail[b] \in Nat /\ next_tail[b] <= QueueSize /\ QueueSize \in Nat
      /\ current[b] \in {0, QueueSize} /\ next(b) \in {0, QueueSize} /\ next(b) + current[b] = QueueSize
      /\ queue_cells[b] \in [0 .. 2 * QueueSize - 1 -> Nat]
  BY <1>0, <1>6, <1>7, BlockType DEF QueueSound
\* The cell that is written, if one is.
<1> DEFINE k == tt[t]
<1> HIDE DEF b
<1>9. \/ /\ k < next_tail[b] /\ pc'[t] = "copy" /\ tt'[t] = k + BlockDim
         /\ queue_cells'[b] = [queue_cells[b] EXCEPT ![current[b] + k] = Cell(b, k)]
      \/ /\ ~(k < next_tail[b]) /\ pc'[t] = "sync3" /\ tt'[t] = k
         /\ queue_cells'[b] = queue_cells[b]
  <2>1. CASE k < next_tail[b]
    <3>1. /\ queue_cells' = [queue_cells EXCEPT ![b][current[b] + k] = Cell(b, k)]
          /\ tt' = [tt EXCEPT ![t] = k + BlockDim] /\ pc' = pc
      BY <2>1 DEF CopyQueue, Cell, b
    <3> QED
      BY <1>0, <1>1, <2>1, <3>1 DEF TypeOK
  <2>2. CASE ~(k < next_tail[b])
    <3>1. queue_cells' = queue_cells /\ tt' = tt /\ pc' = [pc EXCEPT ![t] = "sync3"]
      BY <2>2 DEF CopyQueue, Goto, b
    <3> QED
      BY <1>0, <2>2, <3>1 DEF TypeOK
  <2> QED
    BY <2>1, <2>2
<1> HIDE DEF k
<1>10. \A i \in 0 .. next_tail[b] - 1 :
          /\ queue_cells'[b][next(b) + i] = Cell(b, i)
          /\ i # k => queue_cells'[b][current[b] + i] = queue_cells[b][current[b] + i]
          /\ i = k => queue_cells'[b][current[b] + i] = Cell(b, i)
  <2>1. ASSUME NEW i \in 0 .. next_tail[b] - 1
        PROVE  /\ next(b) + i \in 0 .. 2 * QueueSize - 1 /\ current[b] + i \in 0 .. 2 * QueueSize - 1
               /\ k < next_tail[b] => next(b) + i # current[b] + k
               /\ i # k => current[b] + i # current[b] + k
    <3>1. i \in Nat /\ i < QueueSize /\ k \in Nat
      BY <1>1, <1>8, <2>1 DEF k
    <3>2. next(b) + i \in 0 .. 2 * QueueSize - 1 /\ current[b] + i \in 0 .. 2 * QueueSize - 1
      BY <1>8, <3>1
    <3>3. i # k => current[b] + i # current[b] + k
      BY <1>8, <3>1
    <3>4. k < next_tail[b] => next(b) + i # current[b] + k
      BY <1>8, <3>1
    <3> QED
      BY <3>2, <3>3, <3>4
  <2>2. CASE k < next_tail[b]
    <3>1. queue_cells'[b] = [queue_cells[b] EXCEPT ![current[b] + k] = Cell(b, k)]
      BY <1>9, <2>2
    <3> QED
      BY <1>8, <2>1, <2>2, <3>1 DEF Cell
  <2>3. CASE ~(k < next_tail[b])
    <3>1. \A i \in 0 .. next_tail[b] - 1 : i # k
      BY <1>1, <1>8, <2>3 DEF k
    <3> QED
      BY <1>9, <2>3, <3>1 DEF Cell
  <2> QED
    BY <2>2, <2>3
<1>11. QueueSound(b)'
  <2>1. \A i \in 0 .. Size(b) - 1 : queue_cells'[b][Base(b) + i] = queue_cells[b][Base(b) + i]
    BY <1>7, <1>10 DEF Cell
  <2> QED
    BY <1>0, <1>6, <1>7, <2>1, QueueKept
<1>12. \A i : Cell(b, i)' = queue_cells'[b][next(b) + i]
  BY DEF Cell, CopyQueue, next
<1>13. ASSUME NEW u \in ThreadsOf(b)
       PROVE  ThreadInv(u)'
  <2>1. ThreadInv(u) /\ u[1] = b
    BY <1>0 DEF BlockInv
  <2>2. current' = current /\ next_tail' = next_tail /\ Table' /\ ~ColdAfterHot
    BY <1>1 DEF CopyQueue, Table, ColdAfterHot
  <2>3. pc'[u] = "copy" => tt'[u] % BlockDim = u[2]
    <3>1. CASE u = t
      BY <1>1, <1>9, <3>1, Strides DEF k
    <3>2. CASE u # t
      BY <1>2, <2>1, <3>2 DEF ThreadInv
    <3> QED
      BY <3>1, <3>2
  <2>4. ASSUME pc'[u] \in {"copy", "sync3"}, NEW i \in 0 .. next_tail[b] - 1,
               i % BlockDim = u[2], pc'[u] = "copy" => i < tt'[u]
        PROVE  queue_cells'[b][current[b] + i] = Cell(b, i)
    <3>1. CASE u = t
      <4>1. i = k => queue_cells'[b][current[b] + i] = Cell(b, i)
        BY <1>10
      <4>2. ASSUME i < k PROVE queue_cells'[b][current[b] + i] = Cell(b, i)
        <5>1. pc[t] = "copy" /\ i < tt[t] /\ i % BlockDim = t[2]
          BY <1>1, <2>4, <3>1, <4>2 DEF k
        <5>2. \A j \in 0 .. next_tail[b] - 1 :
                 j % BlockDim = t[2] /\ (pc[t] = "copy" => j < tt[t])
                     => queue_cells[b][current[b] + j] = Cell(b, j)
          BY <1>1, <2>1, <3>1, <5>1 DEF ThreadInv
        <5>3. queue_cells[b][current[b] + i] = Cell(b, i)
          BY <5>1, <5>2
        <5>4. i # k
          BY <1>1, <1>8, <4>2 DEF k
        <5> QED
          BY <1>10, <5>3, <5>4
      <4>3. ASSUME ~(i < k) PROVE i = k
        <5>1. i \in Nat /\ k \in Nat /\ BlockDim \in Nat
          BY <1>1, <1>8, BlockDimAssumption DEF k
        <5>2. i < next_tail[b]
          BY <1>8
        <5>3. pc'[t] = "copy" /\ tt'[t] = k + BlockDim
          BY <1>8, <1>9, <4>3, <5>1, <5>2
        <5>4. i < k + BlockDim
          BY <2>4, <3>1, <5>3
        <5>5. i % BlockDim = k % BlockDim
          BY <1>1, <2>4, <3>1 DEF k
        <5> QED
          <6>1. k <= i
            BY <4>3, <5>1
          <6>2. \A j \in Nat : k <= j /\ j < k + BlockDim /\ j % BlockDim = k % BlockDim => j = k
            BY <5>1, Strides, Zenon
          <6> QED
            BY <5>1, <5>4, <5>5, <6>1, <6>2, Zenon
      <4> QED
        BY <4>1, <4>2, <4>3
    <3>2. CASE u # t
      <4>1. pc'[u] = pc[u] /\ tt'[u] = tt[u]
        BY <1>2, <3>2
      <4>2. queue_cells[b][current[b] + i] = Cell(b, i)
        BY <1>1, <2>1, <2>4, <4>1 DEF ThreadInv
      <4>3. i # k
        BY <1>0, <1>1, <2>1, <2>4, <3>2 DEF k
      <4> QED
        BY <1>10, <4>2, <4>3
    <3> QED
      BY <3>1, <3>2
  <2>5. pc'[u] \in {"copy", "update", "sync3"} /\ (pc'[u] = "update" => FALSE)
    BY <1>0, <1>1, <1>2, <1>3, <1>4, <2>1, <2>2 DEF ThreadInv
  <2>6. \A i \in 0 .. next_tail'[u[1]] - 1 :
           i % BlockDim = u[2] /\ (pc'[u] = "copy" => i < tt'[u])
              => queue_cells'[u[1]][current'[u[1]] + i] = Cell(u[1], i)'
    BY <1>10, <1>12, <2>1, <2>2, <2>4, <2>5
  <2> QED
    BY <1>6, <2>2, <2>3, <2>5, <2>6 DEF ThreadInv
<1> QED
  BY <1>0, <1>4, <1>5, <1>11, <1>13 DEF BlockInv, b

\* Promoting a cell keeps the invariant of the block.
LEMMA UpdateKeeps ==
    ASSUME IInv, job' = job, NEW t \in Thread, Update(t)
    PROVE  BlockInv(t[1])'
<1> DEFINE b == t[1]
<1>0. /\ TypeOK /\ b \in Block /\ t \in ThreadsOf(b) /\ BlockInv(b)
      /\ ThreadsOf(b) \subseteq Thread /\ Lead(b) \in ThreadsOf(b) /\ <<b, 1>> \in ThreadsOf(b)
      /\ \A u \in ThreadsOf(b) : u[1] = b
  BY ThreadFacts DEF IInv
<1>1. pc[t] = "update" /\ pc'[t] = "sync3"
  BY <1>0 DEF Update, Goto, TypeOK
<1>2. \A u \in ThreadsOf(b) : u # t => pc'[u] = pc[u]
  BY <1>0, Elsewhere DEF ThreadStep
<1>3. ColdAfterHot /\ ~Table
  BY <1>0, <1>1 DEF BlockInv, ThreadInv, ColdAfterHot, Table
<1>4. \A u \in ThreadsOf(b) : /\ pc[u] \in {"update", "sync3"} /\ pc'[u] \in {"update", "sync3"}
                              /\ Phase(pc[u]) = 3 /\ Phase(pc'[u]) = 3
                              /\ pc[u] \in Before /\ pc'[u] \in Before
  <2>1. \A u \in ThreadsOf(b) : Phase(pc[u]) = 3
    BY <1>0, <1>1 DEF BlockInv, Lockstep, Phase
  <2>2. \A u \in ThreadsOf(b) : pc[u] \in {"copy", "update", "sync3"} /\ (pc[u] = "copy" => Table)
    BY <1>0, <2>1 DEF Phase, BlockInv, ThreadInv
  <2>3. \A u \in ThreadsOf(b) : pc[u] \in {"update", "sync3"} /\ pc'[u] \in {"update", "sync3"}
    BY <1>1, <1>2, <1>3, <2>2
  <2> QED
    BY <2>3 DEF Phase, Before
<1>5. Lockstep(b)' /\ PhaseOf(b)' = 3 /\ PhaseOf(b) = 3
  BY <1>0, <1>4 DEF Lockstep, PhaseOf
<1>6. job.run_cold_stage
  BY <1>0, <1>1, <1>4 DEF BlockInv, ThreadInv
<1>7. QueueSound(b)'
  <2>1. UNCHANGED <<current, queue_cells, tail, next_tail>>
    BY DEF Update
  <2>2. Base(b)' = Base(b) /\ Size(b)' = Size(b)
    BY <1>0, <1>3, <1>4, <2>1 DEF Base, Size, Table, next
  <2> QED
    BY <1>0, <1>5, <1>6, <2>1, <2>2, QueueKept DEF BlockInv
<1>8. \A u \in ThreadsOf(b) : ThreadInv(u)'
  BY <1>3, <1>4, <1>6 DEF ThreadInv, Table, ColdAfterHot
<1> QED
  BY <1>0, <1>4, <1>5, <1>7, <1>8 DEF BlockInv

-----------------------------------------------------------------------------
(* The barriers.                                                             *)

\* What the other side of a barrier needs.
LEMMA BarrierKeeps ==
    ASSUME TypeOK, job' = job, NEW b \in Block, BlockInv(b), NEW at, NEW to, Barrier(b, at, to),
           to \in {"prepare", "hot", "copy", "update", "done"},
           job.run_cold_stage => QueueSound(b)',
           to = "hot" => NextSound(b)',
           to = "copy" => Table /\ job.run_cold_stage /\ \A t \in ThreadsOf(b) : tt[t] = t[2],
           to = "update" => ColdAfterHot /\ job.run_cold_stage
    PROVE  BlockInv(b)'
<1>0. /\ ThreadsOf(b) \subseteq Thread /\ Lead(b) \in ThreadsOf(b)
      /\ \A t \in ThreadsOf(b) : t[1] = b /\ t[2] \in Tid
  BY ThreadFacts
<1>1. \A t \in ThreadsOf(b) : pc'[t] = to
  BY <1>0 DEF Barrier
<1>2. Lockstep(b)' /\ PhaseOf(b)' = Phase(to) /\ pc'[Lead(b)] = to
  BY <1>0, <1>1 DEF Lockstep, PhaseOf
<1>3. Phase(to) = 2 => to = "hot"
  BY DEF Phase
<1>4. ASSUME NEW t \in ThreadsOf(b)
      PROVE  ThreadInv(t)'
  <2>1. pc'[t] = to /\ t[1] = b /\ t[2] \in Tid
    BY <1>0, <1>1
  <2>2. Phase(to) = 3 => to \in {"copy", "update"}
    BY DEF Phase
  <2>3. /\ tt' = tt /\ current' = current /\ queue_cells' = queue_cells /\ next_tail' = next_tail
        /\ slot' = slot
    BY DEF Barrier, shared
  <2>4. to = "copy" => tt[t] = t[2] /\ tt[t] % BlockDim = t[2]
    <3>1. \A i \in Tid : i % BlockDim = i
      BY Strides
    <3> QED
      BY <2>1, <3>1
  <2>5. \A i \in Nat : i % BlockDim = t[2] => ~(i < t[2])
    <3>1. ASSUME NEW i \in Nat, i % BlockDim = t[2], i < t[2]
          PROVE  FALSE
      <4>1. i \in Tid
        BY <2>1, <3>1, BlockDimAssumption DEF Tid
      <4>2. i % BlockDim = i
        BY <4>1, Strides
      <4> QED
        BY <2>1, <3>1, <4>2, BlockDimAssumption DEF Tid
    <3> QED
      BY <3>1
  <2>6. to = "copy" => \A i \in 0 .. next_tail'[t[1]] - 1 :
                          ~(i % BlockDim = t[2] /\ i < tt'[t])
    BY <2>3, <2>4, <2>5
  <2> QED
    BY <2>1, <2>2, <2>3, <2>4, <2>6 DEF ThreadInv, Table, ColdAfterHot
<1> QED
  BY <1>2, <1>3, <1>4 DEF BlockInv

\* A barrier opens for one block.
LEMMA BarrierElsewhere ==
    ASSUME TypeOK, job' = job, NEW b \in Block, BlockStep(b), NEW c \in Block, c # b, BlockInv(c)
    PROVE  BlockInv(c)'
<1>1. ThreadsOf(c) \subseteq Thread /\ \A t \in ThreadsOf(c) : t[1] = c
  BY ThreadFacts
<1>2. PICK at, to : Barrier(b, at, to)
  BY DEF BlockStep, Sync0, Sync1, Sync2, Sync2BeforeCopy, Sync2BeforeUpdate, Sync3, EndSymbol
<1>3. \A t \in ThreadsOf(c) : pc'[t] = pc[t] /\ slot'[t] = slot[t] /\ tt'[t] = tt[t]
  BY <1>1, <1>2 DEF Barrier
<1> QED
  BY <1>2, <1>3, BlockKept DEF Barrier, shared

\* When the stages have ended, the next queue is sound.
LEMMA NextIsQueue ==
    ASSUME TypeOK, NEW b \in Block, NextSound(b), Queueing(b) = {}
    PROVE  /\ next_tail[b] <= QueueSize
           /\ \A i \in 0 .. next_tail[b] - 1 : Cell(b, i) \in Cold(nfa(b))
           /\ \A i, j \in 0 .. next_tail[b] - 1 : Cell(b, i) = Cell(b, j) => i = j
<1>1. Written(b) = 0 .. next_tail[b] - 1
  BY DEF Written, Claiming, Queueing
<1>2. next_tail[b] \in Nat /\ QueueSize \in Nat
  BY BlockType
<1>3. next_tail[b] <= QueueSize
  <2>1. CASE next_tail[b] = 0
    BY <1>2, <2>1
  <2>2. CASE next_tail[b] # 0
    <3>1. next_tail[b] - 1 \in Written(b)
      BY <1>1, <1>2, <2>2
    <3>2. next_tail[b] - 1 < QueueSize
      BY <3>1 DEF NextSound
    <3> QED
      BY <1>2, <3>2
  <2> QED
    BY <2>1, <2>2
<1> QED
  BY <1>1, <1>3 DEF NextSound, Marked

\* A barrier keeps the invariant of its block.
LEMMA BlockStepKeeps ==
    ASSUME IInv, job' = job, NEW b \in Block, BlockStep(b)
    PROVE  BlockInv(b)'
<1>0. /\ TypeOK /\ BlockInv(b) /\ ThreadsOf(b) \subseteq Thread
      /\ Lead(b) \in ThreadsOf(b) /\ <<b, 1>> \in ThreadsOf(b)
  BY ThreadFacts DEF IInv
<1>1. next_tail[b] \in Nat /\ QueueSize \in Nat
  BY <1>0, BlockType
<1>2. \A k : LoopTest(b, k) \in {"prepare", "done"}
  BY DEF LoopTest
<1>3. ASSUME NEW at, NEW to, Barrier(b, at, to)
      PROVE  /\ \A t \in ThreadsOf(b) : pc[t] = at /\ pc'[t] = to
             /\ UNCHANGED <<tt, slot, current, queue_cells, dedup_bs, tail, next_tail>>
             /\ next(b)' = next(b)
  BY <1>0, <1>3, ThreadFacts DEF Barrier, shared, next
\* After the last stage of a symbol: the next queue is run, where it is.
<1>4. ASSUME NEW to \in {"prepare", "copy", "update", "done"}, Barrier(b, "sync2", to),
             job.run_cold_stage, Table => to = "copy"
      PROVE  QueueSound(b)'
  <2>1. PhaseOf(b) = 2 /\ Queueing(b) = {}
    BY <1>0, <1>3, <1>4 DEF PhaseOf, Phase, Queueing
  <2>2. NextSound(b)
    BY <1>0, <2>1 DEF BlockInv
  <2>3. Base(b)' = next(b) /\ Size(b)' = next_tail[b]
    BY <1>0, <1>3, <1>4 DEF Base, Size, Moving, Before, Table
  <2> QED
    BY <1>0, <1>3, <1>4, <2>1, <2>2, <2>3, NextIsQueue DEF QueueSound, Cell, nfa
<1>5. CASE Sync0(b)
  <2>1. Barrier(b, "sync0", LoopTest(b, 0))
    BY <1>5 DEF Sync0
  <2>2. next_tail[b] = 0
    BY <1>0, <1>3, <2>1 DEF BlockInv
  <2>3. Size(b)' = 0
    BY <1>0, <1>2, <1>3, <2>1, <2>2 DEF Size, Before
  <2>4. QueueSound(b)'
    BY <1>1, <2>3 DEF QueueSound
  <2> QED
    BY <1>0, <1>2, <2>1, <2>4, BarrierKeeps
<1>6. CASE Sync1(b)
  <2>1. Barrier(b, "sync1", "hot")
    BY <1>6 DEF Sync1
  <2>2. \A t \in ThreadsOf(b) : pc[t] = "sync1" /\ pc'[t] = "hot"
    BY <1>3, <2>1
  <2>3. next_tail[b] = 0 /\ PhaseOf(b) = 1
    BY <1>0, <2>2 DEF BlockInv, PhaseOf, Phase
  <2>4. Base(b)' = Base(b) /\ Size(b)' = Size(b)
    BY <1>0, <1>3, <2>1, <2>2 DEF Base, Size, Moving, Before, Table
  <2>5. QueueSound(b) => QueueSound(b)'
    BY <1>0, <1>3, <2>1, <2>4, QueueKept
  <2>6. NextSound(b)'
    <3>1. Queueing(b)' = {} /\ Claiming(b)' = {}
      BY <2>2 DEF Queueing, Claiming
    <3>2. Written(b)' = {}
      BY <1>3, <2>1, <2>3 DEF Written
    <3> QED
      BY <3>1, <3>2 DEF NextSound
  <2> QED
    BY <1>0, <2>1, <2>3, <2>5, <2>6, BarrierKeeps DEF BlockInv
<1>7. CASE Sync2(b)
  <2>1. PICK k : Barrier(b, "sync2", LoopTest(b, k))
    BY <1>7 DEF Sync2, EndSymbol
  <2>2. job.run_cold_stage => ~Table
    BY <1>7 DEF Sync2, QueueIsCopied
  <2>3. job.run_cold_stage => QueueSound(b)'
    BY <1>2, <1>4, <2>1, <2>2
  <2> QED
    BY <1>0, <1>2, <2>1, <2>3, BarrierKeeps
<1>8. CASE Sync2BeforeCopy(b)
  <2>1. Barrier(b, "sync2", "copy") /\ Table /\ job.run_cold_stage
    BY <1>8 DEF Sync2BeforeCopy, QueueIsCopied
  <2>2. \A t \in ThreadsOf(b) : tt[t] = t[2]
    BY <1>0, <1>3, <2>1 DEF BlockInv, ThreadInv
  <2> QED
    BY <1>0, <1>4, <2>1, <2>2, BarrierKeeps
<1>9. CASE Sync2BeforeUpdate(b)
  <2>1. Barrier(b, "sync2", "update") /\ ColdAfterHot /\ ~Table
    BY <1>9 DEF Sync2BeforeUpdate, ColdAfterHot, Table
  <2>2. job.run_cold_stage
    BY <1>0, <2>1, BlockFacts
  <2> QED
    BY <1>0, <1>4, <2>1, <2>2, BarrierKeeps
<1>10. CASE Sync3(b)
  <2>1. PICK k : Barrier(b, "sync3", LoopTest(b, k))
    BY <1>10 DEF Sync3, EndSymbol
  <2>2. \A t \in ThreadsOf(b) : pc[t] = "sync3" /\ pc'[t] \in {"prepare", "done"}
    BY <1>2, <1>3, <2>1
  <2>3. QueueSound(b)
    <3>1. PhaseOf(b) = 3 /\ job.run_cold_stage
      BY <1>0, <2>2 DEF PhaseOf, Phase, BlockInv, ThreadInv
    <3> QED
      BY <1>0, <3>1 DEF BlockInv
  <2>4. Base(b) = next(b) /\ Size(b) = next_tail[b] /\ Size(b)' = next_tail[b]
    BY <1>0, <1>3, <2>1, <2>2 DEF Base, Size, Moving, Before
  <2>5. Base(b)' = IF Table THEN current[b] ELSE next(b)
    BY <1>0, <1>3, <2>1, <2>2 DEF Base, Moving, Before, Table
  <2>6. QueueSound(b)'
    <3>1. CASE Table
      <4>1. ASSUME NEW i \in 0 .. next_tail[b] - 1
            PROVE  queue_cells[b][current[b] + i] = Cell(b, i)
        <5>1. i \in Nat /\ i % BlockDim \in Tid
          BY <1>1, Strides
        <5>2. <<b, i % BlockDim>> \in ThreadsOf(b)
          BY <5>1, ThreadFacts
        <5>3. ThreadInv(<<b, i % BlockDim>>) /\ pc[<<b, i % BlockDim>>] = "sync3"
          BY <1>0, <2>2, <5>2 DEF BlockInv
        <5> QED
          BY <3>1, <5>3 DEF ThreadInv
      <4> QED
        BY <1>3, <2>1, <2>3, <2>4, <2>5, <3>1, <4>1 DEF QueueSound, Cell, nfa
    <3>2. CASE ~Table
      BY <1>0, <1>3, <2>1, <2>3, <2>4, <2>5, <3>2, QueueKept
    <3> QED
      BY <3>1, <3>2
  <2> QED
    BY <1>0, <1>2, <2>1, <2>6, BarrierKeeps
<1> QED
  BY <1>5, <1>6, <1>7, <1>8, <1>9, <1>10 DEF BlockStep

-----------------------------------------------------------------------------
(* The theorem.                                                              *)

\* The initial state has the invariant.
LEMMA InitInv == ASSUME Init PROVE IInv
<1>1. TypeOK
  BY InitType
<1>2. \A t \in Thread : pc[t] = "init"
  BY DEF Init
<1>3. ASSUME NEW b \in Block PROVE BlockInv(b)
  <2>1. \A t \in ThreadsOf(b) : pc[t] = "init"
    BY <1>2, ThreadFacts
  <2>2. pc[Lead(b)] = "init"
    BY <2>1, ThreadFacts
  <2>3. Lockstep(b) /\ PhaseOf(b) = 0
    BY <2>1, <2>2 DEF Lockstep, PhaseOf, Phase
  <2>4. \A t \in ThreadsOf(b) : ThreadInv(t)
    BY <2>1 DEF ThreadInv, Phase
  <2> QED
    BY <2>2, <2>3, <2>4 DEF BlockInv
<1>4. reports = {}
  BY DEF Init
<1> QED
  BY <1>1, <1>3, <1>4 DEF IInv

\* Every step keeps the invariant.
LEMMA NextInv == ASSUME AllRoomy, IInv, [Next]_vars PROVE IInv'
<1>1. job' = job
  BY JobKept
<1>2. TypeOK' /\ \A r \in reports' : r[3] \in Sids(nfa(r[1])')
  BY TypeStep
<1>3. ASSUME NEW c \in Block PROVE BlockInv(c)'
  <2>0. TypeOK /\ BlockInv(c)
    BY DEF IInv
  <2>1. ASSUME NEW t \in Thread, ThreadStep(t) PROVE BlockInv(c)'
    <3>1. CASE c = t[1]
      <4>1. BlockInv(t[1])'
        BY <1>1, <2>1, StagesKeep, BeginKeeps, PrepareKeeps, CopyKeeps, UpdateKeeps DEF ThreadStep
      <4> QED
        BY <3>1, <4>1
    <3>2. CASE c # t[1]
      <4>1. \A u \in ThreadsOf(c) : u \in Thread /\ u # t
        <5>1. \A u \in ThreadsOf(c) : u \in Thread /\ u[1] = c
          BY ThreadFacts
        <5> QED
          BY <3>2, <5>1
      <4>2. /\ \A u \in ThreadsOf(c) : pc'[u] = pc[u] /\ slot'[u] = slot[u] /\ tt'[u] = tt[u]
            /\ current'[c] = current[c] /\ queue_cells'[c] = queue_cells[c]
            /\ dedup_bs'[c] = dedup_bs[c] /\ tail'[c] = tail[c] /\ next_tail'[c] = next_tail[c]
        BY <2>0, <2>1, <3>2, <4>1, Elsewhere
      <4> QED
        BY <1>1, <2>0, <4>2, BlockKept
    <3> QED
      BY <3>1, <3>2
  <2>2. ASSUME NEW b \in Block, BlockStep(b) PROVE BlockInv(c)'
    BY <1>1, <2>0, <2>2, BlockStepKeeps, BarrierElsewhere
  <2>3. CASE UNCHANGED <<pc, slot, tt, current, queue_cells, dedup_bs, tail, next_tail>>
    BY <1>1, <2>0, <2>3, BlockKept
  <2> QED
    BY <2>1, <2>2, <2>3 DEF Next, PrintReports, Terminated, vars, shared
<1> QED
  BY <1>1, <1>2, <1>3 DEF IInv

\* The invariant has QueueInv in it.
LEMMA InvImplies == ASSUME AllRoomy, IInv PROVE QueueInv
<1>0. TypeOK
  BY DEF IInv
<1>1. ASSUME NEW b \in Block, job.run_cold_stage
      PROVE  Cardinality(Queued(b)) = Len(Queue(b)) /\ Queued(b) \subseteq Cold(nfa(b))
  <2>1. CASE pc[Lead(b)] \in {"init", "sync0"}
    <3>1. Queue(b) = <<>> /\ Queued(b) = {}
      BY <1>1, <2>1 DEF Queue, Queued
    <3>2. Cardinality({}) = 0
      BY FS_EmptySet
    <3> QED
      BY <3>1, <3>2
  <2>2. CASE pc[Lead(b)] \notin {"init", "sync0"}
    <3> DEFINE q == [i \in 1 .. Size(b) |-> queue_cells[b][Base(b) + i - 1]]
    <3>1. Queue(b) = q
      BY <2>2 DEF Queue
    <3>2. QueueSound(b)
      <4>1. PhaseOf(b) # 0
        BY <2>2 DEF PhaseOf, Phase
      <4> QED
        BY <1>1, <4>1 DEF IInv, BlockInv
    <3>3. Size(b) \in Nat /\ Base(b) \in Nat
      BY <1>0, BlockType DEF Size, Base
    <3>4. \A i \in 1 .. Size(b) : i - 1 \in 0 .. Size(b) - 1 /\ q[i] = queue_cells[b][Base(b) + (i - 1)]
      BY <3>3
    <3>5. DOMAIN q = 1 .. Size(b) /\ Len(q) = Size(b)
      BY <3>3
    <3> HIDE DEF q
    <3>6. Queued(b) = { q[i] : i \in 1 .. Size(b) }
      BY <1>1, <3>1, <3>5 DEF Queued
    <3>7. \A i \in 1 .. Size(b) : q[i] \in Cold(nfa(b))
      BY <3>2, <3>4 DEF QueueSound
    <3>8. \A i, j \in 1 .. Size(b) : q[i] = q[j] => i = j
      <4>1. ASSUME NEW i \in 1 .. Size(b), NEW j \in 1 .. Size(b), q[i] = q[j]
            PROVE  i = j
        <5>1. i - 1 = j - 1
          BY <3>2, <3>4, <4>1 DEF QueueSound
        <5> QED
          BY <3>3, <5>1
      <4> QED
        BY <4>1
    <3>9. Cardinality(Queued(b)) = Size(b)
      <4>1. q = [i \in 1 .. Size(b) |-> q[i]]
        BY <3>3 DEF q
      <4>2. q \in Bijection(1 .. Size(b), Queued(b))
        <5>1. q \in [1 .. Size(b) -> Queued(b)]
          BY <3>6, <4>1
        <5>2. \A i, j \in DOMAIN q : q[i] = q[j] => i = j
          BY <3>5, <3>8
        <5>3. \A x \in Queued(b) : \E i \in 1 .. Size(b) : q[i] = x
          BY <3>6
        <5> QED
          BY <5>1, <5>2, <5>3 DEF Bijection, Injection, Surjection, IsInjective
      <4> QED
        BY <3>3, <4>2, FS_CountingElements DEF ExistsBijection
    <3> QED
      BY <3>1, <3>5, <3>6, <3>7, <3>9
  <2> QED
    BY <2>1, <2>2
<1>2. ASSUME NEW b \in Block, Fits(b), NEW t \in ThreadsOf(b)
      PROVE  pc[t] # "trapped" /\ (pc[t] = "store" => slot[t][2] < QueueSize)
  <2>1. BlockInv(b) /\ t \in Thread
    BY ThreadFacts DEF IInv
  <2>2. t \in Claiming(b) => slot[t][2] < QueueSize
    <3>1. ASSUME t \in Claiming(b) PROVE PhaseOf(b) = 2
      BY <2>1, <3>1 DEF Claiming, BlockInv, Lockstep, Phase
    <3> QED
      BY <1>0, <1>2, <2>1, <3>1, SlotFits DEF BlockInv
  <2>3. pc[t] = "trapped" => slot[t][2] >= QueueSize
    BY <2>1 DEF BlockInv, ThreadInv
  <2>4. slot[t][2] \in Nat /\ QueueSize \in Nat
    BY <1>0, <2>1, ThreadType, QueueSizeAssumption
  <2> QED
    BY <2>2, <2>3, <2>4 DEF Claiming
<1> QED
  BY <1>0, <1>1, <1>2 DEF QueueInv

\* Whichever threads find a cold state at once, it is in the queue of a symbol at
\* most once; so a queue with a cell for each cold state of the group is never
\* overrun and its assertion never fails (kernels.h:571, 575, 892).
THEOREM QueueNeverOverrun == Spec => []QueueInv
<1> DEFINE Inv == AllRoomy => IInv
<1>1. Init => Inv
  BY InitInv
<1>2. Inv /\ [Next]_vars => Inv'
  <2>1. [Next]_vars => (AllRoomy' <=> AllRoomy)
    BY JobKept DEF AllRoomy
  <2> QED
    BY <2>1, NextInv
<1>3. Inv => QueueInv
  BY InvImplies DEF QueueInv, AllRoomy
<1> QED
  BY <1>1, <1>2, <1>3, PTL DEF Spec

-----------------------------------------------------------------------------
(* What the stages compute.                                                  *)

Working == {"enable", "push", "store", "entry", "trapped"}
InHand  == {"push", "store", "entry", "trapped"}

Pos(b) == symbol_pos[Lead(b)]

\* The threads of a block are at one symbol of its stream, and no report is of a
\* later one.
Positions(b) ==
    /\ \A t \in ThreadsOf(b) : symbol_pos[t] = Pos(b)
    /\ PhaseOf(b) = 0 => Pos(b) = 0
    /\ PhaseOf(b) \in {1, 2, 3} => Pos(b) < Len(input(b))
    /\ PhaseOf(b) = 4 => Pos(b) = Len(input(b))
    /\ \A r \in reports : r[1] = b => \/ r[2] < Pos(b)
                                      \/ r[2] = Pos(b) /\ PhaseOf(b) \in {2, 3}

\* What is cleared before the stages: the bits that a thread has prepared, and the
\* cells that say that a hot state is enabled for later.
Cleared(t) ==
    LET b == t[1]
    IN  /\ pc[t] = "sync1" => dedup_bs[b] \cap Mine(t) = {}
        /\ ColdAfterHot /\ t[2] \in Hot(nfa(b)) =>
              /\ pc[t] \notin {"init", "update"} /\ Phase(pc[t]) # 2
                    => t[2] + BlockDim \notin is_active_state1[b]
              /\ pc[t] = "sync0" => (t[2] \in is_active_state1[b] <=> t[2] \in nfa(b).start)

\* The states that are run for a symbol, and those of them that fire.
HotRun(b)  == { s \in Hot(nfa(b)) : ColdAfterHot => s \in is_active_state1[b] }
Waiting(b, i) == queue_cells[b][current[b] + i]
ColdRun(b) == IF job.run_cold_stage THEN { Waiting(b, i) : i \in 0 .. tail[b] - 1 } ELSE {}
Fires(b)   == { s \in HotRun(b) \cup ColdRun(b) : Matches(Lead(b), s) }

\* A state that fires wants e enabled.
Wants(b, s) == Targets(Lead(b), s)
Wanted(b, e) == \E s \in Fires(b) : e \in Wants(b, s)

\* e is enabled for the next symbol, and its report is made.
Found(b, e) ==
    /\ e \in Cold(nfa(b)) => Marked(b, e)
    /\ ColdAfterHot /\ e \in Hot(nfa(b)) => e + BlockDim \in is_active_state1[b]
Told(b, s) == s \in nfa(b).report => <<b, Pos(b), s>> \in reports

\* All is done that a state fires for.
Handled(b, s) ==
    /\ \A e \in Wants(b, s) : Found(b, e) /\ (Table => Told(b, e))
    /\ ~Table => Told(b, s)

\* A thread has its hot state still to run, or the state at i of the queue.
HotDue(t)     == pc[t] = "hot" \/ (pc[t] \in Working /\ state[t] \in Hot(nfa(t[1])))
ColdDue(t, i) == pc[t] = "hot" \/ (pc[t] \in Working \cup {"cold"} /\ tt[t] <= i)

\* The cells of the queue that thread t runs.
Share(t) == { i \in 0 .. tail[t[1]] - 1 : job.run_cold_stage /\ i % BlockDim = t[2] }

\* What a thread runs, and what it has done of it.
AtWork(t) ==
    LET b == t[1]
        s == state[t]
    IN  /\ pc[t] \in Working \cup {"cold"} => tt[t] % BlockDim = t[2]
        /\ pc[t] = "entry" => Table
        /\ pc[t] \in Working =>
              /\ s \in Fires(b) /\ to_enable[t] \subseteq Wants(b, s)
              /\ pc[t] \in InHand => slot[t][1] \in Wants(b, s)
              /\ s \in Hot(nfa(b)) => s = t[2] /\ tt[t] = t[2]
              /\ s \notin Hot(nfa(b)) => tt[t] \in Share(t) /\ s = Waiting(b, tt[t])
              /\ \A e \in Wants(b, s) \ to_enable[t] :
                    /\ Found(b, e)
                    /\ Table => Told(b, e) \/ (pc[t] \in InHand /\ slot[t][1] = e)

\* What is not due any more is done, and what is due is not reported.
Done(t) ==
    LET b == t[1]
    IN  /\ t[2] \in Hot(nfa(b)) /\ t[2] \in Fires(b) => HotDue(t) \/ Handled(b, t[2])
        /\ \A i \in Share(t) : Waiting(b, i) \in Fires(b) => ColdDue(t, i) \/ Handled(b, Waiting(b, i))
Once(t) ==
    LET b == t[1]
    IN  ~Table =>
          /\ t[2] \in Hot(nfa(b)) /\ HotDue(t) => <<b, Pos(b), t[2]>> \notin reports
          /\ \A i \in Share(t) : ColdDue(t, i) => <<b, Pos(b), Waiting(b, i)>> \notin reports

\* Nothing is enabled or reported that no state fires for.
OnlyWanted(b) ==
    /\ \A e \in Cold(nfa(b)) : Marked(b, e) => Wanted(b, e)
    /\ ColdAfterHot => \A e \in Hot(nfa(b)) : e + BlockDim \in is_active_state1[b] => Wanted(b, e)
    /\ \A r \in reports : r[1] = b /\ r[2] = Pos(b) =>
          /\ r[3] \in nfa(b).report
          /\ IF Table THEN Wanted(b, r[3]) ELSE r[3] \in Fires(b)

Stage(b) ==
    /\ \A t \in ThreadsOf(b) : AtWork(t) /\ Done(t) /\ Once(t)
    /\ OnlyWanted(b) /\ Kept(b)

Accounts ==
    /\ IsFiniteSet(reports)
    /\ IF Table THEN count >= Cardinality(reports) ELSE count = Cardinality(reports)
    /\ printed => Trapped \/ (report_file = Lines /\ \A t \in Thread : pc[t] = "done")

BlockStage(b) ==
    /\ Positions(b)
    /\ \A t \in ThreadsOf(b) : Cleared(t)
    /\ PhaseOf(b) = 2 => Stage(b)

StageInv == Accounts /\ \A b \in Block : BlockStage(b)

-----------------------------------------------------------------------------
(* What a step of the stages leaves as it is.                                *)

\* What is to be run for a symbol stays, and what is done stays done.
SameWork(b) ==
    /\ SameQueue(b) /\ symbol_pos'[Lead(b)] = symbol_pos[Lead(b)]
    /\ \A s \in Hot(nfa(b)) : s \in is_active_state1'[b] <=> s \in is_active_state1[b]
Grows(b) ==
    /\ dedup_bs[b] \subseteq dedup_bs'[b]
    /\ is_active_state1[b] \subseteq is_active_state1'[b]
    /\ reports \subseteq reports'

\* What is to be run, and what it wants.
Unmoved(b) ==
    /\ Pos(b)' = Pos(b) /\ HotRun(b)' = HotRun(b) /\ Fires(b)' = Fires(b)
    /\ \A s : Wants(b, s)' = Wants(b, s)
    /\ \A e : Wanted(b, e)' = Wanted(b, e)
    /\ \A t \in ThreadsOf(b) : /\ Share(t)' = Share(t)
                               /\ \A i \in Share(t) : Waiting(b, i)' = Waiting(b, i)

\* What is done.
DoneStays(b) ==
    /\ \A e : Found(b, e) => Found(b, e)'
    /\ \A e : Told(b, e) => Told(b, e)'
    /\ \A s : Handled(b, s) => Handled(b, s)'

\* With the same work, the same is run, fires and is wanted.
LEMMA SameWorkFacts ==
    ASSUME TypeOK, job' = job, NEW b \in Block, SameWork(b),
           job.run_cold_stage => tail[b] <= QueueSize
    PROVE  Unmoved(b) /\ (Grows(b) => DoneStays(b))
<1>0. /\ Lead(b) \in Thread /\ \A t \in ThreadsOf(b) : t[1] = b
      /\ tail[b] \in Nat /\ QueueSize \in Nat
  BY ThreadFacts, BlockType
<1>1. nfa(b)' = nfa(b) /\ Table' = Table /\ ColdAfterHot' = ColdAfterHot
  BY DEF nfa, Table, ColdAfterHot
<1>2. Pos(b)' = Pos(b)
  BY DEF Pos, SameWork
<1>3. symbol(Lead(b))' = symbol(Lead(b)) /\ nfa(Lead(b)[1])' = nfa(Lead(b)[1])
  BY DEF symbol, SameWork, input, nfa
<1>4. \A s : Matches(Lead(b), s)' = Matches(Lead(b), s)
  BY <1>1, <1>3 DEF Matches
<1>5. \A s : Wants(b, s)' = Wants(b, s)
  BY <1>1, <1>3 DEF Wants, Targets, Entry
<1>6. HotRun(b)' = HotRun(b)
  BY <1>1 DEF HotRun, SameWork
<1>7. \A i \in 0 .. QueueSize - 1 : Waiting(b, i)' = Waiting(b, i)
  BY DEF Waiting, SameWork, SameQueue
<1>8. tail[b]' = tail[b]
  BY DEF SameWork, SameQueue
<1>9. \A i \in 0 .. tail[b] - 1 : job.run_cold_stage => Waiting(b, i)' = Waiting(b, i)
  BY <1>0, <1>7
<1>10. ColdRun(b)' = ColdRun(b)
  BY <1>8, <1>9 DEF ColdRun
<1>11. Fires(b)' = Fires(b)
  BY <1>4, <1>6, <1>10 DEF Fires
<1>12. \A e : Wanted(b, e)' = Wanted(b, e)
  BY <1>5, <1>11 DEF Wanted
<1>13. ASSUME NEW t \in ThreadsOf(b)
       PROVE  Share(t)' = Share(t) /\ \A i \in Share(t) : Waiting(b, i)' = Waiting(b, i)
  BY <1>0, <1>8, <1>9 DEF Share
<1>14. Unmoved(b)
  BY <1>2, <1>5, <1>6, <1>11, <1>12, <1>13 DEF Unmoved
<1>15. ASSUME Grows(b) PROVE DoneStays(b)
  <2>1. \A e : Found(b, e) => Found(b, e)'
    BY <1>1, <1>15 DEF Found, Marked, Grows
  <2>2. \A e : Told(b, e) => Told(b, e)'
    BY <1>1, <1>2, <1>15 DEF Told, Grows
  <2>3. \A s : Handled(b, s) => Handled(b, s)'
    BY <1>1, <1>5, <2>1, <2>2 DEF Handled
  <2> QED
    BY <2>1, <2>2, <2>3 DEF DoneStays
<1> QED
  BY <1>14, <1>15

\* A thread that takes no step, if what others report is not its own to run.
LEMMA Bystander ==
    ASSUME TypeOK, job' = job, NEW b \in Block, Unmoved(b), DoneStays(b), NEW t \in ThreadsOf(b),
           pc'[t] = pc[t], tt'[t] = tt[t], state'[t] = state[t], to_enable'[t] = to_enable[t],
           slot'[t] = slot[t]
    PROVE  /\ AtWork(t) => AtWork(t)'
           /\ Done(t) => Done(t)'
           /\ Table \/ (\A x : <<b, Pos(b), x>> \in reports' => <<b, Pos(b), x>> \in reports)
                 => (Once(t) => Once(t)')
<1>0. /\ t[1] = b /\ nfa(b)' = nfa(b) /\ Table' = Table /\ Fires(b)' = Fires(b) /\ Pos(b)' = Pos(b)
      /\ \A s : Wants(b, s)' = Wants(b, s)
      /\ Share(t)' = Share(t) /\ \A i \in Share(t) : Waiting(b, i)' = Waiting(b, i)
  BY ThreadFacts DEF nfa, Table, Unmoved
<1>1. HotDue(t)' = HotDue(t) /\ \A i : ColdDue(t, i)' = ColdDue(t, i)
  BY <1>0 DEF HotDue, ColdDue
<1>2. ASSUME AtWork(t) PROVE AtWork(t)'
  BY <1>0, <1>2 DEF AtWork, DoneStays
<1>3. ASSUME Done(t) PROVE Done(t)'
  BY <1>0, <1>1, <1>3 DEF Done, DoneStays
<1>4. ASSUME Table \/ (\A x : <<b, Pos(b), x>> \in reports' => <<b, Pos(b), x>> \in reports), Once(t)
      PROVE  Once(t)'
  BY <1>0, <1>1, <1>4 DEF Once
<1> QED
  BY <1>2, <1>3, <1>4

\* A step of a thread in the stages.
Works(t) == \/ HotStage(t) \/ ColdStage(t) \/ EnableHot(t) \/ Dedup(t) \/ Push(t) \/ Store(t)
            \/ ReportEntry(t) \/ Report(t)

\* The queue that the threads of a block share out.
LEMMA ShareFacts ==
    ASSUME IInv, NEW b \in Block, PhaseOf(b) = 2
    PROVE  /\ job.run_cold_stage => tail[b] <= QueueSize
           /\ \A t \in ThreadsOf(b) : \A i \in Share(t) :
                 i \in Nat /\ Waiting(b, i) \in Cold(nfa(b)) /\ Waiting(b, i) \notin Hot(nfa(b))
           /\ \A t, u \in ThreadsOf(b) : \A i \in Share(t), j \in Share(u) :
                 Waiting(b, i) = Waiting(b, j) => i = j /\ t = u
<1>0. /\ Lead(b) \in ThreadsOf(b) /\ ThreadsOf(b) \subseteq Thread
      /\ \A t \in ThreadsOf(b) : t[1] = b /\ t = <<b, t[2]>>
      /\ Lead(b)[1] = b
  BY ThreadFacts
<1>1. Base(b) = current[b] /\ Size(b) = tail[b]
  <2>1. PhaseOf(Lead(b)[1]) = 2 /\ Lead(b) \in Thread
    BY <1>0
  <2> QED
    BY <1>0, <2>1, PhaseFacts
<1>2. job.run_cold_stage => QueueSound(b)
  BY DEF IInv, BlockInv
<1>3. ASSUME NEW t \in ThreadsOf(b), NEW i \in Share(t)
      PROVE  i \in 0 .. tail[b] - 1 /\ job.run_cold_stage /\ i % BlockDim = t[2]
  BY <1>0 DEF Share
<1>4. ASSUME NEW t \in ThreadsOf(b), NEW i \in Share(t)
      PROVE  i \in Nat /\ Waiting(b, i) \in Cold(nfa(b)) /\ Waiting(b, i) \notin Hot(nfa(b))
  BY <1>1, <1>2, <1>3 DEF QueueSound, Waiting, Cold
<1>5. ASSUME NEW t \in ThreadsOf(b), NEW u \in ThreadsOf(b), NEW i \in Share(t), NEW j \in Share(u),
             Waiting(b, i) = Waiting(b, j)
      PROVE  i = j /\ t = u
  <2>1. /\ i \in 0 .. tail[b] - 1 /\ j \in 0 .. tail[b] - 1 /\ job.run_cold_stage
        /\ i % BlockDim = t[2] /\ j % BlockDim = u[2]
    BY <1>3
  <2>2. i = j
    BY <1>1, <1>2, <1>5, <2>1 DEF QueueSound, Waiting
  <2> QED
    BY <1>0, <2>1, <2>2
<1>6. job.run_cold_stage => tail[b] <= QueueSize
  BY <1>1, <1>2 DEF QueueSound
<1> QED
  BY <1>4, <1>5, <1>6

\* What a step of the stages leaves as it is.
LEMMA WorksFrame ==
    ASSUME AllRoomy, IInv, job' = job, NEW t \in Thread, Works(t)
    PROVE  /\ SameWork(t[1]) /\ Grows(t[1])
           /\ \A u \in Thread : u # t => /\ pc'[u] = pc[u] /\ tt'[u] = tt[u] /\ slot'[u] = slot[u]
                                         /\ state'[u] = state[u] /\ to_enable'[u] = to_enable[u]
<1> DEFINE b == t[1]
<1>0. /\ TypeOK /\ b \in Block /\ KernelNetwork(nfa(b))
  BY ThreadFacts, BlockFacts DEF IInv
<1>1. SameQueue(b) /\ (Store(t) => dedup_bs' = dedup_bs)
  BY StagesKeep DEF Works
<1>2. symbol_pos' = symbol_pos
  BY DEF Works, HotStage, ColdStage, EnableHot, Dedup, Push, Store, ReportEntry, Report
<1>3. \/ is_active_state1' = is_active_state1
      \/ \E e \in Hot(nfa(b)) : is_active_state1' = [is_active_state1 EXCEPT ![b] = @ \cup {e + BlockDim}]
  BY DEF Works, HotStage, ColdStage, EnableHot, Dedup, Push, Store, ReportEntry, Report, shared, WithCells
<1>4. /\ \A s \in Hot(nfa(b)) : s \in is_active_state1'[b] <=> s \in is_active_state1[b]
      /\ is_active_state1[b] \subseteq is_active_state1'[b]
  <2>1. CASE is_active_state1' = is_active_state1
    BY <2>1
  <2>2. ASSUME NEW e \in Hot(nfa(b)), is_active_state1' = [is_active_state1 EXCEPT ![b] = @ \cup {e + BlockDim}]
        PROVE  is_active_state1'[b] = is_active_state1[b] \cup {e + BlockDim}
    BY <1>0, <2>2 DEF TypeOK
  <2>3. \A e, s \in Hot(nfa(b)) : e + BlockDim # s
    BY <1>0, BlockDimAssumption DEF KernelNetwork, Hot
  <2> QED
    BY <1>3, <2>1, <2>2, <2>3
<1>5. dedup_bs[b] \subseteq dedup_bs'[b]
  <2>1. dedup_bs' = dedup_bs \/ \E x : dedup_bs' = [dedup_bs EXCEPT ![b] = @ \cup {x}]
    BY <1>1 DEF Works, HotStage, ColdStage, EnableHot, Dedup, Push, ReportEntry, Report, shared
  <2>2. ASSUME NEW x, dedup_bs' = [dedup_bs EXCEPT ![b] = @ \cup {x}]
        PROVE  dedup_bs'[b] = dedup_bs[b] \cup {x}
    BY <1>0, <2>2 DEF TypeOK
  <2> QED
    BY <2>1, <2>2
<1>6. reports \subseteq reports'
  BY DEF Works, HotStage, ColdStage, EnableHot, Dedup, Push, Store, ReportEntry, Report, Reported
<1>7. \A u \in Thread : u # t => pc'[u] = pc[u] /\ tt'[u] = tt[u] /\ slot'[u] = slot[u]
  BY <1>0, Elsewhere DEF Works, ThreadStep
<1>8. /\ \/ state' = state \/ \E x : state' = [state EXCEPT ![t] = x]
      /\ \/ to_enable' = to_enable \/ \E x : to_enable' = [to_enable EXCEPT ![t] = x]
  <2>1. CASE HotStage(t) BY <2>1 DEF HotStage, Fire
  <2>2. CASE ColdStage(t) BY <2>2 DEF ColdStage, Fire
  <2>3. CASE EnableHot(t) BY <2>3 DEF EnableHot
  <2>4. CASE Dedup(t) BY <2>4 DEF Dedup
  <2>5. CASE Push(t) BY <2>5 DEF Push
  <2>6. CASE Store(t) BY <2>6 DEF Store
  <2>7. CASE ReportEntry(t) BY <2>7 DEF ReportEntry
  <2>8. CASE Report(t) BY <2>8 DEF Report
  <2> QED
    BY <2>1, <2>2, <2>3, <2>4, <2>5, <2>6, <2>7, <2>8 DEF Works
<1>9. \A u \in Thread : u # t => state'[u] = state[u] /\ to_enable'[u] = to_enable[u]
  BY <1>0, <1>8 DEF TypeOK
<1> QED
  BY <1>1, <1>2, <1>4, <1>5, <1>6, <1>7, <1>9 DEF SameWork, Grows

\* Where a thread is that takes a step of the stages.
LEMMA WorksFacts ==
    ASSUME AllRoomy, IInv, job' = job, NEW t \in Thread, Works(t), Stage(t[1]), Positions(t[1])
    PROVE  /\ TypeOK /\ t[1] \in Block /\ t \in ThreadsOf(t[1])
           /\ PhaseOf(t[1]) = 2 /\ Unmoved(t[1]) /\ DoneStays(t[1]) /\ Kept(t[1])'
           /\ symbol_pos[t] = Pos(t[1])
           /\ \A s : Matches(t, s) = Matches(Lead(t[1]), s) /\ Targets(t, s) = Wants(t[1], s)
           /\ tt[t] \in Nat /\ t[2] \in Tid /\ t[2] \in Nat /\ tail[t[1]] \in Nat
           /\ BlockDim \in Nat \ {0}
           /\ AtWork(t) /\ Done(t) /\ Once(t) /\ OnlyWanted(t[1])
           /\ nfa(t[1])' = nfa(t[1]) /\ Table' = Table /\ ColdAfterHot' = ColdAfterHot
<1> DEFINE b == t[1]
<1>0. TypeOK /\ b \in Block /\ t \in ThreadsOf(b) /\ Lead(b)[1] = b
  BY ThreadFacts DEF IInv, Lead
<1>1. pc[t] \in {"hot", "cold", "enable", "push", "store", "entry"}
  BY DEF Works, HotStage, ColdStage, EnableHot, Dedup, Push, Store, ReportEntry, Report, Goto
<1>2. PhaseOf(b) = 2
  <2>1. Phase(pc[t]) = PhaseOf(b)
    BY PhaseFacts
  <2> QED
    BY <1>1, <2>1 DEF Phase
<1>3. Unmoved(b) /\ DoneStays(b)
  BY <1>0, <1>2, ShareFacts, WorksFrame, SameWorkFacts
<1>4. Kept(b)'
  BY StagesKeep DEF Works, Stage
<1>5. symbol_pos[t] = Pos(b) /\ symbol_pos[Lead(b)] = Pos(b)
  BY <1>0 DEF Positions, Pos
<1>6. symbol(t) = symbol(Lead(b))
  BY <1>0, <1>5 DEF symbol
<1>7. \A s : Matches(t, s) = Matches(Lead(b), s) /\ Targets(t, s) = Wants(b, s)
  BY <1>0, <1>6 DEF Matches, Wants, Targets, Entry
<1>8. AtWork(t) /\ Done(t) /\ Once(t) /\ OnlyWanted(b)
  BY <1>0 DEF Stage
<1>9. tt[t] \in Nat /\ t[2] \in Tid /\ t[2] \in Nat
  BY <1>0, ThreadType
<1>10. tail[b] \in Nat /\ BlockDim \in Nat \ {0}
  BY <1>0, BlockType, BlockDimAssumption
<1> QED
  BY <1>0, <1>2, <1>3, <1>4, <1>5, <1>7, <1>8, <1>9, <1>10 DEF nfa, Table, ColdAfterHot

\* A thread that goes on with the state it runs.
LEMMA SameState ==
    ASSUME TypeOK, job' = job, NEW b \in Block, NEW t \in ThreadsOf(b), Unmoved(b), DoneStays(b),
           pc[t] \in Working, pc'[t] \in Working, tt'[t] = tt[t], state'[t] = state[t]
    PROVE  /\ Done(t) => Done(t)'
           /\ reports' = reports \/ Table => (Once(t) => Once(t)')
<1>0. /\ t[1] = b /\ nfa(b)' = nfa(b) /\ Table' = Table /\ Fires(b)' = Fires(b) /\ Pos(b)' = Pos(b)
      /\ Share(t)' = Share(t) /\ \A i \in Share(t) : Waiting(b, i)' = Waiting(b, i)
  BY ThreadFacts DEF nfa, Table, Unmoved
<1>1. HotDue(t)' = HotDue(t) /\ \A i : ColdDue(t, i)' = ColdDue(t, i)
  BY <1>0 DEF HotDue, ColdDue, Working
<1>2. ASSUME Done(t) PROVE Done(t)'
  BY <1>0, <1>1, <1>2 DEF Done, DoneStays
<1>3. ASSUME reports' = reports \/ Table, Once(t) PROVE Once(t)'
  BY <1>0, <1>1, <1>3 DEF Once
<1> QED
  BY <1>2, <1>3

\* Nothing new is enabled or reported.
LEMMA NothingNew ==
    ASSUME job' = job, NEW b \in Block, Unmoved(b), OnlyWanted(b),
           dedup_bs'[b] = dedup_bs[b], is_active_state1'[b] = is_active_state1[b],
           \A r \in reports' : r[1] = b => r \in reports
    PROVE  OnlyWanted(b)'
<1>1. /\ nfa(b)' = nfa(b) /\ Table' = Table /\ ColdAfterHot' = ColdAfterHot
      /\ Fires(b)' = Fires(b) /\ Pos(b)' = Pos(b) /\ \A e : Wanted(b, e)' = Wanted(b, e)
  BY DEF nfa, Table, ColdAfterHot, Unmoved
<1>2. \A e : Marked(b, e)' = Marked(b, e)
  BY <1>1 DEF Marked
<1> QED
  BY <1>1, <1>2 DEF OnlyWanted

\* What a step of thread t keeps of itself and of its block.
Goes(t) == /\ AtWork(t)' /\ Done(t)' /\ OnlyWanted(t[1])'
           /\ \A u \in ThreadsOf(t[1]) : Once(u)'

\* Nothing is reported, so nothing that is due to the others.
LEMMA OthersOnce ==
    ASSUME AllRoomy, IInv, job' = job, NEW t \in Thread, Works(t), Stage(t[1]), Positions(t[1]),
           reports' = reports \/ Table, Once(t)'
    PROVE  \A u \in ThreadsOf(t[1]) : Once(u)'
<1>1. ASSUME NEW u \in ThreadsOf(t[1]), u # t PROVE Once(u)'
  <2>1. u \in Thread /\ Once(u)
    BY ThreadFacts DEF Stage
  <2> QED
    BY <1>1, <2>1, WorksFacts, WorksFrame, Bystander
<1> QED
  BY <1>1

\* The test of a thread's hot state keeps what the stages have done.
LEMMA HotStageGoes ==
    ASSUME AllRoomy, IInv, job' = job, NEW t \in Thread, HotStage(t), Stage(t[1]), Positions(t[1])
    PROVE  Goes(t)
<1> DEFINE b == t[1]
           fires == /\ t[2] \in Hot(nfa(b)) /\ Matches(t, t[2])
                    /\ ColdAfterHot => t[2] \in is_active_state1[b]
<1>0. Works(t)
  BY DEF Works
<1>a. /\ TypeOK /\ b \in Block /\ t \in ThreadsOf(b) /\ Unmoved(b) /\ DoneStays(b)
      /\ \A s : Matches(t, s) = Matches(Lead(b), s) /\ Targets(t, s) = Wants(b, s)
      /\ t[2] \in Tid /\ t[2] \in Nat /\ BlockDim \in Nat \ {0}
      /\ Done(t) /\ Once(t) /\ OnlyWanted(b) /\ PhaseOf(b) = 2
      /\ nfa(b)' = nfa(b) /\ Table' = Table /\ ColdAfterHot' = ColdAfterHot
  BY <1>0, WorksFacts
<1>1. /\ pc[t] = "hot" /\ pc'[t] = (IF fires THEN "enable" ELSE "cold") /\ tt'[t] = t[2]
      /\ fires => state'[t] = t[2] /\ to_enable'[t] = Wants(b, t[2])
      /\ UNCHANGED <<dedup_bs, is_active_state1, reports>>
  <2>1. /\ Goto(t, "hot", IF fires THEN "enable" ELSE "cold")
        /\ tt' = [tt EXCEPT ![t] = t[2]]
        /\ IF fires THEN Fire(t, t[2]) ELSE UNCHANGED <<state, to_enable>>
        /\ UNCHANGED <<dedup_bs, is_active_state1, reports>>
    BY DEF HotStage, shared
  <2> HIDE DEF fires
  <2> QED
    BY <1>a, <2>1 DEF Goto, Fire, TypeOK
<1>2. /\ fires <=> t[2] \in Hot(nfa(b)) /\ t[2] \in Fires(b)
  <2>1. fires => t[2] \in HotRun(b)
    BY DEF HotRun
  <2>2. t[2] \in Hot(nfa(b)) /\ t[2] \in Fires(b) => t[2] \in HotRun(b) \cup ColdRun(b) /\ Matches(t, t[2])
    BY <1>a DEF Fires
  <2>3. t[2] \in Hot(nfa(b)) => t[2] \notin ColdRun(b)
    <3>1. ASSUME NEW i \in 0 .. tail[b] - 1, job.run_cold_stage, t[2] \in Hot(nfa(b)), Waiting(b, i) = t[2]
          PROVE  FALSE
      <4>1. i \in Nat /\ i % BlockDim \in Tid
        BY Strides, <1>a, BlockType
      <4>2. <<b, i % BlockDim>> \in ThreadsOf(b)
        BY <1>a, <4>1, ThreadFacts
      <4>3. i \in Share(<<b, i % BlockDim>>)
        BY <3>1 DEF Share
      <4> QED
        BY <1>a, <3>1, <4>2, <4>3, ShareFacts
    <3> QED
      BY <3>1 DEF ColdRun
  <2> QED
    BY <1>a, <2>1, <2>2, <2>3 DEF HotRun, Fires
<1> HIDE DEF fires
<1>3. /\ t[1] = b /\ Fires(b)' = Fires(b) /\ Pos(b)' = Pos(b) /\ \A s : Wants(b, s)' = Wants(b, s)
      /\ Share(t)' = Share(t) /\ \A i \in Share(t) : Waiting(b, i)' = Waiting(b, i)
  BY <1>a DEF Unmoved
<1>4. t[2] % BlockDim = t[2]
  BY <1>a, Strides
<1>5. \A i \in Share(t) : t[2] <= i
  <2>1. ASSUME NEW i \in Share(t), i < t[2] PROVE FALSE
    <3>1. i \in Nat /\ i % BlockDim = t[2]
      BY <1>a, <2>1, ShareFacts DEF Share
    <3>2. i \in Tid
      BY <1>a, <2>1, <3>1 DEF Tid
    <3>3. i % BlockDim = i
      BY <3>1, <3>2, Strides
    <3> QED
      BY <2>1, <3>1, <3>3
  <2> QED
    BY <1>a, <2>1, ShareFacts
<1>6. AtWork(t)'
  <2>1. pc'[t] # "entry" /\ pc'[t] \notin InHand
    BY <1>1 DEF InHand
  <2>2. tt'[t] % BlockDim = t[2]
    BY <1>1, <1>4
  <2>3. pc'[t] \in Working => fires /\ state'[t] = t[2] /\ to_enable'[t] = Wants(b, t[2]) /\ tt'[t] = t[2]
    BY <1>1 DEF Working
  <2> QED
    BY <1>2, <1>3, <1>a, <2>1, <2>2, <2>3 DEF AtWork
<1>7. Done(t)'
  <2>1. t[2] \in Hot(nfa(b)) /\ t[2] \in Fires(b) => HotDue(t)'
    BY <1>1, <1>2, <1>3, <1>a DEF HotDue, Working
  <2>2. \A i \in Share(t) : ColdDue(t, i)'
    BY <1>1, <1>5 DEF ColdDue, Working
  <2> QED
    BY <1>3, <1>a, <2>1, <2>2 DEF Done
<1>8. Once(t)'
  <2>1. HotDue(t) /\ \A i : ColdDue(t, i)
    BY <1>1 DEF HotDue, ColdDue
  <2> QED
    BY <1>1, <1>3, <1>a, <2>1 DEF Once
<1>9. OnlyWanted(b)'
  BY <1>1, <1>a, NothingNew
<1> QED
  BY <1>0, <1>1, <1>6, <1>7, <1>8, <1>9, OthersOnce DEF Goes

\* So does the test of a state of the queue,
LEMMA ColdStageGoes ==
    ASSUME AllRoomy, IInv, job' = job, NEW t \in Thread, ColdStage(t), Stage(t[1]), Positions(t[1])
    PROVE  Goes(t)
<1> DEFINE b == t[1]
           s == Waiting(b, tt[t])
<1>0. Works(t)
  BY DEF Works
<1>a. /\ TypeOK /\ b \in Block /\ t \in ThreadsOf(b) /\ Unmoved(b) /\ DoneStays(b)
      /\ \A x : Matches(t, x) = Matches(Lead(b), x) /\ Targets(t, x) = Wants(b, x)
      /\ tt[t] \in Nat /\ tail[b] \in Nat /\ BlockDim \in Nat \ {0}
      /\ AtWork(t) /\ Done(t) /\ Once(t) /\ OnlyWanted(b) /\ PhaseOf(b) = 2
      /\ nfa(b)' = nfa(b) /\ Table' = Table /\ ColdAfterHot' = ColdAfterHot
  BY <1>0, WorksFacts
<1>1. pc[t] = "cold" /\ UNCHANGED <<dedup_bs, is_active_state1, reports>>
  BY DEF ColdStage, shared
<1>2. /\ t[1] = b /\ Fires(b)' = Fires(b) /\ Pos(b)' = Pos(b) /\ \A x : Wants(b, x)' = Wants(b, x)
      /\ Share(t)' = Share(t) /\ \A i \in Share(t) : Waiting(b, i)' = Waiting(b, i)
  BY <1>a DEF Unmoved
<1>3. tt[t] % BlockDim = t[2]
  BY <1>1, <1>a DEF AtWork
<1>4. ~HotDue(t) /\ \A i : ColdDue(t, i) <=> tt[t] <= i
  BY <1>1 DEF HotDue, ColdDue, Working
<1>5. OnlyWanted(b)'
  BY <1>1, <1>a, NothingNew
\* It runs the state, or goes on.
<1>6. CASE job.run_cold_stage /\ tt[t] < tail[b] /\ Matches(t, s)
  <2>1. /\ pc'[t] = "enable" /\ tt'[t] = tt[t] /\ state'[t] = s /\ to_enable'[t] = Wants(b, s)
    <3>1. /\ pc' = [pc EXCEPT ![t] = "enable"] /\ tt' = tt
          /\ state' = [state EXCEPT ![t] = s] /\ to_enable' = [to_enable EXCEPT ![t] = Targets(t, s)]
      BY <1>6 DEF ColdStage, Goto, Fire, Waiting
    <3> HIDE DEF s
    <3> QED
      BY <1>a, <3>1 DEF TypeOK
  <2>2. tt[t] \in Share(t)
    BY <1>3, <1>6, <1>a DEF Share
  <2>3. s \in Fires(b)
    <3>1. tt[t] \in 0 .. tail[b] - 1
      BY <1>6, <1>a
    <3>2. s \in ColdRun(b)
      BY <1>6, <3>1 DEF ColdRun
    <3> QED
      BY <1>6, <1>a, <3>2 DEF Fires
  <2>4. s \notin Hot(nfa(b)) /\ state'[t] = Waiting(b, tt[t])'
    <3>1. s \notin Hot(nfa(b)) /\ \A i : i = tt[t] => Waiting(b, i)' = s
      BY <1>2, <1>a, <2>2, ShareFacts
    <3>2. \A i : i = tt[t] => Waiting(b, i)' = Waiting(b, tt[t])'
      BY <2>1 DEF Waiting
    <3> QED
      BY <2>1, <3>1, <3>2
  <2>5. /\ pc'[t] \in Working /\ pc'[t] \notin InHand /\ pc'[t] # "entry"
    BY <2>1 DEF Working, InHand
  <2> HIDE DEF s
  <2>6. AtWork(t)'
    <3>1. tt'[t] \in Share(t)'
      BY <1>2, <2>1, <2>2
    <3>2. state'[t] = Waiting(b, tt[t])'
      BY <2>4
    <3>3. Wants(b, state[t])' \ to_enable'[t] = {}
      BY <1>2, <2>1
    <3> QED
      BY <1>2, <1>3, <1>a, <2>1, <2>3, <2>4, <2>5, <3>1, <3>2, <3>3 DEF AtWork
  <2>7. ~HotDue(t)' /\ \A i : ColdDue(t, i)' <=> tt[t] <= i
    BY <1>2, <1>a, <2>1, <2>4 DEF HotDue, ColdDue, Working
  <2>8. Done(t)'
    BY <1>2, <1>4, <1>a, <2>7 DEF Done, DoneStays
  <2>9. Once(t)'
    BY <1>1, <1>2, <1>4, <1>a, <2>7 DEF Once
  <2> QED
    BY <1>0, <1>1, <1>5, <2>6, <2>8, <2>9, OthersOnce DEF Goes
<1>7. CASE job.run_cold_stage /\ tt[t] < tail[b] /\ ~Matches(t, s)
  <2>1. pc'[t] = "cold" /\ tt'[t] = tt[t] + BlockDim
    <3>1. pc' = pc /\ tt' = [tt EXCEPT ![t] = @ + BlockDim]
      BY <1>7 DEF ColdStage, Waiting
    <3> QED
      BY <1>1, <1>a, <3>1 DEF TypeOK
  <2>2. s \notin Fires(b)
    BY <1>7, <1>a DEF Fires
  <2> HIDE DEF s
  <2>3. (tt[t] + BlockDim) % BlockDim = t[2]
    BY <1>3, <1>a, Strides
  <2>4. AtWork(t)'
    BY <2>1, <2>3 DEF AtWork, Working
  <2>5. ~HotDue(t)' /\ \A i : ColdDue(t, i)' <=> tt[t] + BlockDim <= i
    BY <2>1 DEF HotDue, ColdDue, Working
  <2>6. \A i \in Share(t) : tt[t] <= i /\ ~(tt[t] + BlockDim <= i) => Waiting(b, i) = s
    <3>1. ASSUME NEW i \in Share(t), tt[t] <= i, ~(tt[t] + BlockDim <= i) PROVE i = tt[t]
      <4>1. i \in Nat /\ i % BlockDim = tt[t] % BlockDim
        BY <1>3, <1>a, ShareFacts DEF Share
      <4>2. i < tt[t] + BlockDim
        BY <1>a, <3>1, <4>1
      <4> QED
        BY <1>a, <3>1, <4>1, <4>2, Strides
    <3> QED
      BY <3>1 DEF s
  <2>7. Done(t)'
    BY <1>2, <1>4, <1>a, <2>2, <2>5, <2>6 DEF Done, DoneStays
  <2>8. Once(t)'
    <3>1. \A i \in Share(t) : tt[t] + BlockDim <= i => tt[t] <= i
      <4>1. \A i \in Share(t) : i \in Nat
        BY <1>a, ShareFacts
      <4> QED
        BY <1>a, <4>1
    <3> QED
      BY <1>1, <1>2, <1>4, <1>a, <2>5, <3>1 DEF Once
  <2> QED
    BY <1>0, <1>1, <1>5, <2>4, <2>7, <2>8, OthersOnce DEF Goes
<1>8. CASE ~(job.run_cold_stage /\ tt[t] < tail[b])
  <2>1. pc'[t] = "sync2"
    <3>1. pc' = [pc EXCEPT ![t] = "sync2"]
      BY <1>8 DEF ColdStage, Goto
    <3> QED
      BY <1>a, <3>1 DEF TypeOK
  <2>2. AtWork(t)'
    BY <2>1 DEF AtWork, Working
  <2>3. ~HotDue(t)' /\ \A i : ~ColdDue(t, i)'
    BY <2>1 DEF HotDue, ColdDue, Working
  <2>4. \A i \in Share(t) : ~ColdDue(t, i)
    <3>1. \A i \in Share(t) : i \in 0 .. tail[b] - 1 /\ job.run_cold_stage
      BY DEF Share
    <3> QED
      BY <1>4, <1>8, <1>a, <3>1
  <2>5. Done(t)'
    BY <1>2, <1>4, <1>a, <2>3, <2>4 DEF Done, DoneStays
  <2>6. Once(t)'
    BY <2>3 DEF Once
  <2> QED
    BY <1>0, <1>1, <1>5, <2>2, <2>5, <2>6, OthersOnce DEF Goes
<1> QED
  BY <1>6, <1>7, <1>8

\* enabling a hot state,
LEMMA EnableHotGoes ==
    ASSUME AllRoomy, IInv, job' = job, NEW t \in Thread, EnableHot(t), Stage(t[1]), Positions(t[1])
    PROVE  Goes(t)
<1> DEFINE b == t[1]
           s == state[t]
<1>0. Works(t)
  BY DEF Works
<1>a. /\ TypeOK /\ b \in Block /\ t \in ThreadsOf(b) /\ Unmoved(b) /\ DoneStays(b)
      /\ AtWork(t) /\ Done(t) /\ Once(t) /\ OnlyWanted(b)
      /\ nfa(b)' = nfa(b) /\ Table' = Table /\ ColdAfterHot' = ColdAfterHot
  BY <1>0, WorksFacts
<1>1. PICK e \in WithCells(t) :
        /\ to_enable' = [to_enable EXCEPT ![t] = @ \ {e}]
        /\ is_active_state1' = [is_active_state1 EXCEPT ![b] = @ \cup {e + BlockDim}]
  BY DEF EnableHot
<1>2. /\ pc[t] = "enable" /\ pc' = pc /\ tt' = tt /\ state' = state /\ slot' = slot
      /\ dedup_bs' = dedup_bs /\ reports' = reports
  BY DEF EnableHot
<1>3. /\ to_enable'[t] = to_enable[t] \ {e}
      /\ is_active_state1'[b] = is_active_state1[b] \cup {e + BlockDim}
  BY <1>1, <1>a DEF TypeOK
<1>4. ColdAfterHot /\ e \in Hot(nfa(b)) /\ e \in to_enable[t] /\ e \notin Cold(nfa(b)) /\ ~Table
  BY DEF WithCells, Cold, ColdAfterHot, Table
<1>5. /\ t[1] = b /\ Fires(b)' = Fires(b) /\ Pos(b)' = Pos(b) /\ \A x : Wants(b, x)' = Wants(b, x)
      /\ \A x : Wanted(b, x)' = Wanted(b, x)
      /\ Share(t)' = Share(t) /\ \A i \in Share(t) : Waiting(b, i)' = Waiting(b, i)
  BY <1>a DEF Unmoved
<1>6. pc[t] \in Working /\ pc[t] \notin InHand /\ pc'[t] = pc[t] /\ pc[t] # "entry"
  BY <1>2 DEF Working, InHand
<1>7. Found(b, e)'
  BY <1>3, <1>4, <1>a DEF Found
<1>8. e \in Wants(b, s) /\ s \in Fires(b)
  BY <1>4, <1>6, <1>a DEF AtWork
<1>9. AtWork(t)'
  <2>1. \A x \in Wants(b, s) \ to_enable'[t] : Found(b, x)'
    BY <1>3, <1>6, <1>7, <1>a DEF AtWork, DoneStays
  <2> QED
    BY <1>2, <1>3, <1>4, <1>5, <1>6, <1>a, <2>1 DEF AtWork
<1>10. Done(t)' /\ Once(t)'
  BY <1>2, <1>6, <1>a, SameState
<1>11. OnlyWanted(b)'
  <2>1. \A x : Marked(b, x)' = Marked(b, x)
    BY <1>2, <1>a DEF Marked
  <2>2. \A x \in Hot(nfa(b)) : x + BlockDim \in is_active_state1'[b] =>
           x + BlockDim \in is_active_state1[b] \/ x = e
    <3>1. \A x \in Hot(nfa(b)) : x + BlockDim = e + BlockDim => x = e
      BY <1>4, BlockDimAssumption DEF Hot
    <3> QED
      BY <1>3, <3>1
  <2>3. Wanted(b, e)
    BY <1>8 DEF Wanted
  <2> QED
    BY <1>2, <1>5, <1>a, <2>1, <2>2, <2>3 DEF OnlyWanted
<1> QED
  BY <1>0, <1>2, <1>9, <1>10, <1>11, OthersOnce DEF Goes

\* setting a bit of the bitset,
LEMMA DedupGoes ==
    ASSUME AllRoomy, IInv, job' = job, NEW t \in Thread, Dedup(t), Stage(t[1]), Positions(t[1])
    PROVE  Goes(t)
<1> DEFINE b == t[1]
           s == state[t]
<1>0. Works(t)
  BY DEF Works
<1>a. /\ TypeOK /\ b \in Block /\ t \in ThreadsOf(b) /\ Unmoved(b) /\ DoneStays(b)
      /\ AtWork(t) /\ Done(t) /\ Once(t) /\ OnlyWanted(b)
      /\ nfa(b)' = nfa(b) /\ Table' = Table /\ ColdAfterHot' = ColdAfterHot
  BY <1>0, WorksFacts
<1>1. PICK e \in ToQueue(t) :
        /\ pc' = [pc EXCEPT ![t] = IF e \in Cold(nfa(b)) /\ e - nfa(b).hot \notin dedup_bs[b]
                                   THEN "push" ELSE Visited]
        /\ to_enable' = [to_enable EXCEPT ![t] = @ \ {e}]
        /\ slot' = [slot EXCEPT ![t] = <<e, 0>>]
        /\ dedup_bs' = IF e \in Cold(nfa(b)) /\ e - nfa(b).hot \notin dedup_bs[b]
                       THEN [dedup_bs EXCEPT ![b] = @ \cup {e - nfa(b).hot}] ELSE dedup_bs
  BY DEF Dedup, Goto
<1>2. /\ pc[t] = "enable" /\ tt' = tt /\ state' = state /\ is_active_state1' = is_active_state1
      /\ reports' = reports
  BY DEF Dedup, Goto
<1>3. /\ to_enable'[t] = to_enable[t] \ {e} /\ slot'[t] = <<e, 0>> /\ slot'[t][1] = e
      /\ pc'[t] \in {"push", "entry", "enable"} /\ (pc'[t] = "entry" => Table)
      /\ Table => pc'[t] \in InHand
  BY <1>1, <1>a DEF TypeOK, Visited, InHand
<1>4. e \in to_enable[t] /\ (ColdAfterHot => e \notin Hot(nfa(b)))
  BY DEF ToQueue, WithCells
<1>5. /\ t[1] = b /\ Fires(b)' = Fires(b) /\ Pos(b)' = Pos(b) /\ \A x : Wants(b, x)' = Wants(b, x)
      /\ \A x : Wanted(b, x)' = Wanted(b, x)
      /\ Share(t)' = Share(t) /\ \A i \in Share(t) : Waiting(b, i)' = Waiting(b, i)
  BY <1>a DEF Unmoved
<1>6. pc[t] \in Working /\ pc[t] \notin InHand /\ pc'[t] \in Working /\ pc[t] # "entry"
  BY <1>2, <1>3 DEF Working, InHand
<1>7. e \in Wants(b, s) /\ s \in Fires(b)
  BY <1>4, <1>6, <1>a DEF AtWork
<1>8. \A x : Marked(b, x)' <=> Marked(b, x) \/ (x = e /\ e \in Cold(nfa(b)))
  <2>1. CASE e \in Cold(nfa(b)) /\ e - nfa(b).hot \notin dedup_bs[b]
    <3>1. dedup_bs'[b] = dedup_bs[b] \cup {e - nfa(b).hot}
      BY <1>1, <1>a, <2>1 DEF TypeOK
    <3>2. \A x \in Cold(nfa(b)) : x \in Int /\ e \in Int /\ nfa(b).hot \in Int
      BY <1>a, <2>1, BlockFacts DEF KernelNetwork
    <3> QED
      BY <1>a, <2>1, <3>1, <3>2 DEF Marked
  <2>2. CASE ~(e \in Cold(nfa(b)) /\ e - nfa(b).hot \notin dedup_bs[b])
    BY <1>1, <1>a, <2>2 DEF Marked
  <2> QED
    BY <2>1, <2>2
<1>9. Found(b, e)'
  BY <1>4, <1>8, <1>a DEF Found
<1>10. AtWork(t)'
  <2>1. \A x \in Wants(b, s) \ to_enable'[t] :
           Found(b, x)' /\ (Table => Told(b, x)' \/ x = e)
    BY <1>3, <1>6, <1>9, <1>a DEF AtWork, DoneStays
  <2> QED
    BY <1>2, <1>3, <1>5, <1>6, <1>7, <1>a, <2>1 DEF AtWork
<1>11. Done(t)' /\ Once(t)'
  BY <1>2, <1>6, <1>a, SameState
<1>12. OnlyWanted(b)'
  <2>1. Wanted(b, e)
    BY <1>7 DEF Wanted
  <2> QED
    BY <1>2, <1>5, <1>8, <1>a, <2>1 DEF OnlyWanted
<1> QED
  BY <1>0, <1>2, <1>10, <1>11, <1>12, OthersOnce DEF Goes

\* storing into the next queue,
LEMMA StoreGoes ==
    ASSUME AllRoomy, IInv, job' = job, NEW t \in Thread, Push(t) \/ Store(t), Stage(t[1]), Positions(t[1])
    PROVE  Goes(t)
<1> DEFINE b == t[1]
           s == state[t]
<1>0. Works(t)
  BY DEF Works
<1>a. /\ TypeOK /\ b \in Block /\ t \in ThreadsOf(b) /\ Unmoved(b) /\ DoneStays(b)
      /\ AtWork(t) /\ Done(t) /\ Once(t) /\ OnlyWanted(b)
      /\ nfa(b)' = nfa(b) /\ Table' = Table /\ ColdAfterHot' = ColdAfterHot
  BY <1>0, WorksFacts
<1>1. /\ tt' = tt /\ state' = state /\ to_enable' = to_enable
      /\ is_active_state1' = is_active_state1 /\ reports' = reports /\ dedup_bs' = dedup_bs
  BY <1>0, StagesKeep DEF Push, Store
<1>2. /\ pc[t] \in {"push", "store"} /\ pc'[t] \in {"store", "trapped", Visited}
  BY <1>a DEF Push, Store, Goto, TypeOK
<1>3. slot'[t][1] = slot[t][1]
  <2>1. slot' = slot \/ \E k : slot' = [slot EXCEPT ![t][2] = k]
    BY DEF Push, Store
  <2>2. slot \in [Thread -> Nat \X Nat]
    BY <1>a DEF TypeOK
  <2> QED
    BY <2>1, <2>2
<1>4. /\ pc[t] \in Working /\ pc[t] \in InHand /\ pc'[t] \in Working
      /\ Table => pc'[t] \in InHand
      /\ pc'[t] = "entry" => Table
  BY <1>2 DEF Working, InHand, Visited
<1>5. /\ t[1] = b /\ Fires(b)' = Fires(b) /\ Pos(b)' = Pos(b) /\ \A x : Wants(b, x)' = Wants(b, x)
      /\ Share(t)' = Share(t) /\ \A i \in Share(t) : Waiting(b, i)' = Waiting(b, i)
  BY <1>a DEF Unmoved
<1>6. AtWork(t)'
  <2>1. \A x \in Wants(b, s) \ to_enable'[t] :
           Found(b, x)' /\ (Table => Told(b, x)' \/ slot'[t][1] = x)
    BY <1>1, <1>3, <1>4, <1>a DEF AtWork, DoneStays
  <2> QED
    BY <1>1, <1>3, <1>4, <1>5, <1>a, <2>1 DEF AtWork
<1>7. Done(t)' /\ Once(t)'
  BY <1>1, <1>4, <1>a, SameState
<1>8. OnlyWanted(b)'
  BY <1>1, <1>a, NothingNew
<1> QED
  BY <1>0, <1>1, <1>6, <1>7, <1>8, OthersOnce DEF Goes

\* What a report adds.
LEMMA ReportedFacts ==
    ASSUME TypeOK, NEW t \in Thread, NEW s, Reported(t, s), symbol_pos[t] = Pos(t[1])
    PROVE  /\ s \in nfa(t[1]).report => <<t[1], Pos(t[1]), s>> \in reports'
           /\ \A r \in reports' : r \in reports \/ (s \in nfa(t[1]).report /\ r = <<t[1], Pos(t[1]), s>>)
BY DEF Reported

\* reporting a successor read from the table,
LEMMA ReportEntryGoes ==
    ASSUME AllRoomy, IInv, job' = job, NEW t \in Thread, ReportEntry(t), Stage(t[1]), Positions(t[1])
    PROVE  Goes(t)
<1> DEFINE b == t[1]
           s == state[t]
           e == slot[t][1]
<1>0. Works(t)
  BY DEF Works
<1>a. /\ TypeOK /\ b \in Block /\ t \in ThreadsOf(b) /\ Unmoved(b) /\ DoneStays(b)
      /\ AtWork(t) /\ Done(t) /\ Once(t) /\ OnlyWanted(b) /\ symbol_pos[t] = Pos(b)
      /\ nfa(b)' = nfa(b) /\ Table' = Table /\ ColdAfterHot' = ColdAfterHot
  BY <1>0, WorksFacts
<1>1. /\ tt' = tt /\ state' = state /\ to_enable' = to_enable /\ slot' = slot
      /\ is_active_state1' = is_active_state1 /\ dedup_bs' = dedup_bs
      /\ pc[t] = "entry" /\ pc'[t] = "enable" /\ Reported(t, e)
  BY <1>a DEF ReportEntry, Goto, TypeOK, shared
<1>2. pc[t] \in Working /\ pc[t] \in InHand /\ pc'[t] \in Working /\ pc'[t] \notin InHand /\ pc'[t] # "entry"
  BY <1>1 DEF Working, InHand
<1>3. Table
  BY <1>1, <1>a DEF AtWork
<1>4. /\ t[1] = b /\ Fires(b)' = Fires(b) /\ Pos(b)' = Pos(b) /\ \A x : Wants(b, x)' = Wants(b, x)
      /\ \A x : Wanted(b, x)' = Wanted(b, x)
      /\ Share(t)' = Share(t) /\ \A i \in Share(t) : Waiting(b, i)' = Waiting(b, i)
  BY <1>a DEF Unmoved
<1>5. /\ e \in nfa(b).report => <<b, Pos(b), e>> \in reports'
      /\ \A r \in reports' : r \in reports \/ (e \in nfa(b).report /\ r = <<b, Pos(b), e>>)
  BY <1>1, <1>a, ReportedFacts
<1>6. e \in Wants(b, s) /\ s \in Fires(b)
  BY <1>2, <1>a DEF AtWork
<1>e. e' = e
  BY <1>1
<1> HIDE DEF e
<1>7. Told(b, e)'
  BY <1>4, <1>5, <1>a, <1>e DEF Told
<1>8. AtWork(t)'
  <2>1. \A x \in Wants(b, s) \ to_enable'[t] : Found(b, x)' /\ (Table => Told(b, x)')
    BY <1>1, <1>2, <1>7, <1>a DEF AtWork, DoneStays, e
  <2> QED
    BY <1>1, <1>2, <1>4, <1>a, <2>1 DEF AtWork
<1>9. Done(t)' /\ Once(t)'
  BY <1>1, <1>2, <1>3, <1>a, SameState
<1>10. OnlyWanted(b)'
  <2>1. \A x : Marked(b, x)' = Marked(b, x)
    BY <1>1, <1>a DEF Marked
  <2>2. Wanted(b, e)
    BY <1>6 DEF Wanted
  <2>3. \A r \in reports' : r[1] = b /\ r[2] = Pos(b) => r[3] \in nfa(b).report /\ Wanted(b, r[3])
    BY <1>3, <1>5, <1>a, <2>2 DEF OnlyWanted
  <2> QED
    BY <1>1, <1>3, <1>4, <1>a, <2>1, <2>3 DEF OnlyWanted
<1> QED
  BY <1>0, <1>3, <1>8, <1>9, <1>10, OthersOnce DEF Goes

\* and reporting a state that has been run.
LEMMA ReportGoes ==
    ASSUME AllRoomy, IInv, job' = job, NEW t \in Thread, Report(t), Stage(t[1]), Positions(t[1])
    PROVE  Goes(t)
<1> DEFINE b == t[1]
           s == state[t]
           step == IF s \in Hot(nfa(b)) THEN t[2] ELSE tt[t] + BlockDim
<1>0. Works(t)
  BY DEF Works
<1>a. /\ TypeOK /\ b \in Block /\ t \in ThreadsOf(b) /\ Unmoved(b) /\ DoneStays(b)
      /\ AtWork(t) /\ Done(t) /\ Once(t) /\ OnlyWanted(b) /\ symbol_pos[t] = Pos(b) /\ PhaseOf(b) = 2
      /\ tt[t] \in Nat /\ t[2] \in Nat /\ t[2] \in Tid /\ BlockDim \in Nat \ {0} /\ tail[b] \in Nat
      /\ nfa(b)' = nfa(b) /\ Table' = Table /\ ColdAfterHot' = ColdAfterHot
  BY <1>0, WorksFacts
<1>1. /\ to_enable[t] = {} /\ is_active_state1' = is_active_state1 /\ dedup_bs' = dedup_bs
      /\ pc[t] = "enable" /\ pc'[t] = "cold" /\ tt'[t] = step
      /\ IF Table THEN reports' = reports ELSE Reported(t, s)
  <2>1. tt' = [tt EXCEPT ![t] = step]
    BY <1>a DEF Report, TypeOK
  <2> HIDE DEF step
  <2>2. tt'[t] = step
    BY <1>a, <2>1 DEF TypeOK
  <2> QED
    BY <1>a, <2>2 DEF Report, Goto, TypeOK, shared
<1>2. pc[t] \in Working /\ pc[t] \notin InHand /\ pc'[t] \notin Working /\ pc'[t] # "entry"
  BY <1>1 DEF Working, InHand
<1>3. /\ t[1] = b /\ Fires(b)' = Fires(b) /\ Pos(b)' = Pos(b) /\ \A x : Wants(b, x)' = Wants(b, x)
      /\ \A x : Wanted(b, x)' = Wanted(b, x)
      /\ Share(t)' = Share(t) /\ \A i \in Share(t) : Waiting(b, i)' = Waiting(b, i)
  BY <1>a DEF Unmoved
<1>4. /\ s \in Fires(b) /\ tt[t] % BlockDim = t[2]
      /\ s \in Hot(nfa(b)) => s = t[2] /\ tt[t] = t[2]
      /\ s \notin Hot(nfa(b)) => tt[t] \in Share(t) /\ s = Waiting(b, tt[t])
      /\ \A e \in Wants(b, s) : Found(b, e) /\ (Table => Told(b, e))
  BY <1>1, <1>2, <1>a DEF AtWork
<1>5. /\ ~Table /\ s \in nfa(b).report => <<b, Pos(b), s>> \in reports'
      /\ \A r \in reports' : r \in reports \/ (~Table /\ s \in nfa(b).report /\ r = <<b, Pos(b), s>>)
  BY <1>1, <1>a, ReportedFacts
<1>s. s' = s
  BY DEF Report
<1> HIDE DEF s
<1>6. Handled(b, s)'
  <2>1. ~Table => Told(b, s)'
    BY <1>3, <1>5, <1>a, <1>s DEF Told
  <2>2. \A e \in Wants(b, s) : Found(b, e)' /\ (Table => Told(b, e)')
    BY <1>4, <1>a DEF DoneStays
  <2> QED
    BY <1>3, <1>a, <1>s, <2>1, <2>2 DEF Handled
<1>7. AtWork(t)'
  <2>1. step % BlockDim = t[2]
    BY <1>4, <1>a, Strides
  <2> HIDE DEF step
  <2> QED
    BY <1>1, <1>2, <2>1 DEF AtWork
<1>8. HotDue(t) => s = t[2]
  BY <1>1, <1>4 DEF HotDue, s
<1>9. ~HotDue(t)' /\ \A i : ColdDue(t, i)' <=> step <= i
  BY <1>1, <1>2 DEF HotDue, ColdDue
<1>10. \A i \in Share(t) : /\ step <= i => ColdDue(t, i)
                           /\ ColdDue(t, i) => step <= i \/ Waiting(b, i) = s
                           /\ Waiting(b, i) = s => ~(step <= i)
  <2>1. SUFFICES ASSUME NEW i \in Share(t)
                 PROVE  /\ step <= i => tt[t] <= i
                        /\ tt[t] <= i => step <= i \/ Waiting(b, i) = s
                        /\ Waiting(b, i) = s => ~(step <= i)
    BY <1>1 DEF ColdDue, Working
  <2>2. i \in Nat /\ i % BlockDim = tt[t] % BlockDim /\ Waiting(b, i) \notin Hot(nfa(b))
    BY <1>4, <1>a, ShareFacts DEF Share
  <2>3. CASE s \in Hot(nfa(b))
    BY <1>4, <2>2, <2>3
  <2>4. CASE s \notin Hot(nfa(b))
    <3>1. tt[t] <= i /\ ~(step <= i) => i = tt[t]
      BY <1>a, <2>2, <2>4, Strides
    <3>2. Waiting(b, i) = s => i = tt[t]
      BY <1>4, <1>a, <2>4, ShareFacts
    <3> QED
      BY <1>4, <1>a, <2>2, <2>4, <3>1, <3>2
  <2> QED
    BY <2>3, <2>4
<1> HIDE DEF step
<1>11. Done(t)'
  BY <1>3, <1>6, <1>8, <1>9, <1>10, <1>a, <1>s DEF Done, DoneStays
<1>12. \A u \in ThreadsOf(b) : Once(u)'
  <2>1. CASE Table
    <3>1. Once(t)'
      BY <1>a, <2>1 DEF Once
    <3> QED
      BY <1>0, <2>1, <3>1, OthersOnce
  <2>2. ASSUME ~Table, NEW u \in ThreadsOf(b) PROVE Once(u)'
    <3>0. u \in Thread /\ u[1] = b /\ u = <<b, u[2]>> /\ t = <<b, t[2]>> /\ Once(u)
      BY <1>a, ThreadFacts DEF Stage
    <3>1. /\ Share(u)' = Share(u) /\ \A i \in Share(u) : Waiting(b, i)' = Waiting(b, i)
      BY <1>a DEF Unmoved
    <3>2. u # t => HotDue(u)' = HotDue(u) /\ \A i : ColdDue(u, i)' = ColdDue(u, i)
      BY <1>0, <1>a, <3>0, WorksFrame DEF HotDue, ColdDue
    <3>3. u[2] \in Hot(nfa(b)) /\ HotDue(u)' => HotDue(u) /\ u[2] # s
      <4>1. u[2] = s /\ u[2] \in Hot(nfa(b)) => u = t
        BY <1>4, <3>0
      <4> QED
        BY <1>9, <3>2, <4>1
    <3>4. \A i \in Share(u) : ColdDue(u, i)' => ColdDue(u, i) /\ Waiting(b, i) # s
      <4>1. ASSUME NEW i \in Share(u), Waiting(b, i) = s PROVE u = t
        <5>1. s \notin Hot(nfa(b))
          BY <1>a, <4>1, ShareFacts
        <5> QED
          BY <1>4, <1>a, <4>1, <5>1, ShareFacts
      <4> QED
        BY <1>9, <1>10, <3>2, <4>1
    <3>5. \A x : <<b, Pos(b), x>> \in reports' => <<b, Pos(b), x>> \in reports \/ x = s
      BY <1>5
    <3> QED
      BY <1>3, <1>a, <3>0, <3>1, <3>3, <3>4, <3>5 DEF Once
  <2> QED
    BY <2>1, <2>2
<1>13. OnlyWanted(b)'
  <2>1. \A x : Marked(b, x)' = Marked(b, x)
    BY <1>1, <1>a DEF Marked
  <2>2. \A r \in reports' : r[1] = b /\ r[2] = Pos(b) =>
           r[3] \in nfa(b).report /\ (IF Table THEN Wanted(b, r[3]) ELSE r[3] \in Fires(b))
    BY <1>4, <1>5, <1>a DEF OnlyWanted
  <2> QED
    BY <1>1, <1>3, <1>a, <2>1, <2>2 DEF OnlyWanted
<1> QED
  BY <1>7, <1>11, <1>12, <1>13 DEF Goes

\* A step of the stages, for its block.
LEMMA StageWorks ==
    ASSUME AllRoomy, IInv, job' = job, NEW t \in Thread, Works(t), Stage(t[1]), Positions(t[1])
    PROVE  Stage(t[1])'
<1>1. Goes(t)
  BY HotStageGoes, ColdStageGoes, EnableHotGoes, DedupGoes, StoreGoes, ReportEntryGoes, ReportGoes
  DEF Works
<1>2. ASSUME NEW u \in ThreadsOf(t[1]), u # t PROVE AtWork(u)' /\ Done(u)'
  <2>1. u \in Thread /\ AtWork(u) /\ Done(u)
    BY ThreadFacts DEF Stage
  <2> QED
    BY <1>2, <2>1, WorksFacts, WorksFrame, Bystander
<1>3. Kept(t[1])' /\ \A u \in ThreadsOf(t[1]) : AtWork(u)' /\ Done(u)' /\ Once(u)'
  BY <1>1, <1>2, WorksFacts DEF Goes
<1> QED
  BY <1>1, <1>3 DEF Stage, Goes, ThreadsOf

-----------------------------------------------------------------------------
(* The other steps.                                                          *)

\* A block of which nothing changes.
LEMMA StageKept ==
    ASSUME IInv, job' = job, NEW b \in Block, BlockStage(b),
           \A t \in ThreadsOf(b) : /\ pc'[t] = pc[t] /\ tt'[t] = tt[t] /\ slot'[t] = slot[t]
                                   /\ state'[t] = state[t] /\ to_enable'[t] = to_enable[t]
                                   /\ symbol_pos'[t] = symbol_pos[t],
           current'[b] = current[b], queue_cells'[b] = queue_cells[b],
           dedup_bs'[b] = dedup_bs[b], tail'[b] = tail[b], next_tail'[b] = next_tail[b],
           is_active_state1'[b] = is_active_state1[b],
           reports \subseteq reports', \A r \in reports' : r[1] = b => r \in reports
    PROVE  BlockStage(b)'
<1>0. /\ TypeOK /\ Lead(b) \in ThreadsOf(b) /\ \A t \in ThreadsOf(b) : t[1] = b
  BY ThreadFacts DEF IInv
<1>1. /\ nfa(b)' = nfa(b) /\ input(b)' = input(b) /\ Table' = Table /\ ColdAfterHot' = ColdAfterHot
      /\ PhaseOf(b)' = PhaseOf(b) /\ Pos(b)' = Pos(b) /\ \A t : Mine(t)' = Mine(t)
  BY <1>0 DEF nfa, input, Table, ColdAfterHot, PhaseOf, Pos, Mine, DedupWords
<1>2. Positions(b)'
  <2>1. \A r \in reports' : r[1] = b => \/ r[2] < Pos(b)
                                        \/ r[2] = Pos(b) /\ PhaseOf(b) \in {2, 3}
    BY DEF BlockStage, Positions
  <2>2. \A t \in ThreadsOf(b) : symbol_pos'[t] = Pos(b)
    BY DEF BlockStage, Positions
  <2>3. Positions(b)
    BY DEF BlockStage
  <2> QED
    BY <1>1, <2>1, <2>2, <2>3 DEF Positions
<1>3. ASSUME NEW t \in ThreadsOf(b) PROVE Cleared(t)'
  <2>1. Cleared(t) /\ t[1] = b
    BY <1>0 DEF BlockStage
  <2> QED
    BY <1>1, <2>1 DEF Cleared
<1>4. ASSUME PhaseOf(b) = 2 PROVE Stage(b)'
  <2>1. SameWork(b) /\ Grows(b)
    BY <1>0 DEF SameWork, SameQueue, Grows
  <2>2. Unmoved(b) /\ DoneStays(b)
    BY <1>0, <1>4, <2>1, ShareFacts, SameWorkFacts
  <2>3. Stage(b)
    BY <1>4 DEF BlockStage
  <2>4. \A x : <<b, Pos(b), x>> \in reports' => <<b, Pos(b), x>> \in reports
    BY DEF Pos
  <2>5. ASSUME NEW t \in ThreadsOf(b) PROVE AtWork(t)' /\ Done(t)' /\ Once(t)'
    BY <1>0, <2>2, <2>3, <2>4, Bystander DEF Stage
  <2>6. OnlyWanted(b)'
    BY <2>2, <2>3, NothingNew DEF Stage
  <2>7. Kept(b)'
    <3>1. /\ Queueing(b)' = Queueing(b) /\ Claiming(b)' = Claiming(b)
          /\ Claiming(b) \subseteq ThreadsOf(b) /\ Queueing(b) \subseteq ThreadsOf(b)
      BY DEF Queueing, Claiming, ThreadsOf
    <3>2. Written(b)' = Written(b)
      BY <3>1 DEF Written
    <3>3. \A i : Cell(b, i)' = Cell(b, i)
      BY DEF Cell, next
    <3>4. \A e : Marked(b, e)' = Marked(b, e)
      BY <1>1 DEF Marked
    <3>5. Kept(b)
      BY <2>3 DEF Stage
    <3> QED
      BY <1>1, <3>1, <3>2, <3>3, <3>4, <3>5 DEF Kept
  <2> QED
    BY <2>5, <2>6, <2>7 DEF Stage, ThreadsOf
<1> QED
  BY <1>1, <1>2, <1>3, <1>4 DEF BlockStage, ThreadsOf

\* A step of a thread leaves the other blocks alone, and its own in its phase and
\* at its symbol.
LEMMA ThreadFrame ==
    ASSUME IInv, job' = job, NEW t \in Thread, ThreadStep(t)
    PROVE  /\ symbol_pos' = symbol_pos /\ reports \subseteq reports'
           /\ Phase(pc'[t]) = Phase(pc[t]) /\ PhaseOf(t[1])' = PhaseOf(t[1])
           /\ \A r \in reports' : r \in reports \/ (/\ r[1] = t[1] /\ r[2] = symbol_pos[t]
                                                    /\ PhaseOf(t[1]) = 2)
           /\ \A u \in Thread : u # t => /\ pc'[u] = pc[u] /\ tt'[u] = tt[u] /\ slot'[u] = slot[u]
                                         /\ state'[u] = state[u] /\ to_enable'[u] = to_enable[u]
           /\ \A c \in Block : c # t[1] =>
                 /\ current'[c] = current[c] /\ queue_cells'[c] = queue_cells[c]
                 /\ dedup_bs'[c] = dedup_bs[c] /\ tail'[c] = tail[c]
                 /\ next_tail'[c] = next_tail[c] /\ is_active_state1'[c] = is_active_state1[c]
           /\ PhaseOf(t[1]) # 2 => dedup_bs'[t[1]] \subseteq dedup_bs[t[1]]
<1> DEFINE b == t[1]
<1>0. /\ TypeOK /\ b \in Block /\ Lead(b) \in Thread /\ Phase(pc[t]) = PhaseOf(b)
      /\ Lead(b) \in ThreadsOf(b)
  BY ThreadFacts, PhaseFacts DEF IInv
<1> USE DEF ThreadStep
<1>1. symbol_pos' = symbol_pos /\ reports \subseteq reports'
  BY DEF Begin, Prepare, HotStage, ColdStage, EnableHot, Dedup, Push, Store, ReportEntry, Report,
         CopyQueue, Update, Reported
<1>2. /\ \/ state' = state \/ \E x : state' = [state EXCEPT ![t] = x]
      /\ \/ to_enable' = to_enable \/ \E x : to_enable' = [to_enable EXCEPT ![t] = x]
  <2>1. CASE HotStage(t) BY <2>1 DEF HotStage, Fire
  <2>2. CASE ColdStage(t) BY <2>2 DEF ColdStage, Fire
  <2>3. CASE EnableHot(t) BY <2>3 DEF EnableHot
  <2>4. CASE Dedup(t) BY <2>4 DEF Dedup
  <2>5. CASE UNCHANGED <<state, to_enable>> BY <2>5
  <2> QED
    BY <2>1, <2>2, <2>3, <2>4, <2>5 DEF Begin, Prepare, Push, Store, ReportEntry, Report,
         CopyQueue, Update
<1>3. \A u \in Thread : u # t => /\ pc'[u] = pc[u] /\ tt'[u] = tt[u] /\ slot'[u] = slot[u]
                                 /\ state'[u] = state[u] /\ to_enable'[u] = to_enable[u]
  <2>1. \A u \in Thread : u # t => state'[u] = state[u] /\ to_enable'[u] = to_enable[u]
    BY <1>0, <1>2 DEF TypeOK
  <2> QED
    BY <1>0, <2>1, Elsewhere
<1>4. \A c \in Block : c # b => is_active_state1'[c] = is_active_state1[c]
  <2>1. is_active_state1' = is_active_state1 \/ \E x : is_active_state1' = [is_active_state1 EXCEPT ![b] = x]
    <3>1. CASE EnableHot(t) BY <3>1 DEF EnableHot
    <3>2. CASE Begin(t) BY <3>2 DEF Begin
    <3>3. CASE Update(t) BY <3>3 DEF Update
    <3>4. CASE is_active_state1' = is_active_state1 BY <3>4
    <3> QED
      BY <3>1, <3>2, <3>3, <3>4 DEF Prepare, HotStage, ColdStage, Dedup, Push, Store, ReportEntry,
         Report, CopyQueue, shared
  <2> QED
    BY <1>0, <2>1 DEF TypeOK
<1>5. Phase(pc'[t]) = Phase(pc[t])
  <2>1. pc \in [Thread -> PCs]
    BY <1>0 DEF TypeOK
  <2>2. CASE Begin(t) BY <2>1, <2>2 DEF Begin, Goto, Phase
  <2>3. CASE Prepare(t) BY <2>1, <2>3 DEF Prepare, Goto, Phase
  <2>4. CASE HotStage(t) BY <2>1, <2>4 DEF HotStage, Goto, Phase
  <2>5. CASE ColdStage(t) BY <2>1, <2>5 DEF ColdStage, Goto, Phase
  <2>6. CASE EnableHot(t) BY <2>1, <2>6 DEF EnableHot, Goto, Phase
  <2>7. CASE Dedup(t) BY <2>1, <2>7 DEF Dedup, Goto, Phase, Visited
  <2>8. CASE Push(t) BY <2>1, <2>8 DEF Push, Goto, Phase
  <2>9. CASE Store(t) BY <2>1, <2>9 DEF Store, Goto, Phase, Visited
  <2>10. CASE ReportEntry(t) BY <2>1, <2>10 DEF ReportEntry, Goto, Phase
  <2>11. CASE Report(t) BY <2>1, <2>11 DEF Report, Goto, Phase
  <2>12. CASE CopyQueue(t) BY <2>1, <2>12 DEF CopyQueue, Goto, Phase
  <2>13. CASE Update(t) BY <2>1, <2>13 DEF Update, Goto, Phase
  <2> QED
    BY <2>2, <2>3, <2>4, <2>5, <2>6, <2>7, <2>8, <2>9, <2>10, <2>11, <2>12, <2>13
<1>6. PhaseOf(b)' = PhaseOf(b)
  <2>1. CASE t = Lead(b)
    BY <1>5, <2>1 DEF PhaseOf, Lead
  <2>2. CASE t # Lead(b)
    BY <1>0, <1>3, <2>2 DEF PhaseOf, Lead
  <2> QED
    BY <2>1, <2>2
<1>7. ASSUME NEW r \in reports', r \notin reports
      PROVE  r[1] = b /\ r[2] = symbol_pos[t] /\ PhaseOf(b) = 2
  <2>1. ReportEntry(t) \/ Report(t)
    BY <1>7 DEF Begin, Prepare, HotStage, ColdStage, EnableHot, Dedup, Push, Store, CopyQueue, Update
  <2>2. pc[t] \in {"entry", "enable"} /\ \E s : Reported(t, s)
    BY <1>7, <2>1 DEF ReportEntry, Report, Goto
  <2> QED
    BY <1>0, <1>7, <2>2 DEF Reported, Phase
<1>8. ASSUME PhaseOf(b) # 2 PROVE dedup_bs'[b] \subseteq dedup_bs[b]
  <2>1. pc[t] \notin {"hot", "cold", "enable", "push", "store", "entry"}
    BY <1>0, <1>8 DEF Phase
  <2>2. Begin(t) \/ Prepare(t) \/ CopyQueue(t) \/ Update(t)
    BY <2>1 DEF HotStage, ColdStage, EnableHot, Dedup, Push, Store, ReportEntry, Report, Goto
  <2>3. dedup_bs' = dedup_bs \/ dedup_bs' = [dedup_bs EXCEPT ![b] = @ \ Mine(t)]
    BY <2>2 DEF Begin, Prepare, CopyQueue, Update
  <2> QED
    BY <1>0, <2>3 DEF TypeOK
<1>9. \A c \in Block : c # b =>
         /\ current'[c] = current[c] /\ queue_cells'[c] = queue_cells[c]
         /\ dedup_bs'[c] = dedup_bs[c] /\ tail'[c] = tail[c] /\ next_tail'[c] = next_tail[c]
  BY <1>0, Elsewhere
<1> QED
  BY <1>1, <1>3, <1>4, <1>5, <1>6, <1>7, <1>8, <1>9

\* The cells of two hot states.
LEMMA CellsApart ==
    ASSUME TypeOK, NEW b \in Block, NEW s \in Hot(nfa(b)), NEW u \in Hot(nfa(b)), s # u
    PROVE  s \notin {u, u + BlockDim} /\ s + BlockDim \notin {u, u + BlockDim} /\ s # s + BlockDim
<1>1. s \in Nat /\ u \in Nat /\ BlockDim \in Nat \ {0} /\ s < BlockDim /\ u < BlockDim
  BY BlockFacts, BlockDimAssumption DEF Hot, Tid, KernelNetwork
<1> QED
  BY <1>1

\* What is cleared stays so until the stages.
LEMMA ThreadClears ==
    ASSUME AllRoomy, IInv, job' = job, NEW t \in Thread, ThreadStep(t), NEW u \in ThreadsOf(t[1]), Cleared(u)
    PROVE  Cleared(u)'
<1> DEFINE b == t[1]
           s == u[2]
           cells == is_active_state1[b]
<1>0. /\ TypeOK /\ b \in Block /\ u \in Thread /\ u[1] = b /\ t \in ThreadsOf(b) /\ t = <<b, t[2]>> /\ u = <<b, s>>
      /\ nfa(b)' = nfa(b) /\ ColdAfterHot' = ColdAfterHot /\ Mine(u)' = Mine(u)
      /\ Phase(pc[u]) = PhaseOf(b) /\ Phase(pc[t]) = PhaseOf(b)
  <2>1. /\ TypeOK /\ b \in Block /\ u \in Thread /\ u[1] = b /\ t \in ThreadsOf(b) /\ t = <<b, t[2]>> /\ u = <<b, s>>
    BY ThreadFacts DEF IInv
  <2>2. nfa(b)' = nfa(b) /\ ColdAfterHot' = ColdAfterHot /\ Mine(u)' = Mine(u)
    BY DEF nfa, ColdAfterHot, Mine, DedupWords
  <2>3. Phase(pc[u]) = PhaseOf(b) /\ Phase(pc[t]) = PhaseOf(b)
    BY <2>1, PhaseFacts
  <2> QED
    BY <2>1, <2>2, <2>3
<1>1. CASE PhaseOf(b) = 2
  <2>1. Phase(pc'[u]) = 2
    BY <1>0, <1>1, ThreadFrame
  <2> QED
    BY <1>0, <2>1 DEF Cleared, Phase
<1>2. CASE PhaseOf(b) # 2
  <2>1. pc[t] \notin {"hot", "cold", "enable", "push", "store", "entry"}
    BY <1>0, <1>2 DEF Phase
  <2>2. Begin(t) \/ Prepare(t) \/ CopyQueue(t) \/ Update(t)
    BY <2>1 DEF ThreadStep, HotStage, ColdStage, EnableHot, Dedup, Push, Store, ReportEntry, Report, Goto
  <2>3. pc'[u] = "sync1" => dedup_bs'[b] \cap Mine(u) = {}
    <3>1. dedup_bs'[b] \subseteq dedup_bs[b]
      BY <1>2, ThreadFrame
    <3>2. CASE u # t
      BY <1>0, <3>1, <3>2, ThreadFrame DEF Cleared
    <3>3. CASE u = t
      <4>1. ASSUME Prepare(t) PROVE dedup_bs'[b] \cap Mine(u) = {}
        BY <1>0, <3>3, <4>1 DEF Prepare, TypeOK
      <4>2. CASE Begin(t) BY <1>0, <3>3, <4>2 DEF Begin, Goto, TypeOK
      <4>3. CASE CopyQueue(t) BY <1>0, <3>3, <4>3 DEF CopyQueue, Goto, TypeOK
      <4>4. CASE Update(t) BY <1>0, <3>3, <4>4 DEF Update, Goto, TypeOK
      <4> QED
        BY <2>2, <4>1, <4>2, <4>3, <4>4
    <3> QED
      BY <3>2, <3>3
  <2>4. ASSUME ColdAfterHot, s \in Hot(nfa(b))
        PROVE  /\ pc'[u] \notin {"init", "update"} => s + BlockDim \notin is_active_state1'[b]
               /\ pc'[u] = "sync0" => (s \in is_active_state1'[b] <=> s \in nfa(b).start)
    <3>1. /\ pc[u] \notin {"init", "update"} => s + BlockDim \notin cells
          /\ pc[u] = "sync0" => (s \in cells <=> s \in nfa(b).start)
      BY <1>0, <1>2, <2>4 DEF Cleared
    <3>2. CASE u # t
      <4>1. pc'[u] = pc[u]
        BY <1>0, <3>2, ThreadFrame
      <4>2. /\ s + BlockDim \in is_active_state1'[b] => s + BlockDim \in cells
            /\ s \in is_active_state1'[b] <=> s \in cells
        <5>1. \/ is_active_state1' = is_active_state1
              \/ /\ t[2] \in Hot(nfa(b))
                 /\ \E x : is_active_state1' = [is_active_state1 EXCEPT ![b] = Promoted(b, t[2], x)]
          BY <2>2 DEF Begin, Prepare, CopyQueue, Update
        <5>2. ASSUME NEW x, t[2] \in Hot(nfa(b)),
                     is_active_state1' = [is_active_state1 EXCEPT ![b] = Promoted(b, t[2], x)]
              PROVE  /\ s + BlockDim \in is_active_state1'[b] => s + BlockDim \in cells
                     /\ s \in is_active_state1'[b] <=> s \in cells
          <6>1. is_active_state1'[b] = Promoted(b, t[2], x)
            BY <1>0, <5>2 DEF TypeOK
          <6>2. s # t[2]
            BY <1>0, <3>2
          <6> QED
            BY <1>0, <2>4, <5>2, <6>1, <6>2, CellsApart DEF Promoted
        <5> QED
          BY <5>1, <5>2
      <4> QED
        BY <3>1, <4>1, <4>2
    <3>3. CASE u = t
      <4>1. CASE Begin(t)
        <5>1. is_active_state1'[b] = Promoted(b, s, s \in nfa(b).start)
          BY <1>0, <2>4, <3>3, <4>1 DEF Begin, TypeOK
        <5>2. s # s + BlockDim
          BY <1>0, <2>4, BlockDimAssumption DEF Hot
        <5> QED
          BY <5>1, <5>2 DEF Promoted
      <4>2. CASE Update(t)
        <5>1. \E x : is_active_state1'[b] = Promoted(b, s, x)
          BY <1>0, <2>4, <3>3, <4>2 DEF Update, TypeOK
        <5>2. s # s + BlockDim
          BY <1>0, <2>4, BlockDimAssumption DEF Hot
        <5>3. pc'[u] = "sync3"
          BY <1>0, <3>3, <4>2 DEF Update, Goto, TypeOK
        <5> QED
          BY <5>1, <5>2, <5>3 DEF Promoted
      <4>3. CASE Prepare(t) \/ CopyQueue(t)
        <5>1. is_active_state1' = is_active_state1 /\ pc[u] \in {"prepare", "copy"} /\ pc'[u] \in {"sync1", "copy", "sync3"}
          BY <1>0, <3>3, <4>3 DEF Prepare, CopyQueue, Goto, TypeOK
        <5> QED
          BY <3>1, <5>1
      <4> QED
        BY <2>2, <4>1, <4>2, <4>3
    <3> QED
      BY <3>2, <3>3
  <2> QED
    BY <1>0, <2>3, <2>4 DEF Cleared
<1> QED
  BY <1>1, <1>2

\* A thread's step keeps the stage invariant of every block.
LEMMA ThreadStages ==
    ASSUME AllRoomy, IInv, job' = job, NEW t \in Thread, ThreadStep(t), NEW c \in Block, BlockStage(c)
    PROVE  BlockStage(c)'
<1>0. /\ TypeOK /\ \A u \in ThreadsOf(c) : u \in Thread /\ u[1] = c
      /\ t \in ThreadsOf(t[1]) /\ Lead(c) \in ThreadsOf(c)
  BY ThreadFacts DEF IInv
<1>1. CASE c # t[1]
  <2>1. \A u \in ThreadsOf(c) : u # t
    BY <1>0, <1>1
  <2>2. \A r \in reports' : r[1] = c => r \in reports
    BY <1>1, ThreadFrame
  <2>3. /\ \A u \in ThreadsOf(c) : /\ pc'[u] = pc[u] /\ tt'[u] = tt[u] /\ slot'[u] = slot[u]
                                   /\ state'[u] = state[u] /\ to_enable'[u] = to_enable[u]
                                   /\ symbol_pos'[u] = symbol_pos[u]
        /\ current'[c] = current[c] /\ queue_cells'[c] = queue_cells[c]
        /\ dedup_bs'[c] = dedup_bs[c] /\ tail'[c] = tail[c]
        /\ next_tail'[c] = next_tail[c] /\ is_active_state1'[c] = is_active_state1[c]
        /\ reports \subseteq reports'
    BY <1>0, <1>1, <2>1, ThreadFrame
  <2> QED
    BY <2>2, <2>3, StageKept
<1>2. CASE c = t[1]
  <2>1. Positions(c) /\ PhaseOf(c)' = PhaseOf(c) /\ symbol_pos' = symbol_pos
    BY <1>2, ThreadFrame DEF BlockStage
  <2>2. Positions(c)'
    <3>1. Pos(c)' = Pos(c) /\ input(c)' = input(c) /\ symbol_pos[t] = Pos(c)
      BY <1>0, <1>2, <2>1 DEF Pos, input, Positions
    <3>2. \A r \in reports' : r \in reports \/ (r[2] = Pos(c) /\ PhaseOf(c) = 2)
      BY <1>2, <3>1, ThreadFrame
    <3>3. \A r \in reports' : r[1] = c => r[2] < Pos(c) \/ (r[2] = Pos(c) /\ PhaseOf(c) \in {2, 3})
      BY <2>1, <3>2 DEF Positions
    <3> QED
      BY <2>1, <3>1, <3>3 DEF Positions, ThreadsOf
  <2>3. \A u \in ThreadsOf(c) : Cleared(u)'
    BY <1>2, ThreadClears DEF BlockStage
  <2>4. PhaseOf(c) = 2 => Stage(c)'
    <3>1. ASSUME PhaseOf(c) = 2 PROVE Works(t)
      <4>1. Phase(pc[t]) = 2
        BY <1>2, <3>1, PhaseFacts
      <4>2. pc[t] \notin {"init", "prepare", "copy", "update"}
        BY <4>1 DEF Phase
      <4> QED
        BY <4>2 DEF ThreadStep, Works, Begin, Prepare, CopyQueue, Update, Goto
    <3> QED
      BY <1>2, <2>1, <3>1, StageWorks DEF BlockStage
  <2> QED
    BY <2>1, <2>2, <2>3, <2>4 DEF BlockStage, ThreadsOf
<1> QED
  BY <1>1, <1>2

-----------------------------------------------------------------------------
(* The barriers.                                                             *)

\* The bitset has a word for each cold state, and some thread clears it.
LEMMA WordsFit ==
    ASSUME TypeOK, NEW b \in Block, NEW e \in Cold(nfa(b))
    PROVE  \E t \in ThreadsOf(b) : e - nfa(b).hot \in Mine(t)
<1> DEFINE words == { (k + 31) \div 32 : k \in { nfa(c).size - nfa(c).hot : c \in Block } }
           T == { m \in Nat : \A w \in words : w <= m }
           k == nfa(b).size - nfa(b).hot
           w == (e - nfa(b).hot) \div 32
<1>1. \A c \in Block : /\ nfa(c).size \in Nat /\ nfa(c).hot \in Nat
                       /\ nfa(c).hot <= nfa(c).size /\ nfa(c).size <= 65536
  BY BlockFacts, BlockDimAssumption DEF KernelNetwork
<1>2. \A x \in words : x \in Nat /\ x <= 65536
  <2>1. ASSUME NEW c \in Block
        PROVE  /\ ((nfa(c).size - nfa(c).hot) + 31) \div 32 \in Nat
               /\ ((nfa(c).size - nfa(c).hot) + 31) \div 32 <= 65536
    <3> DEFINE i == nfa(c).size - nfa(c).hot
    <3>1. i \in Nat /\ i <= 65536
      BY <1>1
    <3> HIDE DEF i
    <3>2. (i + 31) \div 32 \in Nat /\ (i + 31) \div 32 <= 65536
      BY <3>1
    <3> QED
      BY <3>2 DEF i
  <2> QED
    BY <2>1
<1>3. 65536 \in T
  BY <1>2
<1>4. PICK m \in T : \A i \in T : m <= i
  <2>1. T \subseteq Nat
    OBVIOUS
  <2> HIDE DEF T
  <2>2. T # {}
    BY <1>3
  <2> QED
    BY <2>1, <2>2, Least
<1>5. m \in words
  <2>1. k \in { nfa(c).size - nfa(c).hot : c \in Block }
    OBVIOUS
  <2>2. \E x \in words : TRUE
    BY <2>1
  <2> HIDE DEF words
  <2>3. SUFFICES ASSUME m \notin words PROVE FALSE
    OBVIOUS
  <2>4. \A x \in words : x <= m - 1
    BY <1>2, <2>3
  <2>5. m - 1 \in T
    BY <1>2, <2>2, <2>4
  <2> QED
    BY <1>4, <2>5
<1>6. \A x \in words : x <= DedupWords
  <2>1. \A i \in { nfa(c).size - nfa(c).hot : c \in Block } : (i + 31) \div 32 <= m
    <3>1. \A x \in words : x <= m
      OBVIOUS
    <3> QED
      BY <3>1
  <2>2. \A i \in { nfa(c).size - nfa(c).hot : c \in Block } : (i + 31) \div 32 <= DedupWords
    BY <1>5, <2>1 DEF DedupWords
  <2> QED
    BY <2>2
<1>7. (k + 31) \div 32 <= DedupWords /\ DedupWords \in Nat
  <2>1. DedupWords \in words
    BY <1>5 DEF DedupWords
  <2>2. (k + 31) \div 32 \in words
    OBVIOUS
  <2> HIDE DEF words, k
  <2> QED
    BY <1>2, <1>6, <2>1, <2>2
<1>8. e - nfa(b).hot \in 0 .. k - 1 /\ k \in Nat
  BY <1>1 DEF Cold, Sids, Hot
<1> HIDE DEF k, words, T
<1>9. w \in Nat /\ w < (k + 31) \div 32 /\ e - nfa(b).hot \in Word(w)
  <2> DEFINE i == e - nfa(b).hot
  <2>0. i \in 0 .. k - 1
    BY <1>8
  <2> HIDE DEF i
  <2>1. i \div 32 \in Nat /\ i \div 32 < (k + 31) \div 32
    BY <1>8, <2>0
  <2>2. i \in 32 * (i \div 32) .. 32 * (i \div 32) + 31
    BY <1>8, <2>0
  <2> QED
    BY <2>1, <2>2 DEF i, Word
<1> HIDE DEF w
<1>10. w \in 0 .. DedupWords - 1
  <2>1. (k + 31) \div 32 \in Int
    BY <1>8
  <2> QED
    BY <1>7, <1>9, <2>1
<1>11. <<b, w % BlockDim>> \in ThreadsOf(b)
  BY <1>9, Strides, ThreadFacts
<1>12. e - nfa(b).hot \in Mine(<<b, w % BlockDim>>)
  BY <1>9, <1>10 DEF Mine
<1> QED
  BY <1>11, <1>12

\* The stages begin with nothing done.
LEMMA StagesBegin ==
    ASSUME IInv, job' = job, NEW b \in Block, Sync1(b), BlockStage(b)
    PROVE  Stage(b)'
<1>0. /\ TypeOK /\ \A t \in ThreadsOf(b) : t \in Thread /\ t[1] = b /\ t[2] \in Tid /\ t = <<b, t[2]>>
      /\ Lead(b) \in ThreadsOf(b) /\ nfa(b)' = nfa(b) /\ ColdAfterHot' = ColdAfterHot
      /\ Hot(nfa(b)) \subseteq Tid /\ \A i \in Tid : <<b, i>> \in ThreadsOf(b)
  <2>1. TypeOK
    BY DEF IInv
  <2>2. nfa(b)' = nfa(b) /\ ColdAfterHot' = ColdAfterHot
    BY DEF nfa, ColdAfterHot
  <2>3. \A t \in ThreadsOf(b) : t \in Thread /\ t[1] = b /\ t[2] \in Tid /\ t = <<b, t[2]>>
    BY ThreadFacts
  <2>4. Lead(b) \in ThreadsOf(b) /\ \A i \in Tid : <<b, i>> \in ThreadsOf(b)
    BY ThreadFacts
  <2>5. Hot(nfa(b)) \subseteq Tid
    BY <2>1, BlockFacts
  <2> QED
    BY <2>1, <2>2, <2>3, <2>4, <2>5
<1>1. \A t \in ThreadsOf(b) : pc[t] = "sync1" /\ pc'[t] = "hot"
  BY <1>0 DEF Sync1, Barrier
<1>2. UNCHANGED <<symbol_pos, shared, reports>>
  BY DEF Sync1, Barrier
<1>3. PhaseOf(b) = 1
  BY <1>0, <1>1 DEF PhaseOf, Phase
<1>4. \A x : <<b, Pos(b), x>> \notin reports
  <2>1. ASSUME NEW x, <<b, Pos(b), x>> \in reports PROVE FALSE
    <3>1. Pos(b) < Pos(b)
      <4>1. <<b, Pos(b), x>>[2] < Pos(b)
        BY <1>3, <2>1 DEF BlockStage, Positions
      <4> QED
        BY <4>1
    <3>2. Pos(b) \in Nat
      BY <1>0 DEF Pos, TypeOK
    <3> QED
      BY <3>1, <3>2
  <2> QED
    BY <2>1
<1>5. Pos(b)' = Pos(b)
  BY <1>2 DEF Pos
<1>6. \A e \in Cold(nfa(b)) : ~Marked(b, e)
  <2>1. ASSUME NEW e \in Cold(nfa(b)), Marked(b, e) PROVE FALSE
    <3>1. PICK t \in ThreadsOf(b) : e - nfa(b).hot \in Mine(t)
      BY <1>0, WordsFit
    <3>2. dedup_bs[b] \cap Mine(t) = {}
      BY <1>0, <1>1 DEF BlockStage, Cleared
    <3> QED
      BY <2>1, <3>1, <3>2 DEF Marked
  <2> QED
    BY <2>1
<1>7. \A e : Marked(b, e)' = Marked(b, e)
  BY <1>0, <1>2 DEF Marked, shared
<1>8. ColdAfterHot => \A s \in Hot(nfa(b)) : s + BlockDim \notin is_active_state1[b]
  <2>1. ASSUME ColdAfterHot, NEW s \in Hot(nfa(b)) PROVE s + BlockDim \notin is_active_state1[b]
    <3>1. Cleared(<<b, s>>) /\ pc[<<b, s>>] = "sync1"
      BY <1>0, <1>1 DEF BlockStage
    <3> QED
      BY <2>1, <3>1 DEF Cleared, Phase
  <2> QED
    BY <2>1
<1>9. ASSUME NEW t \in ThreadsOf(b) PROVE AtWork(t)' /\ Done(t)' /\ Once(t)'
  <2>1. pc'[t] = "hot"
    BY <1>1
  <2>2. HotDue(t)' /\ \A i : ColdDue(t, i)'
    BY <2>1 DEF HotDue, ColdDue
  <2>3. AtWork(t)'
    BY <2>1 DEF AtWork, Working
  <2>4. Done(t)'
    BY <2>2 DEF Done
  <2>5. Once(t)'
    BY <1>0, <1>2, <1>4, <1>5 DEF Once
  <2> QED
    BY <2>3, <2>4, <2>5
<1>10. OnlyWanted(b)'
  <2>1. \A r \in reports' : r[1] = b /\ r[2] = Pos(b)' => FALSE
    <3>1. reports \subseteq Block \X Nat \X Nat
      BY <1>0 DEF TypeOK
    <3>2. \A r \in reports : r[1] = b /\ r[2] = Pos(b) => r = <<b, Pos(b), r[3]>>
      BY <3>1
    <3> QED
      BY <1>2, <1>4, <1>5, <3>2
  <2> QED
    BY <1>0, <1>2, <1>6, <1>7, <1>8, <2>1 DEF OnlyWanted, shared
<1>11. Kept(b)'
  BY <1>0, <1>6, <1>7 DEF Kept
<1> QED
  BY <1>9, <1>10, <1>11 DEF Stage, ThreadsOf

\* What a barrier leaves as it is.
LEMMA BarrierFrame ==
    ASSUME IInv, job' = job, NEW b \in Block, BlockStep(b)
    PROVE  /\ reports' = reports
           /\ \A c \in Block : c # b =>
                 \A t \in ThreadsOf(c) :
                    /\ pc'[t] = pc[t] /\ tt'[t] = tt[t] /\ slot'[t] = slot[t]
                    /\ state'[t] = state[t] /\ to_enable'[t] = to_enable[t]
                    /\ symbol_pos'[t] = symbol_pos[t]
           /\ UNCHANGED <<tt, state, to_enable, slot, shared, reports, count, printed, report_file>>
<1>1. PICK at, to : Barrier(b, at, to)
  BY DEF BlockStep, Sync0, Sync1, Sync2, Sync2BeforeCopy, Sync2BeforeUpdate, Sync3, EndSymbol
<1>2. \/ symbol_pos' = symbol_pos
      \/ symbol_pos' = [t \in Thread |-> IF t[1] = b THEN symbol_pos[t] + 1 ELSE symbol_pos[t]]
  BY DEF BlockStep, Sync0, Sync1, Sync2, Sync2BeforeCopy, Sync2BeforeUpdate, Sync3, EndSymbol
<1>3. ASSUME NEW c \in Block, c # b, NEW t \in ThreadsOf(c)
      PROVE  pc'[t] = pc[t] /\ symbol_pos'[t] = symbol_pos[t]
  <2>1. t \in Thread /\ t[1] # b
    BY <1>3, ThreadFacts
  <2> QED
    BY <1>1, <1>2, <2>1 DEF Barrier
<1> QED
  BY <1>1, <1>3 DEF Barrier

\* The other side of the last barrier of a symbol, and of the first of all.
LEMMA NextSymbol ==
    ASSUME IInv, job' = job, NEW b \in Block, BlockStage(b), NEW at,
           \/ EndSymbol(b, at) /\ at \in {"sync2", "sync3"}
           \/ at = "sync0" /\ Barrier(b, "sync0", LoopTest(b, 0)) /\ symbol_pos' = symbol_pos
    PROVE  Positions(b)' /\ PhaseOf(b)' # 2 /\ \A t \in ThreadsOf(b) : pc'[t] \in {"prepare", "done"}
<1> DEFINE p == IF at = "sync0" THEN Pos(b) ELSE Pos(b) + 1
<1>0. /\ TypeOK /\ \A t \in ThreadsOf(b) : t \in Thread /\ t[1] = b
      /\ Lead(b) \in ThreadsOf(b)
  BY ThreadFacts DEF IInv
<1>1. input(b) \in Seq(Byte) /\ input(b)' = input(b)
  BY <1>0, BlockFacts DEF input
<1>2. Len(input(b)) \in Nat /\ Pos(b) \in Nat
  BY <1>0, <1>1 DEF Pos, TypeOK
<1>3. \A t \in ThreadsOf(b) : pc[t] = at
  BY <1>0 DEF EndSymbol, Barrier
<1>4. pc[Lead(b)] = at
  BY <1>0, <1>3
<1>5. at = "sync0" => PhaseOf(b) = 0 /\ Pos(b) = 0
  BY <1>4 DEF PhaseOf, Phase, BlockStage, Positions
<1>6. at # "sync0" => PhaseOf(b) \in {2, 3} /\ Pos(b) < Len(input(b))
  <2>1. at # "sync0" => PhaseOf(b) \in {2, 3}
    BY <1>4 DEF PhaseOf, Phase
  <2> QED
    BY <2>1 DEF BlockStage, Positions
<1>7. \A t \in ThreadsOf(b) : symbol_pos'[t] = p
  <2>1. \A t \in ThreadsOf(b) : symbol_pos[t] = Pos(b)
    BY DEF BlockStage, Positions
  <2> QED
    BY <1>0, <2>1 DEF EndSymbol
<1>8. reports' = reports
  BY DEF EndSymbol, Barrier
<1>9. \A t \in ThreadsOf(b) : pc'[t] = IF p < Len(input(b)) THEN "prepare" ELSE "done"
  <2>1. symbol_pos[<<b, 0>>] = Pos(b)
    BY DEF Pos, Lead
  <2>2. \/ at = "sync0" /\ Barrier(b, at, LoopTest(b, 0))
        \/ at # "sync0" /\ Barrier(b, at, LoopTest(b, Pos(b) + 1))
    BY <2>1 DEF EndSymbol
  <2>3. Barrier(b, at, LoopTest(b, p))
    BY <1>5, <2>2
  <2> HIDE DEF p
  <2> QED
    BY <1>0, <2>3 DEF Barrier, LoopTest
<1>10. p <= Len(input(b)) /\ p \in Nat
  BY <1>2, <1>5, <1>6
<1>11. \A r \in reports' : r[1] = b => r[2] < p
  <2>1. reports \subseteq Block \X Nat \X Nat
    BY <1>0 DEF TypeOK
  <2>2. ASSUME NEW r \in reports, r[1] = b PROVE r[2] < p
    <3>1. r[2] \in Nat /\ (r[2] < Pos(b) \/ (r[2] = Pos(b) /\ PhaseOf(b) \in {2, 3}))
      BY <2>1, <2>2 DEF BlockStage, Positions
    <3> QED
      BY <1>2, <1>5, <3>1
  <2> QED
    BY <1>8, <2>2
<1> HIDE DEF p
<1>12. Pos(b)' = p /\ pc'[Lead(b)] = IF p < Len(input(b)) THEN "prepare" ELSE "done"
  BY <1>0, <1>7, <1>9 DEF Pos, Lead
<1>13. PhaseOf(b)' = IF p < Len(input(b)) THEN 1 ELSE 4
  BY <1>12 DEF PhaseOf, Phase
<1>14. Positions(b)'
  <2>1. \A t \in ThreadsOf(b)' : symbol_pos'[t] = Pos(b)'
    BY <1>7, <1>12 DEF ThreadsOf
  <2>2. PhaseOf(b)' # 0 /\ (PhaseOf(b)' \in {1, 2, 3} => p < Len(input(b)))
    BY <1>13
  <2>3. PhaseOf(b)' = 4 => p = Len(input(b))
    BY <1>2, <1>10, <1>13
  <2> QED
    BY <1>1, <1>11, <1>12, <2>1, <2>2, <2>3 DEF Positions
<1> QED
  BY <1>9, <1>13, <1>14

\* So does a barrier.
LEMMA BarrierStages ==
    ASSUME IInv, job' = job, NEW b \in Block, BlockStep(b), NEW c \in Block, BlockStage(c)
    PROVE  BlockStage(c)'
<1>0. TypeOK
  BY DEF IInv
<1>1. CASE c # b
  <2>1. /\ current'[c] = current[c] /\ queue_cells'[c] = queue_cells[c]
        /\ dedup_bs'[c] = dedup_bs[c] /\ tail'[c] = tail[c] /\ next_tail'[c] = next_tail[c]
        /\ is_active_state1'[c] = is_active_state1[c]
        /\ reports \subseteq reports' /\ \A r \in reports' : r[1] = c => r \in reports
    BY BarrierFrame DEF shared
  <2>2. \A t \in ThreadsOf(c) : /\ pc'[t] = pc[t] /\ tt'[t] = tt[t] /\ slot'[t] = slot[t]
                                /\ state'[t] = state[t] /\ to_enable'[t] = to_enable[t]
                                /\ symbol_pos'[t] = symbol_pos[t]
    BY <1>1, BarrierFrame
  <2> QED
    BY <2>1, <2>2, StageKept
<1>2. CASE c = b
  <2>0. /\ \A t \in ThreadsOf(b) : t \in Thread /\ t[1] = b
        /\ Lead(b) \in ThreadsOf(b) /\ nfa(b)' = nfa(b) /\ ColdAfterHot' = ColdAfterHot
        /\ input(b)' = input(b)
    BY ThreadFacts DEF nfa, ColdAfterHot, input
  <2>1. BlockStage(b)
    BY <1>2
  \* The next symbol.
  <2>2. ASSUME NEW at,
               \/ EndSymbol(b, at) /\ (at = "sync3" \/ (at = "sync2" /\ ~ColdAfterHot))
               \/ at = "sync0" /\ Barrier(b, "sync0", LoopTest(b, 0)) /\ symbol_pos' = symbol_pos
        PROVE  BlockStage(b)'
    <3>1. Positions(b)' /\ PhaseOf(b)' # 2 /\ \A t \in ThreadsOf(b) : pc'[t] \in {"prepare", "done"}
      BY <2>1, <2>2, NextSymbol
    <3>2. \A t \in ThreadsOf(b) : pc[t] = at
      BY <2>2 DEF EndSymbol, Barrier
    <3>3. is_active_state1' = is_active_state1
      BY BarrierFrame DEF shared
    <3>4. ASSUME NEW t \in ThreadsOf(b) PROVE Cleared(t)'
      <4>1. pc[t] = at /\ Cleared(t) /\ pc'[t] \in {"prepare", "done"} /\ t[1] = b
        BY <2>0, <2>1, <3>1, <3>2 DEF BlockStage
      <4>2. ColdAfterHot /\ t[2] \in Hot(nfa(b)) => t[2] + BlockDim \notin is_active_state1[b]
        <5>1. ColdAfterHot => pc[t] \notin {"init", "update"} /\ Phase(pc[t]) # 2
          BY <2>2, <4>1 DEF Phase
        <5> QED
          BY <4>1, <5>1 DEF Cleared
      <4> QED
        BY <2>0, <3>3, <4>1, <4>2 DEF Cleared
    <3> QED
      BY <3>1, <3>4 DEF BlockStage, ThreadsOf
  <2>3. ASSUME NEW at, NEW to \in {"hot", "copy", "update"}, Barrier(b, at, to), symbol_pos' = symbol_pos,
               at \in {"sync1", "sync2"}, to = "hot" => Stage(b)', to = "copy" => ~ColdAfterHot,
               (to = "hot") = (at = "sync1")
        PROVE  BlockStage(b)'
    <3>1. \A t \in ThreadsOf(b) : pc[t] = at /\ pc'[t] = to
      BY <2>0, <2>3 DEF Barrier
    <3>2. PhaseOf(b)' = Phase(to) /\ PhaseOf(b) = Phase(at) /\ Pos(b)' = Pos(b) /\ reports' = reports
      BY <2>0, <2>3, <3>1, BarrierFrame DEF PhaseOf, Pos
    <3>3. PhaseOf(b) \in {1, 2} /\ PhaseOf(b)' \in {2, 3} /\ (PhaseOf(b)' = 2 <=> to = "hot")
      BY <2>3, <3>2 DEF Phase
    <3>4. Positions(b)'
      <4>1. Positions(b)
        BY <2>1 DEF BlockStage
      <4>2. \A r \in reports : r[1] = b => r[2] < Pos(b) \/ r[2] = Pos(b)
        BY <4>1 DEF Positions
      <4>3. Pos(b) < Len(input(b)) /\ \A t \in ThreadsOf(b) : symbol_pos[t] = Pos(b)
        BY <3>3, <4>1 DEF Positions
      <4>4. PhaseOf(b)' # 0 /\ PhaseOf(b)' # 4
        BY <3>3
      <4> QED
        BY <2>0, <2>3, <3>2, <3>3, <4>2, <4>3, <4>4 DEF Positions, ThreadsOf
    <3>5. \A t \in ThreadsOf(b) : Cleared(t)'
      BY <2>0, <2>3, <3>1 DEF Cleared, Phase
    <3> QED
      BY <2>3, <3>3, <3>4, <3>5 DEF BlockStage, ThreadsOf
  <2> SUFFICES BlockStage(b)'
    BY <1>2
  <2>4. CASE Sync0(b) BY <2>2, <2>4 DEF Sync0
  <2>5. CASE Sync1(b)
    <3>1. Stage(b)'
      BY <2>1, <2>5, StagesBegin
    <3> QED
      BY <2>3, <2>5, <3>1 DEF Sync1
  <2>6. CASE Sync2(b) BY <2>2, <2>6 DEF Sync2
  <2>7. CASE Sync2BeforeCopy(b)
    <3>1. ~ColdAfterHot
      BY <2>7 DEF Sync2BeforeCopy, QueueIsCopied, Table, ColdAfterHot
    <3> QED
      BY <2>3, <2>7, <3>1 DEF Sync2BeforeCopy
  <2>8. CASE Sync2BeforeUpdate(b) BY <2>3, <2>8 DEF Sync2BeforeUpdate
  <2>9. CASE Sync3(b) BY <2>2, <2>9 DEF Sync3
  <2> QED
    BY <2>4, <2>5, <2>6, <2>7, <2>8, <2>9 DEF BlockStep
<1> QED
  BY <1>1, <1>2

-----------------------------------------------------------------------------
(* What is reported, and printed.                                            *)

\* A thread at a device assertion stays there.
LEMMA TrappedStays == ASSUME IInv, [Next]_vars, Trapped PROVE Trapped'
<1>0. TypeOK
  BY DEF IInv
<1>1. PICK u \in Thread : pc[u] = "trapped"
  BY DEF Trapped
<1>2. pc'[u] = "trapped"
  <2>1. ASSUME NEW t \in Thread, ThreadStep(t) PROVE pc'[u] = "trapped"
    <3>1. pc[t] # "trapped"
      BY <2>1 DEF ThreadStep, Begin, Prepare, HotStage, ColdStage, EnableHot, Dedup, Push, Store,
                  ReportEntry, Report, CopyQueue, Update, Goto
    <3> QED
      BY <1>0, <1>1, <2>1, <3>1, Elsewhere
  <2>2. ASSUME NEW b \in Block, BlockStep(b) PROVE pc'[u] = "trapped"
    <3>1. PICK at \in {"sync0", "sync1", "sync2", "sync3"} : \E to : Barrier(b, at, to)
      BY <2>2 DEF BlockStep, Sync0, Sync1, Sync2, Sync2BeforeCopy, Sync2BeforeUpdate, Sync3, EndSymbol
    <3>2. u[1] # b
      BY <1>1, <3>1, ThreadFacts DEF Barrier
    <3> QED
      BY <1>1, <3>1, <3>2 DEF Barrier
  <2> QED
    BY <1>1, <2>1, <2>2 DEF Next, PrintReports, Terminated, vars
<1> QED
  BY <1>2 DEF Trapped

\* When all threads have ended nothing goes on.
LEMMA AllDone ==
    ASSUME [Next]_vars, \A t \in Thread : pc[t] = "done"
    PROVE  pc' = pc /\ reports' = reports /\ count' = count
<1>1. ASSUME NEW t \in Thread, ThreadStep(t) PROVE FALSE
  BY <1>1 DEF ThreadStep, Begin, Prepare, HotStage, ColdStage, EnableHot, Dedup, Push, Store,
              ReportEntry, Report, CopyQueue, Update, Goto
<1>2. ASSUME NEW b \in Block, BlockStep(b) PROVE FALSE
  <2>1. PICK at \in {"sync0", "sync1", "sync2", "sync3"} : \E to : Barrier(b, at, to)
    BY <1>2 DEF BlockStep, Sync0, Sync1, Sync2, Sync2BeforeCopy, Sync2BeforeUpdate, Sync3, EndSymbol
  <2> QED
    BY <2>1, ThreadFacts DEF Barrier
<1> QED
  BY <1>1, <1>2 DEF Next, PrintReports, Terminated, vars

\* The state a thread has run and is to report has not been reported.
LEMMA NotToldYet ==
    ASSUME IInv, NEW t \in Thread, Stage(t[1]), Positions(t[1]), Report(t), ~Table
    PROVE  <<t[1], symbol_pos[t], state[t]>> \notin reports
<1> DEFINE b == t[1]
<1>1. /\ TypeOK /\ b \in Block /\ t \in ThreadsOf(b) /\ pc[t] = "enable" /\ pc[t] \in Working /\ tt[t] \in Nat
  BY ThreadFacts, ThreadType DEF IInv, Report, Goto, Working
<1>2. symbol_pos[t] = Pos(b) /\ AtWork(t) /\ Once(t)
  BY <1>1 DEF Positions, Stage
<1>3. CASE state[t] \in Hot(nfa(b))
  <2>1. state[t] = t[2] /\ HotDue(t)
    BY <1>1, <1>2, <1>3 DEF AtWork, HotDue
  <2> QED
    BY <1>2, <1>3, <2>1 DEF Once
<1>4. CASE state[t] \notin Hot(nfa(b))
  <2>1. tt[t] \in Share(t) /\ state[t] = Waiting(b, tt[t])
    BY <1>1, <1>2, <1>4 DEF AtWork
  <2>2. ColdDue(t, tt[t])
    BY <1>1 DEF ColdDue
  <2> QED
    BY <1>2, <2>1, <2>2 DEF Once
<1> QED
  BY <1>3, <1>4

\* The counter counts the reports, and the file lists them.
LEMMA AccountsStep ==
    ASSUME AllRoomy, IInv, [Next]_vars, StageInv
    PROVE  Accounts'
<1> DEFINE Counted == IsFiniteSet(reports)
                       /\ IF Table THEN count >= Cardinality(reports) ELSE count = Cardinality(reports)
<1>0. TypeOK /\ Accounts /\ Table' = Table /\ job' = job /\ Counted /\ count \in Nat
  BY JobKept DEF IInv, StageInv, Accounts, TypeOK
<1>1. Counted'
  <2>1. ASSUME NEW t \in Thread, NEW s, Reported(t, s),
               ~Table /\ s \in nfa(t[1]).report => <<t[1], symbol_pos[t], s>> \notin reports
        PROVE  Counted'
    <3> DEFINE r == <<t[1], symbol_pos[t], s>>
    <3>1. CASE s \in nfa(t[1]).report
      <4>1. reports' = reports \cup {r} /\ count' = count + 1
        BY <2>1, <3>1 DEF Reported
      <4>2. ~Table => r \notin reports
        BY <2>1, <3>1
      <4> HIDE DEF r
      <4>3. /\ IsFiniteSet(reports')
            /\ Cardinality(reports') = Cardinality(reports) \/ Cardinality(reports') = Cardinality(reports) + 1
            /\ r \notin reports => Cardinality(reports') = Cardinality(reports) + 1
            /\ Cardinality(reports) \in Nat
        <5>1. CASE r \in reports
          <6>1. reports' = reports
            BY <4>1, <5>1
          <6> QED
            BY <1>0, <5>1, <6>1, FS_CardinalityType
        <5>2. CASE r \notin reports
          BY <1>0, <4>1, <5>2, FS_AddElement, FS_CardinalityType
        <5> QED
          BY <5>1, <5>2
      <4>4. CASE Table
        BY <1>0, <4>1, <4>3, <4>4
      <4>5. CASE ~Table
        BY <1>0, <4>1, <4>2, <4>3, <4>5
      <4> QED
        BY <4>4, <4>5
    <3>2. CASE s \notin nfa(t[1]).report
      BY <1>0, <2>1, <3>2 DEF Reported
    <3> QED
      BY <3>1, <3>2
  <2>2. ASSUME reports' = reports, count' = count PROVE Counted'
    BY <1>0, <2>2
  <2>3. ASSUME NEW t \in Thread, ThreadStep(t) PROVE Counted'
    <3>0. t[1] \in Block /\ BlockStage(t[1]) /\ t \in ThreadsOf(t[1])
      BY ThreadFacts DEF StageInv
    <3>1. CASE ReportEntry(t)
      <4>1. Table
        <5>1. Phase(pc[t]) = PhaseOf(t[1]) /\ pc[t] = "entry"
          BY <3>1, PhaseFacts DEF ReportEntry, Goto
        <5>2. AtWork(t)
          BY <3>0, <5>1 DEF Phase, BlockStage, Stage
        <5> QED
          BY <5>1, <5>2 DEF AtWork
      <4> HIDE DEF Counted
      <4> QED
        BY <2>1, <3>1, <4>1 DEF ReportEntry
    <3>2. CASE Report(t) /\ ~Table
      <4>1. Phase(pc[t]) = PhaseOf(t[1]) /\ pc[t] = "enable"
        BY <3>2, PhaseFacts DEF Report, Goto
      <4>2. Stage(t[1]) /\ Positions(t[1])
        BY <3>0, <4>1 DEF Phase, BlockStage
      <4>3. <<t[1], symbol_pos[t], state[t]>> \notin reports /\ Reported(t, state[t])
        BY <3>2, <4>2, NotToldYet DEF Report
      <4> HIDE DEF Counted
      <4> QED
        BY <2>1, <4>3
    <3>3. CASE UNCHANGED <<reports, count>>
      <4> HIDE DEF Counted
      <4> QED
        BY <2>2, <3>3
    <3> QED
      BY <2>3, <3>1, <3>2, <3>3
      DEF ThreadStep, Begin, Prepare, HotStage, ColdStage, EnableHot, Dedup, Push, Store, Report,
          CopyQueue, Update
  <2>4. ASSUME NEW b \in Block, BlockStep(b) PROVE Counted'
    <3> HIDE DEF Counted
    <3> QED
      BY <1>0, <2>2, <2>4, BarrierFrame
  <2>5. CASE UNCHANGED <<reports, count>>
    <3> HIDE DEF Counted
    <3> QED
      BY <2>2, <2>5
  <2> HIDE DEF Counted
  <2> QED
    BY <2>3, <2>4, <2>5 DEF Next, PrintReports, Terminated, vars
<1>2. printed' => Trapped' \/ (report_file' = Lines' /\ \A t \in Thread : pc'[t] = "done")
  <2>1. CASE PrintReports
    <3>1. Trapped' = Trapped /\ Lines' = Lines
      BY <1>0, <2>1 DEF PrintReports, Trapped, Lines, nfa
    <3> QED
      BY <2>1, <3>1 DEF PrintReports
  <2>2. CASE ~PrintReports
    <3>1. printed' = printed /\ report_file' = report_file
      <4>1. ASSUME NEW t \in Thread, ThreadStep(t) PROVE printed' = printed /\ report_file' = report_file
        BY <4>1 DEF ThreadStep, Begin, Prepare, HotStage, ColdStage, EnableHot, Dedup, Push, Store,
                    ReportEntry, Report, CopyQueue, Update
      <4> QED
        BY <1>0, <2>2, <4>1, BarrierFrame DEF Next, Terminated, vars
    <3>2. CASE printed /\ ~Trapped
      <4>1. report_file = Lines /\ \A t \in Thread : pc[t] = "done"
        BY <1>0, <3>2 DEF Accounts
      <4>2. pc' = pc /\ reports' = reports
        BY <4>1, AllDone
      <4>3. Lines' = Lines
        BY <1>0, <4>2 DEF Lines, nfa
      <4> QED
        BY <3>1, <4>1, <4>2, <4>3
    <3> QED
      BY <3>1, <3>2, TrappedStays
  <2> QED
    BY <2>1, <2>2
<1> QED
  BY <1>1, <1>2 DEF Accounts

\* The stages keep what they are to compute.
LEMMA StageStep == ASSUME AllRoomy, IInv, [Next]_vars, StageInv PROVE StageInv'
<1>1. job' = job
  BY JobKept
<1>2. ASSUME NEW c \in Block PROVE BlockStage(c)'
  <2>0. BlockStage(c)
    BY DEF StageInv
  <2>1. ASSUME NEW t \in Thread, ThreadStep(t) PROVE BlockStage(c)'
    BY <1>1, <2>0, <2>1, ThreadStages
  <2>2. ASSUME NEW b \in Block, BlockStep(b) PROVE BlockStage(c)'
    BY <1>1, <2>0, <2>2, BarrierStages
  <2>3. CASE UNCHANGED <<job, pc, symbol_pos, tt, state, to_enable, slot, shared, reports, count>>
    <3>1. UNCHANGED <<current, queue_cells, dedup_bs, tail, next_tail, is_active_state1>>
      BY <2>3 DEF shared
    <3> QED
      BY <1>1, <2>0, <2>3, <3>1, StageKept
  <2> QED
    BY <2>1, <2>2, <2>3 DEF Next, PrintReports, Terminated, vars
<1>3. Accounts'
  BY AccountsStep
<1> QED
  BY <1>2, <1>3 DEF StageInv

\* The initial state has the stage invariants.
LEMMA StageInit == ASSUME Init PROVE StageInv
<1>0. TypeOK
  BY InitType
<1>1. Accounts
  BY FS_EmptySet DEF Accounts, Init
<1>2. ASSUME NEW b \in Block PROVE BlockStage(b)
  <2>1. Lead(b) \in ThreadsOf(b) /\ \A t \in ThreadsOf(b) : t \in Thread /\ t[1] = b
    BY ThreadFacts
  <2>2. \A t \in ThreadsOf(b) : pc[t] = "init" /\ symbol_pos[t] = 0
    BY <2>1 DEF Init
  <2>3. PhaseOf(b) = 0 /\ Pos(b) = 0 /\ reports = {}
    BY <2>1, <2>2 DEF PhaseOf, Phase, Pos, Init
  <2>4. Positions(b)
    BY <2>2, <2>3 DEF Positions
  <2>5. \A t \in ThreadsOf(b) : Cleared(t)
    BY <2>2 DEF Cleared
  <2> QED
    BY <2>3, <2>4, <2>5 DEF BlockStage
<1> QED
  BY <1>1, <1>2 DEF StageInv

\* Both invariants hold together.
SInv == AllRoomy => IInv /\ StageInv

\* Both invariants hold in every state.
LEMMA SInvAlways == Spec => []SInv
<1>1. Init => SInv
  BY InitInv, StageInit DEF SInv
<1>2. SInv /\ [Next]_vars => SInv'
  <2>1. [Next]_vars => (AllRoomy' <=> AllRoomy)
    BY JobKept DEF AllRoomy
  <2> QED
    BY <2>1, NextInv, StageStep DEF SInv
<1> QED
  BY <1>1, <1>2, PTL DEF Spec

-----------------------------------------------------------------------------
(* What has been done when all threads are at the barrier after the stages.  *)

\* The states queued for the next symbol.
NextQueued(b) == { Cell(b, i) : i \in 0 .. next_tail[b] - 1 }

\* What is reported for the symbol.
ToldNow(b) == { s \in nfa(b).report : IF Table THEN Wanted(b, s) ELSE s \in Fires(b) }

\* All that the stages are for has been done.
StageEnded(b) ==
    /\ NextQueued(b) = { e \in Cold(nfa(b)) : Wanted(b, e) }
    /\ ColdAfterHot => \A e \in Hot(nfa(b)) : e + BlockDim \in is_active_state1[b] <=> Wanted(b, e)
    /\ \A s : <<b, Pos(b), s>> \in reports <=> s \in ToldNow(b)

\* What fires and what it wants are states.
LEMMA FiresFacts ==
    ASSUME IInv, NEW b \in Block, PhaseOf(b) = 2
    PROVE  /\ Fires(b) \subseteq Sids(nfa(b)) /\ HotRun(b) \subseteq Hot(nfa(b))
           /\ ColdRun(b) \subseteq Cold(nfa(b))
           /\ \A s \in Fires(b) : Wants(b, s) \subseteq Sids(nfa(b))
           /\ \A s \in Fires(b) : \E t \in ThreadsOf(b) :
                 \/ s = t[2] /\ s \in Hot(nfa(b))
                 \/ \E i \in Share(t) : s = Waiting(b, i)
<1>0. /\ TypeOK /\ Lead(b)[1] = b /\ tail[b] \in Nat
      /\ \A i \in Tid : <<b, i>> \in ThreadsOf(b)
      /\ \A t \in ThreadsOf(b) : t[1] = b
  BY ThreadFacts, BlockType DEF IInv
<1>1. /\ Hot(nfa(b)) \subseteq Sids(nfa(b)) /\ Hot(nfa(b)) \subseteq Tid
      /\ Cold(nfa(b)) \subseteq Sids(nfa(b))
      /\ nfa(b).edges \in [Sids(nfa(b)) -> SUBSET Sids(nfa(b))]
  BY <1>0, BlockFacts
<1>2. HotRun(b) \subseteq Hot(nfa(b))
  BY DEF HotRun
<1>3. ASSUME NEW s \in ColdRun(b)
      PROVE  \E t \in ThreadsOf(b) : \E i \in Share(t) : s = Waiting(b, i)
  <2>1. PICK i \in 0 .. tail[b] - 1 : s = Waiting(b, i) /\ job.run_cold_stage
    BY <1>3 DEF ColdRun
  <2>2. i \in Nat /\ i % BlockDim \in Tid
    BY <1>0, <2>1, Strides
  <2>3. <<b, i % BlockDim>> \in ThreadsOf(b) /\ i \in Share(<<b, i % BlockDim>>)
    BY <1>0, <2>1, <2>2 DEF Share
  <2> QED
    BY <2>1, <2>3
<1>4. ColdRun(b) \subseteq Cold(nfa(b))
  BY <1>3, ShareFacts
<1>5. Fires(b) \subseteq Sids(nfa(b))
  BY <1>1, <1>2, <1>4 DEF Fires
<1>6. ASSUME NEW s \in Fires(b) PROVE Wants(b, s) \subseteq Sids(nfa(b))
  BY <1>0, <1>1, <1>5, <1>6 DEF Wants, Targets, Entry
<1>7. ASSUME NEW s \in Fires(b)
      PROVE  \E t \in ThreadsOf(b) : \/ s = t[2] /\ s \in Hot(nfa(b))
                                     \/ \E i \in Share(t) : s = Waiting(b, i)
  <2>1. CASE s \in ColdRun(b)
    BY <1>3, <2>1
  <2>2. CASE s \in HotRun(b)
    <3>1. <<b, s>> \in ThreadsOf(b) /\ <<b, s>>[2] = s /\ s \in Hot(nfa(b))
      BY <1>0, <1>1, <1>2, <2>2
    <3> QED
      BY <3>1
  <2> QED
    BY <1>7, <2>1, <2>2 DEF Fires
<1> QED
  BY <1>2, <1>4, <1>5, <1>6, <1>7

\* So it is at the barrier after the stages: every state that fires has been
\* handled by the thread whose share it is in.
LEMMA AtStageEnd ==
    ASSUME IInv, NEW b \in Block, BlockStage(b), \A t \in ThreadsOf(b) : pc[t] = "sync2"
    PROVE  PhaseOf(b) = 2 /\ StageEnded(b)
<1>0. /\ TypeOK /\ Lead(b) \in ThreadsOf(b) /\ \A t \in ThreadsOf(b) : t[1] = b
      /\ Cold(nfa(b)) \subseteq Sids(nfa(b))
  BY ThreadFacts, BlockFacts DEF IInv
<1>1. PhaseOf(b) = 2
  BY <1>0 DEF PhaseOf, Phase
<1>2. Stage(b) /\ Positions(b) /\ NextSound(b)
  BY <1>0, <1>1 DEF BlockStage, IInv, BlockInv
<1>3. Queueing(b) = {} /\ Claiming(b) = {}
  BY <1>0 DEF Queueing, Claiming
<1>4. Written(b) = 0 .. next_tail[b] - 1
  BY <1>3 DEF Written
<1>5. \A e : e \in NextQueued(b) <=> Marked(b, e)
  <2>1. \A i \in 0 .. next_tail[b] - 1 : Marked(b, Cell(b, i))
    BY <1>2, <1>4 DEF NextSound
  <2>2. \A e : Marked(b, e) => \E i \in 0 .. next_tail[b] - 1 : Cell(b, i) = e
    BY <1>2, <1>3, <1>4 DEF Stage, Kept, Marked
  <2> QED
    BY <2>1, <2>2 DEF NextQueued
<1>6. ASSUME NEW s \in Fires(b) PROVE Handled(b, s)
  <2>1. PICK t \in ThreadsOf(b) : \/ s = t[2] /\ s \in Hot(nfa(b))
                                  \/ \E i \in Share(t) : s = Waiting(b, i)
    BY <1>1, <1>6, FiresFacts
  <2>2. Done(t) /\ t[1] = b /\ pc[t] = "sync2"
    BY <1>0, <1>2 DEF Stage
  <2>3. ~HotDue(t) /\ \A i : ~ColdDue(t, i)
    BY <2>2 DEF HotDue, ColdDue, Working
  <2> QED
    BY <1>6, <2>1, <2>2, <2>3 DEF Done
<1>7. \A e : Wanted(b, e) => Found(b, e) /\ (Table => Told(b, e))
  BY <1>6 DEF Wanted, Handled
<1>8. OnlyWanted(b)
  BY <1>2 DEF Stage
<1>9. NextQueued(b) = { e \in Cold(nfa(b)) : Wanted(b, e) }
  BY <1>5, <1>7, <1>8 DEF OnlyWanted, Found, Marked
<1>10. ColdAfterHot => \A e \in Hot(nfa(b)) : e + BlockDim \in is_active_state1[b] <=> Wanted(b, e)
  BY <1>7, <1>8 DEF OnlyWanted, Found
<1>11. ASSUME NEW s PROVE <<b, Pos(b), s>> \in reports <=> s \in ToldNow(b)
  <2>1. ASSUME <<b, Pos(b), s>> \in reports PROVE s \in ToldNow(b)
    <3> DEFINE r == <<b, Pos(b), s>>
    <3>1. r[1] = b /\ r[2] = Pos(b) /\ r[3] = s /\ r \in reports
      BY <2>1
    <3> HIDE DEF r
    <3> QED
      BY <1>8, <3>1 DEF OnlyWanted, ToldNow
  <2>2. ASSUME s \in ToldNow(b) PROVE <<b, Pos(b), s>> \in reports
    BY <1>6, <1>7, <2>2 DEF ToldNow, Told, Handled
  <2> QED
    BY <2>1, <2>2
<1> QED
  BY <1>1, <1>9, <1>10, <1>11 DEF StageEnded

-----------------------------------------------------------------------------
(* A symbol of a run, as the stages do it.                                   *)

\* abs_enabled, when hot is enabled and queued is in the queue.
EnabledBy(b, hot, queued) ==
    CASE Table        -> Successors(nfa(b), Hot(nfa(b)) \cup queued)
      [] ColdAfterHot -> hot \cup queued
      [] OTHER        -> Hot(nfa(b)) \cup queued

\* The hot states that are enabled next.
HotNext(b) == { s \in Hot(nfa(b)) : s \in nfa(b).always \/ s + BlockDim \in is_active_state1[b] }

\* What the next symbol finds in the queue.
ColdNext(b) == IF job.run_cold_stage THEN NextQueued(b) ELSE {}

Symbol1(b) == input(b)[Pos(b) + 1]

\* The test of a symbol is membership.
LEMMA MatchFacts ==
    ASSUME TypeOK, NEW b \in Block, Positions(b), PhaseOf(b) = 2
    PROVE  /\ Symbol1(b) \in Byte /\ symbol(Lead(b)) = Symbol1(b)
           /\ Pos(b) \in Nat /\ Pos(b) < Len(input(b))
           /\ \A s \in Sids(nfa(b)) :
                 Matches(Lead(b), s) <=> Table \/ match2(nfa(b), s, Symbol1(b))
           /\ \A e, s : e \in Wants(b, s) <=>
                 /\ e \in nfa(b).edges[s]
                 /\ Table => match2(nfa(b), e, Symbol1(b))
                 /\ ~Table /\ ~ColdAfterHot => e \in Cold(nfa(b))
<1>0. Lead(b)[1] = b /\ Lead(b) \in Thread /\ KernelNetwork(nfa(b)) /\ input(b) \in Seq(Byte)
  BY ThreadFacts, BlockFacts
<1>1. Pos(b) \in Nat /\ Pos(b) < Len(input(b))
  BY <1>0 DEF Pos, TypeOK, Positions
<1>2. Symbol1(b) \in Byte
  BY <1>0, <1>1 DEF Symbol1
<1>3. symbol(Lead(b)) = Symbol1(b)
  BY <1>0 DEF symbol, Symbol1, Pos
<1>4. ASSUME NEW s \in Sids(nfa(b))
      PROVE  Matches(Lead(b), s) <=> Table \/ match2(nfa(b), s, Symbol1(b))
  <2>1. nfa(b).symbol_set[s] \subseteq Byte
    BY <1>0 DEF KernelNetwork
  <2>2. PackedMatch(PackedNode(nfa(b).symbol_set[s]), Symbol1(b)) <=> Symbol1(b) \in nfa(b).symbol_set[s]
    BY <1>2, <2>1, PackedTestIsMembership
  <2> QED
    BY <1>0, <1>3, <2>2 DEF Matches, match2
<1>5. ASSUME NEW e, NEW s
      PROVE  e \in Wants(b, s) <=> /\ e \in nfa(b).edges[s]
                                   /\ Table => match2(nfa(b), e, Symbol1(b))
                                   /\ ~Table /\ ~ColdAfterHot => e \in Cold(nfa(b))
  <2>1. CASE Table
    <3>1. Wants(b, s) = Entry(Lead(b), s)
      BY <2>1 DEF Wants, Targets, Table, ColdAfterHot
    <3> QED
      BY <1>0, <1>3, <2>1, <3>1 DEF Entry
  <2>2. CASE ~Table /\ ColdAfterHot
    BY <1>0, <2>2 DEF Wants, Targets
  <2>3. CASE ~Table /\ ~ColdAfterHot
    BY <1>0, <2>3 DEF Wants, Targets
  <2> QED
    BY <2>1, <2>2, <2>3
<1> QED
  BY <1>1, <1>2, <1>3, <1>4, <1>5

\* The stages do what the symbol does to the network.
LEMMA StageSymbol ==
    ASSUME IInv, NEW b \in Block, Positions(b), PhaseOf(b) = 2, StageEnded(b)
    PROVE  LET m == HotAlways(nfa(b), job)
               S == EnabledBy(b, HotRun(b), ColdRun(b))
           IN  /\ NextEnabled(m, S, Symbol1(b)) = EnabledBy(b, HotNext(b), ColdNext(b))
               /\ Reporting(m, S, Symbol1(b)) = ToldNow(b)
<1> DEFINE n == nfa(b)
           m == HotAlways(n, job)
           c == Symbol1(b)
           S == EnabledBy(b, HotRun(b), ColdRun(b))
<1>0. TypeOK
  BY DEF IInv
<1>1. /\ KernelNetwork(n) /\ Hot(n) \subseteq Sids(n) /\ Cold(n) \subseteq Sids(n)
      /\ n.edges \in [Sids(n) -> SUBSET Sids(n)] /\ n.always \subseteq Hot(n)
      /\ Hot(n) \cup Cold(n) = Sids(n)
      /\ ColdAfterHot => job.run_cold_stage
  BY <1>0, BlockFacts DEF KernelNetwork, Cold
<1>2. /\ HotRun(b) \subseteq Hot(n) /\ ColdRun(b) \subseteq Cold(n) /\ Fires(b) \subseteq Sids(n)
  BY FiresFacts
<1>3. \A s \in Sids(n) : Matches(Lead(b), s) <=> Table \/ match2(n, s, c)
  BY <1>0, MatchFacts
<1>4. \A e, s : e \in Wants(b, s) <=> /\ e \in n.edges[s]
                                      /\ Table => match2(n, e, c)
                                      /\ ~Table /\ ~ColdAfterHot => e \in Cold(n)
  BY <1>0, MatchFacts
<1>5. /\ NextQueued(b) = { e \in Cold(n) : Wanted(b, e) }
      /\ ColdAfterHot => \A e \in Hot(n) : e + BlockDim \in is_active_state1[b] <=> Wanted(b, e)
  BY DEF StageEnded
<1>6. /\ m.symbol_set = n.symbol_set /\ m.report = n.report
      /\ ColdAfterHot => m = n
      /\ ~ColdAfterHot => /\ \A s \in Sids(n) : m.edges[s] = IF job.run_cold_stage THEN n.edges[s] ELSE {}
                          /\ Table => m.always = Successors(n, Hot(n))
                          /\ ~Table => m.always = Hot(n)
  <2>1. /\ m.symbol_set = n.symbol_set /\ m.report = n.report
        /\ job.kernel = "cold after hot" => m = n
        /\ job.kernel # "cold after hot" =>
              /\ \A s \in Sids(n) : m.edges[s] = IF job.run_cold_stage THEN n.edges[s] ELSE {}
              /\ job.kernel = "table" => m.always = Successors(n, Hot(n))
              /\ job.kernel # "table" => m.always = Hot(n)
    BY DEF HotAlways, Started, Sids
  <2> HIDE DEF n, m
  <2> QED
    BY <2>1 DEF Table, ColdAfterHot
<1>7. ~job.run_cold_stage => ColdRun(b) = {} /\ ColdNext(b) = {}
  BY DEF ColdRun, ColdNext
<1>8. job.run_cold_stage => ColdNext(b) = NextQueued(b)
  BY DEF ColdNext
<1>9. Fires(b) = { s \in HotRun(b) \cup ColdRun(b) : Table \/ match2(n, s, c) }
  BY <1>1, <1>2, <1>3 DEF Fires
<1>10. ~ColdAfterHot => HotRun(b) = Hot(n)
  BY DEF HotRun
<1>11. \A X : Activated(m, X, c) = Activated(n, X, c)
  BY <1>6 DEF Activated, match2
<1> HIDE DEF n, m, c
<1>12. CASE ~Table
  <2>1. S = HotRun(b) \cup ColdRun(b)
    BY <1>10, <1>12 DEF EnabledBy, n
  <2>2. Activated(m, S, c) = Fires(b)
    BY <1>9, <1>11, <1>12, <2>1 DEF Activated
  <2>3. Reporting(m, S, c) = ToldNow(b)
    BY <1>6, <1>12, <2>2 DEF Reporting, ToldNow, n
  <2>4. CASE ColdAfterHot
    <3>1. \A e : Wanted(b, e) <=> e \in Successors(n, Fires(b))
      BY <1>4, <1>12, <2>4 DEF Wanted, Successors
    <3>2. Successors(n, Fires(b)) \subseteq Sids(n)
      BY <1>1, <1>2 DEF Successors
    <3>3. HotNext(b) = n.always \cup { e \in Hot(n) : Wanted(b, e) }
      BY <1>1, <1>5, <2>4 DEF HotNext, n
    <3>4. ColdNext(b) = { e \in Cold(n) : Wanted(b, e) }
      BY <1>1, <1>5, <1>8, <2>4
    <3>5. EnabledBy(b, HotNext(b), ColdNext(b)) = HotNext(b) \cup ColdNext(b)
      BY <1>12, <2>4 DEF EnabledBy
    <3>6. NextEnabled(m, S, c) = n.always \cup Successors(n, Fires(b))
      BY <1>6, <2>2, <2>4 DEF NextEnabled
    <3> QED
      BY <1>1, <2>3, <3>1, <3>2, <3>3, <3>4, <3>5, <3>6 DEF n, m, c
  <2>5. CASE ~ColdAfterHot
    <3>1. EnabledBy(b, HotNext(b), ColdNext(b)) = Hot(n) \cup ColdNext(b)
      BY <1>12, <2>5 DEF EnabledBy, n
    <3>2. NextEnabled(m, S, c) = Hot(n) \cup Successors(m, Fires(b))
      BY <1>6, <1>12, <2>2, <2>5 DEF NextEnabled
    <3>3. CASE job.run_cold_stage
      <4>1. \A e \in Cold(n) : Wanted(b, e) <=> e \in Successors(m, Fires(b))
        BY <1>2, <1>4, <1>6, <1>12, <2>5, <3>3 DEF Wanted, Successors
      <4>2. Successors(m, Fires(b)) \subseteq Sids(n)
        BY <1>1, <1>2, <1>6, <2>5, <3>3 DEF Successors
      <4> QED
        BY <1>1, <1>5, <1>8, <2>3, <3>1, <3>2, <3>3, <4>1, <4>2 DEF n, m, c
    <3>4. CASE ~job.run_cold_stage
      <4>1. Successors(m, Fires(b)) = {}
        BY <1>2, <1>6, <2>5, <3>4 DEF Successors
      <4> QED
        BY <1>7, <2>3, <3>1, <3>2, <3>4, <4>1 DEF n, m, c
    <3> QED
      BY <3>3, <3>4
  <2> QED
    BY <2>4, <2>5
<1>13. CASE Table
  <2>0. ~ColdAfterHot
    BY <1>13 DEF Table, ColdAfterHot
  <2>1. S = Successors(n, Hot(n) \cup ColdRun(b)) /\ Fires(b) = Hot(n) \cup ColdRun(b)
    BY <1>9, <1>10, <1>13, <2>0 DEF EnabledBy, n
  <2>2. \A e : Wanted(b, e) <=> e \in Activated(n, S, c)
    <3>1. \A e, s : e \in Wants(b, s) <=> e \in n.edges[s] /\ match2(n, e, c)
      BY <1>4, <1>13
    <3>2. \A e : e \in S <=> \E s \in Fires(b) : e \in n.edges[s]
      BY <2>1 DEF Successors
    <3> HIDE DEF S
    <3> QED
      BY <3>1, <3>2 DEF Wanted, Activated
  <2>3. Reporting(m, S, c) = ToldNow(b)
    BY <1>6, <1>11, <1>13, <2>2 DEF Reporting, ToldNow, n
  <2>4. Activated(n, S, c) \subseteq Sids(n)
    BY <1>1, <1>2, <2>1 DEF Activated, Successors
  <2>5. NextEnabled(m, S, c) = Successors(n, Hot(n)) \cup Successors(m, Activated(n, S, c))
    BY <1>6, <1>11, <1>13, <2>0 DEF NextEnabled
  <2>6. EnabledBy(b, HotNext(b), ColdNext(b)) = Successors(n, Hot(n) \cup ColdNext(b))
    BY <1>13, <2>0 DEF EnabledBy, n
  <2>7. CASE job.run_cold_stage
    <3>1. Successors(m, Activated(n, S, c)) = Successors(n, Activated(n, S, c))
      BY <1>6, <2>0, <2>4, <2>7 DEF Successors
    <3>2. ColdNext(b) = { e \in Cold(n) : e \in Activated(n, S, c) }
      BY <1>5, <1>8, <2>2, <2>7
    <3>3. Hot(n) \cup ColdNext(b) = Hot(n) \cup Activated(n, S, c)
      BY <1>1, <2>4, <3>2
    <3>4. \A X, Y : Successors(n, X \cup Y) = Successors(n, X) \cup Successors(n, Y)
      BY DEF Successors
    <3> QED
      BY <2>3, <2>5, <2>6, <3>1, <3>3, <3>4 DEF n, m, c
  <2>8. CASE ~job.run_cold_stage
    <3>1. Successors(m, Activated(n, S, c)) = {}
      BY <1>6, <2>0, <2>4, <2>8 DEF Successors
    <3> QED
      BY <1>7, <2>3, <2>5, <2>6, <2>8, <3>1 DEF n, m, c
  <2> QED
    BY <2>7, <2>8
<1> QED
  BY <1>12, <1>13

-----------------------------------------------------------------------------
(* The mapping to EnableActiveNFA, at each step.                              *)

\* The enabled states, in the terms of EnabledBy.
LEMMA EnabledIs ==
    ASSUME NEW b \in Block
    PROVE  abs_enabled[b] = EnabledBy(b, HotEnabled(b), Queued(b))
BY DEF abs_enabled, EnabledBy

\* The states of the queue.
LEMMA QueuedIs ==
    ASSUME TypeOK, NEW b \in Block, pc[Lead(b)] \notin {"init", "sync0"}, job.run_cold_stage
    PROVE  \A x : x \in Queued(b) <=> \E i \in 0 .. Size(b) - 1 : x = queue_cells[b][Base(b) + i]
<1> DEFINE q == queue_cells[b]
           base == Base(b)
           n == Size(b)
<1>1. base \in Nat /\ n \in Nat
  BY BlockType DEF Base, Size
<1>2. Queue(b) = [i \in 1 .. n |-> q[base + i - 1]]
  BY DEF Queue
<1>3. \A x : x \in Queued(b) <=> \E i \in DOMAIN Queue(b) : x = Queue(b)[i]
  BY DEF Queued
<1> HIDE DEF q, base, n
<1>4. \A x : x \in Queued(b) <=> \E i \in 1 .. n : x = q[base + i - 1]
  BY <1>2, <1>3
<1>5. \A x : x \in Queued(b) <=> \E i \in 0 .. n - 1 : x = q[base + i]
  <2>1. \A i \in 1 .. n : i - 1 \in 0 .. n - 1 /\ base + i - 1 = base + (i - 1)
    BY <1>1
  <2>2. \A i \in 0 .. n - 1 : i + 1 \in 1 .. n /\ base + (i + 1) - 1 = base + i
    BY <1>1
  <2> QED
    BY <1>4, <2>1, <2>2
<1> QED
  BY <1>5 DEF q, base, n

\* The same after a step.
LEMMA QueuedBecomes ==
    ASSUME TypeOK', job' = job, NEW b \in Block, pc'[Lead(b)] \notin {"init", "sync0"}, job.run_cold_stage
    PROVE  \A x : x \in Queued(b)' <=> \E i \in 0 .. Size(b)' - 1 : x = queue_cells'[b][Base(b)' + i]
<1> DEFINE q == queue_cells'[b]
           base == Base(b)'
           n == Size(b)'
<1>1. base \in Nat /\ n \in Nat
  <2>1. current'[b] \in {0, QueueSize} /\ tail'[b] \in Nat /\ next_tail'[b] \in Nat
    BY DEF TypeOK
  <2>2. next(b)' \in Nat /\ current'[b] \in Nat
    BY <2>1, QueueSizeAssumption DEF next
  <2> QED
    BY <2>1, <2>2 DEF Base, Size
<1>2. Queue(b)' = [i \in 1 .. n |-> q[base + i - 1]]
  BY DEF Queue, Lead
<1>3. \A x : x \in Queued(b)' <=> \E i \in DOMAIN Queue(b)' : x = Queue(b)'[i]
  BY DEF Queued
<1> HIDE DEF q, base, n
<1>4. \A x : x \in Queued(b)' <=> \E i \in 1 .. n : x = q[base + i - 1]
  BY <1>2, <1>3
<1>5. \A x : x \in Queued(b)' <=> \E i \in 0 .. n - 1 : x = q[base + i]
  <2>1. \A i \in 1 .. n : i - 1 \in 0 .. n - 1 /\ base + i - 1 = base + (i - 1)
    BY <1>1
  <2>2. \A i \in 0 .. n - 1 : i + 1 \in 1 .. n /\ base + (i + 1) - 1 = base + i
    BY <1>1
  <2> QED
    BY <1>4, <2>1, <2>2
<1> QED
  BY <1>5 DEF q, base, n

\* A step that moves the queue as a whole.
LEMMA QueuedStays ==
    ASSUME TypeOK, TypeOK', job' = job, NEW b \in Block,
           pc[Lead(b)] \in {"init", "sync0"} <=> pc'[Lead(b)] \in {"init", "sync0"},
           pc[Lead(b)] \notin {"init", "sync0"} /\ job.run_cold_stage =>
              /\ Size(b)' = Size(b)
              /\ \A i \in 0 .. Size(b) - 1 :
                    queue_cells'[b][Base(b)' + i] = queue_cells[b][Base(b) + i]
    PROVE  Queued(b)' = Queued(b)
<1>1. CASE pc[Lead(b)] \in {"init", "sync0"} \/ ~job.run_cold_stage
  <2>1. ASSUME pc[Lead(b)] \in {"init", "sync0"} PROVE Queue(b) = <<>> /\ Queue(b)' = <<>>
    BY <2>1 DEF Queue, Lead
  <2> QED
    BY <1>1, <2>1 DEF Queued
<1>2. CASE pc[Lead(b)] \notin {"init", "sync0"} /\ job.run_cold_stage
  <2>1. \A x : x \in Queued(b) <=> \E i \in 0 .. Size(b) - 1 : x = queue_cells[b][Base(b) + i]
    BY <1>2, QueuedIs
  <2>2. \A x : x \in Queued(b)' <=> \E i \in 0 .. Size(b)' - 1 : x = queue_cells'[b][Base(b)' + i]
    BY <1>2, QueuedBecomes
  <2>3. \A x : x \in Queued(b)' <=> x \in Queued(b)
    BY <1>2, <2>1, <2>2
  <2> QED
    BY <2>3
<1> QED
  BY <1>1, <1>2

\* The queue for the next symbol, as the steps of the threads find it.
LEMMA ThreadQueue ==
    ASSUME AllRoomy, IInv, TypeOK', job' = job, NEW t \in Thread, ThreadStep(t)
    PROVE  Queued(t[1])' = Queued(t[1])
<1> DEFINE b == t[1]
<1>0. /\ TypeOK /\ b \in Block /\ t \in ThreadsOf(b) /\ Lead(b) \in ThreadsOf(b)
      /\ <<b, 1>> \in ThreadsOf(b) /\ ThreadsOf(b) \subseteq Thread
      /\ t[2] = 0 => t = Lead(b)
      /\ t[2] = 1 => t = <<b, 1>>
      /\ Lead(b)[2] = 0 /\ <<b, 1>>[2] = 1
  BY ThreadFacts DEF IInv, Lead
<1>1. /\ Phase(pc'[t]) = Phase(pc[t])
      /\ \A u \in Thread : u # t => pc'[u] = pc[u]
      /\ \A u \in ThreadsOf(b) : Phase(pc[u]) = PhaseOf(b)
  BY <1>0, ThreadFrame DEF IInv, BlockInv, Lockstep
<1>2. \A u \in ThreadsOf(b) : Phase(pc[u]) = PhaseOf(b) /\ Phase(pc'[u]) = PhaseOf(b)
  BY <1>0, <1>1
<1>3. b' = b /\ Lead(b)' = Lead(b) /\ Table' = Table
  BY DEF Lead, Table
<1>4. /\ current[b] \in {0, QueueSize} /\ next(b) + current[b] = QueueSize /\ next(b) \in {0, QueueSize}
      /\ QueueSize \in Nat \ {0} /\ tail[b] \in Nat /\ next_tail[b] \in Nat
      /\ queue_cells[b] \in [0 .. 2 * QueueSize - 1 -> Nat]
  BY <1>0, BlockType
<1>5. job.run_cold_stage /\ PhaseOf(b) # 0 => Size(b) <= QueueSize
  BY <1>0 DEF IInv, BlockInv, QueueSound
<1> SUFFICES ASSUME job.run_cold_stage, PhaseOf(b) # 0
             PROVE  /\ Size(b)' = Size(b)
                    /\ \A i \in 0 .. Size(b) - 1 :
                          queue_cells'[b][Base(b)' + i] = queue_cells[b][Base(b) + i]
  <2>1. /\ pc[Lead(b)] \in {"init", "sync0"} <=> PhaseOf(b) = 0
        /\ pc'[Lead(b)] \in {"init", "sync0"} <=> PhaseOf(b) = 0
    BY <1>0, <1>2 DEF PhaseOf, Phase
  <2> QED
    BY <1>0, <1>3, <2>1, QueuedStays
<1>6. CASE Begin(t)
  BY <1>0, <1>2, <1>6 DEF Begin, Goto, Phase
<1>7. CASE Prepare(t)
  <2>1. /\ pc[t] = "prepare" /\ pc'[t] = "sync1" /\ queue_cells' = queue_cells
        /\ \A u \in ThreadsOf(b) : pc[u] \in {"prepare", "sync1"} /\ pc'[u] \in {"prepare", "sync1"}
    <3>1. pc[t] = "prepare" /\ pc'[t] = "sync1" /\ queue_cells' = queue_cells
      BY <1>0, <1>7 DEF Prepare, Goto, TypeOK
    <3>2. PhaseOf(b) = 1
      BY <1>0, <1>2, <3>1 DEF Phase
    <3> QED
      BY <1>2, <3>1, <3>2 DEF Phase
  <2>2. ~Moving(b) /\ ~Moving(b)'
    BY <1>0, <1>3, <2>1 DEF Moving
  <2>3. current'[b] = IF t[2] = 1 /\ ~Table THEN next(b) ELSE current[b]
    BY <1>0, <1>7 DEF Prepare, TypeOK
  <2>4. t[2] = 0 => tail'[b] = next_tail[b]
    BY <1>0, <1>7 DEF Prepare, TypeOK
  <2>5. t[2] # 0 => tail' = tail /\ next_tail' = next_tail
    BY <1>7 DEF Prepare
  <2>6. Size(b)' = Size(b)
    <3>1. CASE t[2] = 0
      BY <1>0, <1>3, <2>1, <2>4, <3>1 DEF Size, Before
    <3>2. CASE t[2] # 0
      <4>1. pc'[Lead(b)] = pc[Lead(b)]
        BY <1>0, <1>1, <3>2
      <4> QED
        BY <1>3, <2>5, <3>2, <4>1 DEF Size
    <3> QED
      BY <3>1, <3>2
  <2>7. Base(b)' = Base(b)
    <3>1. CASE Table
      BY <1>3, <2>2, <2>3, <3>1 DEF Base
    <3>2. CASE ~Table /\ t[2] = 1
      BY <1>0, <1>3, <2>1, <2>3, <3>2 DEF Base, Before
    <3>3. CASE ~Table /\ t[2] # 1
      <4>1. pc'[<<b, 1>>] = pc[<<b, 1>>] /\ current'[b] = current[b]
        BY <1>0, <1>1, <2>3, <3>3
      <4> QED
        BY <1>3, <3>3, <4>1 DEF Base, next
    <3> QED
      BY <3>1, <3>2, <3>3
  <2> QED
    BY <2>1, <2>6, <2>7
<1>8. CASE Works(t)
  <2>1. PhaseOf(b) = 2
    <3>1. pc[t] \in {"hot", "cold", "enable", "push", "store", "entry"}
      BY <1>8 DEF Works, HotStage, ColdStage, EnableHot, Dedup, Push, Store, ReportEntry, Report, Goto
    <3> QED
      BY <1>0, <1>2, <3>1 DEF Phase
  <2>2. /\ ~Moving(b) /\ ~Moving(b)' /\ pc[<<b, 1>>] \notin Before /\ pc'[<<b, 1>>] \notin Before
        /\ pc[Lead(b)] \notin Before /\ pc'[Lead(b)] \notin Before
    BY <1>0, <1>2, <1>3, <2>1 DEF Moving, Before, Phase
  <2>3. SameQueue(b)
    BY <1>8, WorksFrame DEF SameWork
  <2>4. Base(b) = current[b] /\ Base(b)' = current[b] /\ Size(b) = tail[b] /\ Size(b)' = tail[b]
    BY <1>3, <2>2, <2>3 DEF Base, Size, SameQueue
  <2>5. \A i \in 0 .. tail[b] - 1 : i \in 0 .. QueueSize - 1
    BY <1>4, <1>5, <2>4
  <2> QED
    BY <2>3, <2>4, <2>5 DEF SameQueue
<1>9. ASSUME CopyQueue(t) \/ Update(t)
      PROVE  /\ Size(b)' = Size(b) /\ Size(b) = next_tail[b]
             /\ Base(b)' = Base(b) /\ Base(b) = next(b)
  <2>1. PhaseOf(b) = 3
    <3>1. pc[t] \in {"copy", "update"}
      BY <1>9 DEF CopyQueue, Update, Goto
    <3> QED
      BY <1>0, <1>2, <3>1 DEF Phase
  <2>2. /\ Moving(b) /\ Moving(b)' /\ pc[<<b, 1>>] \in Before /\ pc'[<<b, 1>>] \in Before
        /\ pc[Lead(b)] \in Before /\ pc'[Lead(b)] \in Before
    BY <1>0, <1>2, <1>3, <2>1 DEF Moving, Before, Phase
  <2>3. current' = current /\ next_tail' = next_tail
    BY <1>9 DEF CopyQueue, Update
  <2> QED
    BY <1>3, <2>2, <2>3 DEF Base, Size, next
<1>10. CASE Update(t)
  BY <1>9, <1>10 DEF Update
<1>11. CASE CopyQueue(t)
  <2>1. \/ queue_cells' = queue_cells
        \/ /\ tt[t] < next_tail[b]
           /\ \E x : queue_cells' = [queue_cells EXCEPT ![b][current[b] + tt[t]] = x]
    BY <1>11 DEF CopyQueue
  <2>2. next_tail[b] <= QueueSize /\ tt[t] \in Nat
    BY <1>0, <1>5, <1>9, <1>11, ThreadType
  <2>3. ASSUME NEW x, queue_cells' = [queue_cells EXCEPT ![b][current[b] + tt[t]] = x], tt[t] < next_tail[b],
               NEW i \in 0 .. Size(b) - 1
        PROVE  queue_cells'[b][next(b) + i] = queue_cells[b][next(b) + i]
    <3>1. i \in Nat /\ i < QueueSize /\ tt[t] < QueueSize
      BY <1>4, <1>9, <1>11, <2>2, <2>3
    <3>2. next(b) + i # current[b] + tt[t]
      BY <1>4, <2>2, <3>1
    <3>3. queue_cells'[b] = [queue_cells[b] EXCEPT ![current[b] + tt[t]] = x]
      BY <1>0, <2>3 DEF TypeOK
    <3>4. next(b) + i \in 0 .. 2 * QueueSize - 1
      BY <1>4, <3>1
    <3> QED
      BY <1>4, <3>2, <3>3, <3>4
  <2> QED
    BY <1>9, <1>11, <2>1, <2>3
<1> QED
  BY <1>6, <1>7, <1>8, <1>10, <1>11 DEF ThreadStep, Works

\* Hot state s is enabled for the next symbol.
HotOn(b, s) ==
    /\ pc[<<b, s>>] = "init" => s \in nfa(b).start
    /\ pc[<<b, s>>] = "update" => s \in nfa(b).always \/ s + BlockDim \in is_active_state1[b]
    /\ pc[<<b, s>>] \notin {"init", "update"} => s \in is_active_state1[b]

\* The same hot states are enabled after a step.
LEMMA HotStays ==
    ASSUME job' = job, NEW b, \A s \in Hot(nfa(b)) : HotOn(b, s)' <=> HotOn(b, s)
    PROVE  HotEnabled(b)' = HotEnabled(b)
<1> DEFINE Cell1(s) == CASE pc[<<b, s>>] = "init"   -> s \in nfa(b).start
                         [] pc[<<b, s>>] = "update" -> \/ s \in nfa(b).always
                                                       \/ s + BlockDim \in is_active_state1[b]
                         [] OTHER                   -> s \in is_active_state1[b]
<1>1. \A s : Cell1(s) <=> HotOn(b, s)
  <2> TAKE s
  <2>1. CASE pc[<<b, s>>] = "init" BY <2>1 DEF HotOn
  <2>2. CASE pc[<<b, s>>] = "update" BY <2>2 DEF HotOn
  <2>3. CASE pc[<<b, s>>] \notin {"init", "update"} BY <2>3 DEF HotOn
  <2> QED
    BY <2>1, <2>2, <2>3
<1>2. \A s : Cell1(s)' <=> HotOn(b, s)'
  <2> TAKE s
  <2>1. CASE pc'[<<b, s>>] = "init" BY <2>1 DEF HotOn
  <2>2. CASE pc'[<<b, s>>] = "update" BY <2>2 DEF HotOn
  <2>3. CASE pc'[<<b, s>>] \notin {"init", "update"} BY <2>3 DEF HotOn
  <2> QED
    BY <2>1, <2>2, <2>3
<1>3. HotEnabled(b) = { s \in Hot(nfa(b)) : Cell1(s) } /\ HotEnabled(b)' = { s \in Hot(nfa(b)) : Cell1(s)' }
  BY DEF HotEnabled, nfa
<1> HIDE DEF Cell1
<1> QED
  BY <1>1, <1>2, <1>3

\* The hot states, as the steps of the threads find them.
LEMMA ThreadHot ==
    ASSUME AllRoomy, IInv, job' = job, NEW t \in Thread, ThreadStep(t), ColdAfterHot
    PROVE  HotEnabled(t[1])' = HotEnabled(t[1])
<1> DEFINE b == t[1]
<1>0. /\ TypeOK /\ b \in Block /\ t \in ThreadsOf(b) /\ t = <<b, t[2]>> /\ nfa(b)' = nfa(b)
      /\ t[2] \in Nat
      /\ \A s \in Hot(nfa(b)) : <<b, s>> \in ThreadsOf(b) /\ <<b, s>> \in Thread /\ s \in Nat
  <2>1. TypeOK /\ b \in Block /\ t \in ThreadsOf(b) /\ t = <<b, t[2]>> /\ nfa(b)' = nfa(b) /\ t[2] \in Tid
    BY ThreadFacts DEF IInv, nfa
  <2>2. Hot(nfa(b)) \subseteq Tid
    BY <2>1, BlockFacts
  <2>3. \A i \in Tid : <<b, i>> \in ThreadsOf(b) /\ <<b, i>> \in Thread
    BY <2>1, ThreadFacts
  <2>4. Tid \subseteq Nat
    BY BlockDimAssumption DEF Tid
  <2> QED
    BY <2>1, <2>2, <2>3, <2>4
<1> SUFFICES ASSUME NEW s \in Hot(nfa(b)) PROVE HotOn(b, s)' <=> HotOn(b, s)
  <2>1. \A x \in Hot(nfa(b)) : HotOn(b, x)' <=> HotOn(b, x)
    OBVIOUS
  <2> QED
    BY <2>1, HotStays
<1>1. <<b, s>> # t => pc'[<<b, s>>] = pc[<<b, s>>]
  BY <1>0, ThreadFrame
<1>2. CASE Works(t)
  <2>1. s \in is_active_state1'[b] <=> s \in is_active_state1[b]
    BY <1>2, WorksFrame DEF SameWork
  <2>2. /\ pc[t] \in {"hot", "cold", "enable", "push", "store", "entry"}
        /\ Phase(pc'[t]) = Phase(pc[t])
    <3>1. pc[t] \in {"hot", "cold", "enable", "push", "store", "entry"}
      BY <1>2 DEF Works, HotStage, ColdStage, EnableHot, Dedup, Push, Store, ReportEntry, Report, Goto
    <3> QED
      BY <3>1, ThreadFrame
  <2>3. Phase(pc[<<b, s>>]) = 2 /\ Phase(pc'[<<b, s>>]) = 2
    <3>1. Phase(pc[t]) = 2 /\ Phase(pc'[t]) = 2
      BY <2>2 DEF Phase
    <3>2. Phase(pc[t]) = PhaseOf(b) /\ <<b, s>>[1] = b
      BY <1>0, PhaseFacts
    <3>3. Phase(pc[<<b, s>>]) = PhaseOf(b)
      BY <1>0, <3>2, PhaseFacts
    <3> QED
      BY <1>1, <3>1, <3>2, <3>3
  <2>4. pc[<<b, s>>] \notin {"init", "update"} /\ pc'[<<b, s>>] \notin {"init", "update"}
    BY <2>3 DEF Phase
  <2> QED
    BY <1>0, <2>1, <2>4 DEF HotOn
<1>3. CASE Prepare(t) \/ CopyQueue(t)
  <2>1. /\ is_active_state1' = is_active_state1 /\ pc[t] \notin {"init", "update"}
        /\ pc'[t] \notin {"init", "update"}
    BY <1>0, <1>3 DEF Prepare, CopyQueue, Goto, TypeOK
  <2> QED
    BY <1>0, <1>1, <2>1 DEF HotOn
<1>4. ASSUME NEW x, is_active_state1'[b] = Promoted(b, t[2], x), t[2] \in Hot(nfa(b)), <<b, s>> # t
      PROVE  HotOn(b, s)' <=> HotOn(b, s)
  <2>1. s # t[2]
    BY <1>0, <1>4
  <2>2. /\ s \in is_active_state1'[b] <=> s \in is_active_state1[b]
        /\ s + BlockDim \in is_active_state1'[b] <=> s + BlockDim \in is_active_state1[b]
    BY <1>0, <1>4, <2>1, CellsApart DEF Promoted
  <2> QED
    BY <1>0, <1>1, <1>4, <2>2 DEF HotOn
<1>5. s # s + BlockDim
  <2>1. s \in Nat /\ BlockDim \in Nat \ {0}
    BY <1>0, BlockDimAssumption
  <2> HIDE DEF b
  <2> QED
    BY <2>1
<1>6. CASE Begin(t)
  <2>1. is_active_state1'[b] = IF t[2] \in Hot(nfa(b)) THEN Promoted(b, t[2], t[2] \in nfa(b).start)
                                                       ELSE is_active_state1[b]
    BY <1>0, <1>6 DEF Begin, TypeOK
  <2>2. CASE <<b, s>> # t
    <3>1. CASE t[2] \in Hot(nfa(b)) BY <1>4, <2>1, <2>2, <3>1
    <3>2. CASE t[2] \notin Hot(nfa(b)) BY <1>0, <1>1, <2>1, <2>2, <3>2 DEF HotOn
    <3> QED
      BY <3>1, <3>2
  <2>3. CASE <<b, s>> = t
    <3>1. pc[<<b, s>>] = "init" /\ pc'[<<b, s>>] = "sync0" /\ t[2] = s
      <4>1. t[2] = s
        BY <2>3
      <4> QED
        BY <1>0, <1>6, <2>3, <4>1 DEF Begin, Goto, TypeOK
    <3>2. s \in is_active_state1'[b] <=> s \in nfa(b).start
      BY <1>5, <2>1, <3>1 DEF Promoted
    <3> QED
      BY <1>0, <3>1, <3>2 DEF HotOn
  <2> QED
    BY <2>2, <2>3
<1>7. CASE Update(t)
  <2> DEFINE on == t[2] \in nfa(b).always \/ t[2] + BlockDim \in is_active_state1[b]
  <2>1. is_active_state1'[b] = IF t[2] \in Hot(nfa(b)) THEN Promoted(b, t[2], on)
                                                       ELSE is_active_state1[b]
    BY <1>0, <1>7 DEF Update, TypeOK
  <2>2. CASE <<b, s>> # t
    <3>1. CASE t[2] \in Hot(nfa(b)) BY <1>4, <2>1, <2>2, <3>1
    <3>2. CASE t[2] \notin Hot(nfa(b)) BY <1>0, <1>1, <2>1, <2>2, <3>2 DEF HotOn
    <3> QED
      BY <3>1, <3>2
  <2>3. CASE <<b, s>> = t
    <3>1. pc[<<b, s>>] = "update" /\ pc'[<<b, s>>] = "sync3" /\ t[2] = s
      <4>1. t[2] = s
        BY <2>3
      <4> QED
        BY <1>0, <1>7, <2>3, <4>1 DEF Update, Goto, TypeOK
    <3>2. s \in is_active_state1'[b] <=> s \in nfa(b).always \/ s + BlockDim \in is_active_state1[b]
      BY <1>5, <2>1, <3>1 DEF Promoted
    <3> QED
      BY <1>0, <3>1, <3>2 DEF HotOn
  <2> QED
    BY <2>2, <2>3
<1> QED
  BY <1>2, <1>3, <1>6, <1>7 DEF ThreadStep, Works

\* A barrier, as the threads of its block find it.
LEMMA BarrierFacts ==
    ASSUME IInv, job' = job, NEW b \in Block, NEW at, NEW to, Barrier(b, at, to)
    PROVE  /\ \A t \in ThreadsOf(b) : pc[t] = at /\ pc'[t] = to
           /\ Lead(b) \in ThreadsOf(b) /\ <<b, 1>> \in ThreadsOf(b) /\ Lead(b)' = Lead(b)
           /\ Table' = Table /\ nfa(b)' = nfa(b)
           /\ Moving(b) = (at \in {"copy", "update", "sync3"})
           /\ Moving(b)' = (to \in {"copy", "update", "sync3"})
           /\ Size(b) = IF at \in Before THEN next_tail[b] ELSE tail[b]
           /\ Size(b)' = IF to \in Before THEN next_tail[b] ELSE tail[b]
           /\ Base(b) = IF (Table /\ at \in {"copy", "update", "sync3"}) \/ (~Table /\ at \in Before)
                        THEN next(b) ELSE current[b]
           /\ Base(b)' = IF (Table /\ to \in {"copy", "update", "sync3"}) \/ (~Table /\ to \in Before)
                         THEN next(b) ELSE current[b]
           /\ \A s \in Hot(nfa(b)) : <<b, s>> \in ThreadsOf(b)
           /\ UNCHANGED <<current, queue_cells, tail, next_tail, is_active_state1>>
<1>0. /\ TypeOK /\ \A t \in ThreadsOf(b) : t \in Thread /\ t[1] = b
      /\ Lead(b) \in ThreadsOf(b) /\ <<b, 1>> \in ThreadsOf(b) /\ Lead(b)' = Lead(b)
      /\ \A i \in Tid : <<b, i>> \in ThreadsOf(b)
  BY ThreadFacts DEF IInv, Lead
<1>1. \A t \in ThreadsOf(b) : pc[t] = at /\ pc'[t] = to
  BY <1>0 DEF Barrier
<1>2. UNCHANGED <<current, queue_cells, tail, next_tail, is_active_state1>>
  BY DEF Barrier, shared
<1>3. Hot(nfa(b)) \subseteq Tid
  BY <1>0, BlockFacts
<1>4. Table' = Table /\ nfa(b)' = nfa(b)
  BY DEF Table, nfa
<1>5. pc[Lead(b)] = at /\ pc'[Lead(b)] = to /\ pc[<<b, 1>>] = at /\ pc'[<<b, 1>>] = to
  BY <1>0, <1>1
<1>6. /\ Moving(b) = (at \in {"copy", "update", "sync3"})
      /\ Moving(b)' = (to \in {"copy", "update", "sync3"})
  BY <1>0, <1>5 DEF Moving
<1>7. /\ Size(b) = IF at \in Before THEN next_tail[b] ELSE tail[b]
      /\ Size(b)' = IF to \in Before THEN next_tail[b] ELSE tail[b]
  BY <1>0, <1>2, <1>5 DEF Size, Before
<1>8. Base(b) = IF (Table /\ at \in {"copy", "update", "sync3"}) \/ (~Table /\ at \in Before)
                THEN next(b) ELSE current[b]
  BY <1>5, <1>6 DEF Base, Before
<1>9. Base(b)' = IF (Table /\ to \in {"copy", "update", "sync3"}) \/ (~Table /\ to \in Before)
                 THEN next(b) ELSE current[b]
  BY <1>2, <1>4, <1>5, <1>6 DEF Base, Before, next
<1> QED
  BY <1>0, <1>1, <1>2, <1>3, <1>4, <1>6, <1>7, <1>8, <1>9

\* The threads that leave a barrier.
LEMMA BarrierMoves ==
    ASSUME NEW b \in Block, NEW at, NEW to, Barrier(b, at, to)
    PROVE  \A t \in ThreadsOf(b) : pc[t] = at /\ pc'[t] = to
BY ThreadFacts DEF Barrier

\* The barriers at which no symbol is consumed.
LEMMA BarrierTurns ==
    ASSUME IInv, TypeOK', job' = job, NEW b \in Block, BlockStage(b), Sync0(b) \/ Sync1(b) \/ Sync3(b)
    PROVE  /\ Queued(b)' = Queued(b) /\ HotEnabled(b)' = HotEnabled(b)
           /\ Pos(b)' + (IF Moving(b)' THEN 1 ELSE 0) = Pos(b) + (IF Moving(b) THEN 1 ELSE 0)
<1>0. TypeOK /\ next_tail[b] \in Nat /\ tail[b] \in Nat
  BY BlockType DEF IInv
<1>1. ASSUME NEW at, NEW to, Barrier(b, at, to), at \notin {"init", "update"}, to \notin {"init", "update"}
      PROVE  HotEnabled(b)' = HotEnabled(b)
  <2>1. \A s \in Hot(nfa(b)) : HotOn(b, s)' <=> HotOn(b, s)
    <3>1. \A t \in ThreadsOf(b) : pc[t] = at /\ pc'[t] = to
      BY <1>1, BarrierMoves
    <3>2. \A s \in Hot(nfa(b)) : <<b, s>> \in ThreadsOf(b)
      BY <1>1, BarrierFacts
    <3>3. nfa(b)' = nfa(b) /\ is_active_state1' = is_active_state1
      BY <1>1, BarrierFacts
    <3> QED
      BY <1>1, <3>1, <3>2, <3>3 DEF HotOn
  <2> QED
    BY <2>1, HotStays
<1>2. CASE Sync0(b)
  <2>1. PICK to \in {"prepare", "done"} : Barrier(b, "sync0", to) /\ symbol_pos' = symbol_pos
    BY <1>2 DEF Sync0, LoopTest
  <2>2. HotEnabled(b)' = HotEnabled(b)
    BY <1>1, <2>1
  <2>3. pc[Lead(b)] = "sync0" /\ pc'[Lead(b)] = to
    <3>1. \A t \in ThreadsOf(b) : pc[t] = "sync0" /\ pc'[t] = to
      BY <2>1, BarrierMoves
    <3> QED
      BY <3>1, ThreadFacts
  <2>4. next_tail[b] = 0
    BY <2>3 DEF IInv, BlockInv
  <2>5. Size(b)' = 0
    <3>1. Size(b)' = IF to \in Before THEN next_tail[b] ELSE tail[b]
      BY <2>1, BarrierFacts
    <3> QED
      BY <2>1, <2>4, <3>1 DEF Before
  <2>6. Queued(b) = {}
    BY <2>3 DEF Queued, Queue
  <2>7. Queued(b)' = {}
    <3>1. CASE ~job.run_cold_stage BY <3>1 DEF Queued
    <3>2. CASE job.run_cold_stage
      <4>1. \A x : x \in Queued(b)' <=> \E i \in 0 .. Size(b)' - 1 : x = queue_cells'[b][Base(b)' + i]
        BY <2>1, <2>3, <3>2, QueuedBecomes
      <4> QED
        BY <2>5, <4>1
    <3> QED
      BY <3>1, <3>2
  <2>8. ~Moving(b) /\ ~Moving(b)' /\ Pos(b)' = Pos(b)
    <3>1. /\ Moving(b) = ("sync0" \in {"copy", "update", "sync3"})
          /\ Moving(b)' = (to \in {"copy", "update", "sync3"})
      BY <2>1, BarrierFacts
    <3> QED
      BY <2>1, <3>1 DEF Pos, Lead
  <2> QED
    BY <2>2, <2>6, <2>7, <2>8
<1>3. CASE Sync1(b)
  <2>1. Barrier(b, "sync1", "hot") /\ symbol_pos' = symbol_pos
    BY <1>3 DEF Sync1
  <2>2. HotEnabled(b)' = HotEnabled(b)
    BY <1>1, <2>1
  <2>3. pc[Lead(b)] = "sync1" /\ pc'[Lead(b)] = "hot"
    <3>1. \A t \in ThreadsOf(b) : pc[t] = "sync1" /\ pc'[t] = "hot"
      BY <2>1, BarrierMoves
    <3> QED
      BY <3>1, ThreadFacts
  <2>4. /\ Size(b) = tail[b] /\ Size(b)' = tail[b] /\ Base(b) = current[b] /\ Base(b)' = current[b]
        /\ queue_cells' = queue_cells
    <3>1. /\ Size(b) = IF "sync1" \in Before THEN next_tail[b] ELSE tail[b]
          /\ Size(b)' = IF "hot" \in Before THEN next_tail[b] ELSE tail[b]
      BY <2>1, BarrierFacts
    <3>2. Base(b) = IF (Table /\ "sync1" \in {"copy", "update", "sync3"}) \/ (~Table /\ "sync1" \in Before)
                    THEN next(b) ELSE current[b]
      BY <2>1, BarrierFacts
    <3>3. Base(b)' = IF (Table /\ "hot" \in {"copy", "update", "sync3"}) \/ (~Table /\ "hot" \in Before)
                     THEN next(b) ELSE current[b]
      BY <2>1, BarrierFacts
    <3>4. queue_cells' = queue_cells
      BY <2>1 DEF Barrier, shared
    <3> QED
      BY <3>1, <3>2, <3>3, <3>4 DEF Before
  <2>5. Queued(b)' = Queued(b)
    BY <1>0, <2>3, <2>4, QueuedStays
  <2>6. ~Moving(b) /\ ~Moving(b)' /\ Pos(b)' = Pos(b)
    <3>1. /\ Moving(b) = ("sync1" \in {"copy", "update", "sync3"})
          /\ Moving(b)' = ("hot" \in {"copy", "update", "sync3"})
      BY <2>1, BarrierFacts
    <3> QED
      BY <2>1, <3>1 DEF Pos, Lead
  <2> QED
    BY <2>2, <2>5, <2>6
<1>4. CASE Sync3(b)
  <2>1. PICK to \in {"prepare", "done"} :
           /\ Barrier(b, "sync3", to)
           /\ symbol_pos' = [t \in Thread |-> IF t[1] = b THEN symbol_pos[t] + 1 ELSE symbol_pos[t]]
    BY <1>4 DEF Sync3, EndSymbol, LoopTest
  <2>2. HotEnabled(b)' = HotEnabled(b)
    BY <1>1, <2>1
  <2>3. pc[Lead(b)] = "sync3" /\ pc'[Lead(b)] = to
    <3>1. \A t \in ThreadsOf(b) : pc[t] = "sync3" /\ pc'[t] = to
      BY <2>1, BarrierMoves
    <3> QED
      BY <3>1, ThreadFacts
  <2>4. /\ Size(b) = next_tail[b] /\ Size(b)' = next_tail[b] /\ Base(b) = next(b)
        /\ Base(b)' = IF Table THEN current[b] ELSE next(b)
        /\ queue_cells' = queue_cells
    <3>1. /\ Size(b) = IF "sync3" \in Before THEN next_tail[b] ELSE tail[b]
          /\ Size(b)' = IF to \in Before THEN next_tail[b] ELSE tail[b]
      BY <2>1, BarrierFacts
    <3>2. Base(b) = IF (Table /\ "sync3" \in {"copy", "update", "sync3"}) \/ (~Table /\ "sync3" \in Before)
                    THEN next(b) ELSE current[b]
      BY <2>1, BarrierFacts
    <3>3. Base(b)' = IF (Table /\ to \in {"copy", "update", "sync3"}) \/ (~Table /\ to \in Before)
                     THEN next(b) ELSE current[b]
      BY <2>1, BarrierFacts
    <3>4. queue_cells' = queue_cells
      BY <2>1 DEF Barrier, shared
    <3> QED
      BY <2>1, <3>1, <3>2, <3>3, <3>4 DEF Before
  <2>5. ASSUME Table, NEW i \in 0 .. next_tail[b] - 1
        PROVE  queue_cells[b][current[b] + i] = queue_cells[b][next(b) + i]
    <3>1. i \in Nat /\ i % BlockDim \in Tid
      BY <1>0, Strides
    <3>2. PICK t \in ThreadsOf(b) : t[2] = i % BlockDim /\ t[1] = b
      BY <3>1, ThreadFacts
    <3>3. pc[t] = "sync3" /\ ThreadInv(t)
      <4>1. \A u \in ThreadsOf(b) : pc[u] = "sync3" /\ pc'[u] = to
        BY <2>1, BarrierMoves
      <4>2. ThreadInv(t)
        BY <3>2 DEF IInv, BlockInv
      <4> QED
        BY <3>2, <4>1, <4>2
    <3> QED
      BY <2>5, <3>2, <3>3 DEF ThreadInv, Cell
  <2>6. \A i \in 0 .. Size(b) - 1 : queue_cells'[b][Base(b)' + i] = queue_cells[b][Base(b) + i]
    BY <2>4, <2>5
  <2>7. Queued(b)' = Queued(b)
    BY <1>0, <2>1, <2>3, <2>4, <2>6, QueuedStays
  <2>8. Moving(b) /\ ~Moving(b)'
    <3>1. /\ Moving(b) = ("sync3" \in {"copy", "update", "sync3"})
          /\ Moving(b)' = (to \in {"copy", "update", "sync3"})
      BY <2>1, BarrierFacts
    <3> QED
      BY <2>1, <3>1
  <2>9. Pos(b)' = Pos(b) + 1 /\ Pos(b) \in Nat
    <3>1. Lead(b) \in Thread /\ Lead(b)[1] = b /\ Lead(b)' = Lead(b)
      BY ThreadFacts DEF Lead
    <3>2. symbol_pos'[Lead(b)] = symbol_pos[Lead(b)] + 1 /\ symbol_pos[Lead(b)] \in Nat
      BY <1>0, <2>1, <3>1 DEF TypeOK
    <3> QED
      BY <3>1, <3>2 DEF Pos
  <2> QED
    BY <2>2, <2>7, <2>8, <2>9
<1> QED
  BY <1>2, <1>3, <1>4

\* The barrier at which a symbol is consumed.
LEMMA BarrierEnds ==
    ASSUME IInv, TypeOK', job' = job, NEW b \in Block, BlockStage(b),
           Sync2(b) \/ Sync2BeforeCopy(b) \/ Sync2BeforeUpdate(b)
    PROVE  /\ \A t \in ThreadsOf(b) : pc[t] = "sync2"
           /\ Queued(b) = ColdRun(b) /\ Queued(b)' = ColdNext(b)
           /\ ColdAfterHot => HotEnabled(b) = HotRun(b) /\ HotEnabled(b)' = HotNext(b)
           /\ Pos(b)' + (IF Moving(b)' THEN 1 ELSE 0) = Pos(b) + 1
           /\ ~Moving(b) /\ Pos(b) \in Nat
<1>0. /\ TypeOK /\ next_tail[b] \in Nat /\ tail[b] \in Nat /\ Lead(b) \in ThreadsOf(b)
      /\ Lead(b) \in Thread /\ Lead(b)[1] = b /\ Lead(b)' = Lead(b)
  BY BlockType, ThreadFacts DEF IInv, Lead
<1>1. PICK to \in {"prepare", "done", "copy", "update"} :
         /\ Barrier(b, "sync2", to)
         /\ IF to \in {"copy", "update"} THEN symbol_pos' = symbol_pos
            ELSE symbol_pos' = [t \in Thread |-> IF t[1] = b THEN symbol_pos[t] + 1 ELSE symbol_pos[t]]
         /\ to = "copy" <=> Table /\ job.run_cold_stage
         /\ to = "update" <=> ColdAfterHot
  <2>1. Table => ~ColdAfterHot
    BY DEF Table, ColdAfterHot
  <2>2. CASE Sync2(b)
    <3>1. PICK to \in {"prepare", "done"} : Barrier(b, "sync2", to)
      BY <2>2 DEF Sync2, EndSymbol, LoopTest
    <3>2. symbol_pos' = [t \in Thread |-> IF t[1] = b THEN symbol_pos[t] + 1 ELSE symbol_pos[t]]
      BY <2>2 DEF Sync2, EndSymbol
    <3>3. ~(Table /\ job.run_cold_stage) /\ ~ColdAfterHot
      BY <2>2 DEF Sync2, QueueIsCopied
    <3> QED
      BY <3>1, <3>2, <3>3
  <2>3. CASE Sync2BeforeCopy(b)
    <3>1. /\ Table /\ job.run_cold_stage /\ ~ColdAfterHot
          /\ Barrier(b, "sync2", "copy") /\ symbol_pos' = symbol_pos
      BY <2>1, <2>3 DEF Sync2BeforeCopy, QueueIsCopied
    <3> QED
      BY <3>1
  <2>4. CASE Sync2BeforeUpdate(b)
    BY <2>1, <2>4 DEF Sync2BeforeUpdate, QueueIsCopied
  <2> QED
    BY <2>2, <2>3, <2>4
<1>12. Barrier(b, "sync2", to)
  BY <1>1
<1>2. \A t \in ThreadsOf(b) : pc[t] = "sync2" /\ pc'[t] = to
  BY <1>12, BarrierMoves
<1>3. \A s \in Hot(nfa(b)) : <<b, s>> \in ThreadsOf(b)
  <2>1. \A s \in Hot(nfa(b)) : s \in Tid
    BY BlockFacts DEF IInv
  <2> QED
    BY <2>1, ThreadFacts
<1>4. nfa(b)' = nfa(b) /\ UNCHANGED <<current, queue_cells, tail, next_tail, is_active_state1>>
  BY <1>12, BarrierFacts
<1>5. pc[Lead(b)] = "sync2" /\ pc'[Lead(b)] = to
  BY <1>0, <1>2
<1>6. Queued(b) = ColdRun(b)
  <2>1. CASE ~job.run_cold_stage BY <2>1 DEF Queued, ColdRun
  <2>2. CASE job.run_cold_stage
    <3>1. \A x : x \in Queued(b) <=> \E i \in 0 .. Size(b) - 1 : x = queue_cells[b][Base(b) + i]
      BY <1>0, <1>5, <2>2, QueuedIs
    <3>2. Base(b) = current[b] /\ Size(b) = tail[b]
      <4>1. Lead(b) \in Thread /\ Lead(b)[1] = b /\ PhaseOf(b) = 2
        BY <1>0, <1>5 DEF PhaseOf, Phase
      <4>2. PhaseOf(Lead(b)[1]) = 2
        BY <4>1
      <4>3. Base(Lead(b)[1]) = current[Lead(b)[1]] /\ Size(Lead(b)[1]) = tail[Lead(b)[1]]
        BY <1>0, <4>2, PhaseFacts
      <4> QED
        BY <1>0, <4>3
    <3> QED
      BY <2>2, <3>1, <3>2 DEF ColdRun, Waiting
  <2> QED
    BY <2>1, <2>2
<1>7. Queued(b)' = ColdNext(b)
  <2>1. CASE ~job.run_cold_stage BY <2>1 DEF Queued, ColdNext
  <2>2. CASE job.run_cold_stage
    <3>1. \A x : x \in Queued(b)' <=> \E i \in 0 .. Size(b)' - 1 : x = queue_cells'[b][Base(b)' + i]
      BY <1>1, <1>5, <2>2, QueuedBecomes
    <3>2. Size(b)' = IF to \in Before THEN next_tail[b] ELSE tail[b]
      BY <1>12, BarrierFacts
    <3>3. Base(b)' = IF (Table /\ to \in {"copy", "update", "sync3"}) \/ (~Table /\ to \in Before)
                     THEN next(b) ELSE current[b]
      BY <1>12, BarrierFacts
    <3>4. Size(b)' = next_tail[b] /\ Base(b)' = next(b)
      BY <1>1, <2>2, <3>2, <3>3 DEF Before
    <3> QED
      BY <1>4, <2>2, <3>1, <3>4 DEF ColdNext, NextQueued, Cell
  <2> QED
    BY <2>1, <2>2
<1>8. ASSUME ColdAfterHot PROVE HotEnabled(b) = HotRun(b) /\ HotEnabled(b)' = HotNext(b)
  <2>1. \A s \in Hot(nfa(b)) : pc[<<b, s>>] = "sync2" /\ pc'[<<b, s>>] = "update"
    BY <1>1, <1>2, <1>3, <1>8
  <2>2. HotEnabled(b) = { s \in Hot(nfa(b)) : s \in is_active_state1[b] }
    BY <2>1 DEF HotEnabled
  <2>3. HotEnabled(b)' = HotNext(b)
    BY <1>4, <2>1 DEF HotEnabled, HotNext
  <2> QED
    BY <1>8, <2>2, <2>3 DEF HotRun
<1>9. (Moving(b)' <=> to \in {"copy", "update"}) /\ ~Moving(b)
  BY <1>0, <1>1, <1>5 DEF Moving
<1>10. Pos(b)' = Pos(b) + (IF to \in {"copy", "update"} THEN 0 ELSE 1) /\ Pos(b) \in Nat
  <2>1. symbol_pos[Lead(b)] \in Nat
    BY <1>0 DEF TypeOK
  <2>2. symbol_pos'[Lead(b)] = symbol_pos[Lead(b)] + (IF to \in {"copy", "update"} THEN 0 ELSE 1)
    BY <1>0, <1>1, <2>1
  <2> QED
    BY <1>0, <2>1, <2>2 DEF Pos
<1>11. Pos(b)' + (IF Moving(b)' THEN 1 ELSE 0) = Pos(b) + 1
  <2>1. \/ Moving(b)' /\ Pos(b)' = Pos(b) + 0
        \/ ~Moving(b)' /\ Pos(b)' = Pos(b) + 1
    BY <1>9, <1>10
  <2>2. Pos(b) \in Nat
    BY <1>10
  <2>3. \/ Moving(b)' /\ Pos(b)' = Pos(b)
        \/ ~Moving(b)' /\ Pos(b)' = Pos(b) + 1
    BY <2>1, <2>2
  <2> QED
    BY <2>2, <2>3
<1> QED
  BY <1>2, <1>6, <1>7, <1>8, <1>9, <1>10, <1>11

-----------------------------------------------------------------------------
(* Refinement: the barrier after the stages is the simultaneous step of      *)
(* EnableActiveNFA, and every other step is a stutter.                       *)

\* abs_position, for a block.
At(b) == Pos(b) + (IF Moving(b) THEN 1 ELSE 0)

\* The symbols a block has consumed.
LEMMA PositionIs ==
    ASSUME TypeOK, NEW b \in Block
    PROVE  /\ abs_position[b] = At(b) /\ Pos(b) \in Nat
           /\ At(b) = Pos(b) \/ At(b) = Pos(b) + 1
           /\ ~Moving(b) => At(b) = Pos(b)
<1>1. Pos(b) \in Nat
  BY ThreadFacts DEF Pos, TypeOK
<1> QED
  BY <1>1 DEF abs_position, At, Pos

\* A block's part of the abstract state stays.
AbsStays(b) ==
    /\ Queued(b)' = Queued(b) /\ (ColdAfterHot => HotEnabled(b)' = HotEnabled(b))
    /\ At(b)' = At(b)

\* A block whose queue, cells and position stay has the same enabled states.
LEMMA BlockAbsStays ==
    ASSUME job' = job, NEW b \in Block, AbsStays(b)
    PROVE  abs_enabled'[b] = abs_enabled[b] /\ abs_position'[b] = abs_position[b]
<1>1. abs_position'[b] = abs_position[b]
  BY DEF abs_position, AbsStays, At, Pos
<1>2. nfa(b)' = nfa(b) /\ Table' = Table /\ ColdAfterHot' = ColdAfterHot
  BY DEF nfa, Table, ColdAfterHot
<1>3. abs_enabled[b] = EnabledBy(b, HotEnabled(b), Queued(b))
  BY DEF abs_enabled, EnabledBy
<1>4. abs_enabled'[b] = EnabledBy(b, HotEnabled(b)', Queued(b)')
  BY <1>2 DEF abs_enabled, EnabledBy
<1>7. Queued(b)' = Queued(b) /\ (ColdAfterHot => HotEnabled(b)' = HotEnabled(b))
  BY DEF AbsStays
<1>5. CASE ColdAfterHot
  <2>1. HotEnabled(b)' = HotEnabled(b)
    BY <1>5, <1>7
  <2> QED
    BY <1>1, <1>3, <1>4, <1>7, <2>1
<1>6. CASE ~ColdAfterHot
  <2>1. \A x, y, z : EnabledBy(b, x, z) = EnabledBy(b, y, z)
    <3>1. CASE Table BY <1>6, <3>1 DEF EnabledBy
    <3>2. CASE ~Table BY <1>6, <3>2 DEF EnabledBy
    <3> QED
      BY <3>1, <3>2
  <2> QED
    BY <1>1, <1>3, <1>4, <1>7, <2>1
<1> QED
  BY <1>1, <1>5, <1>6

\* A step that a block takes no part in.
LEMMA AbsElsewhere ==
    ASSUME TypeOK, job' = job, NEW b \in Block,
           \A t \in ThreadsOf(b) : pc'[t] = pc[t] /\ symbol_pos'[t] = symbol_pos[t],
           current'[b] = current[b], queue_cells'[b] = queue_cells[b], tail'[b] = tail[b],
           next_tail'[b] = next_tail[b], is_active_state1'[b] = is_active_state1[b]
    PROVE  AbsStays(b)
<1>0. /\ Lead(b) \in ThreadsOf(b) /\ <<b, 1>> \in ThreadsOf(b) /\ Lead(b)' = Lead(b)
      /\ nfa(b)' = nfa(b) /\ Table' = Table
      /\ \A i \in Tid : <<b, i>> \in ThreadsOf(b)
      /\ Hot(nfa(b)) \subseteq Tid
  BY ThreadFacts, BlockFacts DEF Lead, nfa, Table
<1>1. /\ pc'[Lead(b)] = pc[Lead(b)] /\ pc'[<<b, 1>>] = pc[<<b, 1>>]
      /\ symbol_pos'[Lead(b)] = symbol_pos[Lead(b)]
  BY <1>0
<1>2. (Moving(b)' <=> Moving(b)) /\ Pos(b)' = Pos(b)
  BY <1>0, <1>1 DEF Moving, Pos
<1>3. Base(b)' = Base(b) /\ Size(b)' = Size(b)
  BY <1>0, <1>1, <1>2 DEF Base, Size, next
<1>4. Queue(b)' = Queue(b)
  BY <1>0, <1>1, <1>3 DEF Queue
<1>5. Queued(b)' = Queued(b)
  BY <1>4 DEF Queued
<1>6. HotEnabled(b)' = HotEnabled(b)
  <2>1. \A s \in Hot(nfa(b)) : HotOn(b, s)' <=> HotOn(b, s)
    BY <1>0 DEF HotOn
  <2> QED
    BY <2>1, HotStays
<1>7. At(b)' = At(b)
  BY <1>2 DEF At
<1> QED
  BY <1>5, <1>6, <1>7 DEF AbsStays

\* A thread's step is a stutter of EnableActiveNFA.
LEMMA ThreadStutters ==
    ASSUME AllRoomy, IInv, StageInv, TypeOK', job' = job, NEW t \in Thread, ThreadStep(t)
    PROVE  UNCHANGED <<abs_job, abs_position, abs_enabled, abs_reports>>
<1> DEFINE b == t[1]
<1>0. /\ TypeOK /\ b \in Block /\ t \in ThreadsOf(b) /\ Positions(b)
      /\ \A c \in Block : \A u \in ThreadsOf(c) : u \in Thread /\ u[1] = c
  BY ThreadFacts DEF IInv, StageInv, BlockStage
<1>1. symbol_pos' = symbol_pos /\ PhaseOf(b)' = PhaseOf(b)
  BY ThreadFrame
<1>2. AbsStays(b)
  <2>1. Queued(b)' = Queued(b)
    BY ThreadQueue
  <2>2. ColdAfterHot => HotEnabled(b)' = HotEnabled(b)
    BY ThreadHot
  <2>3. Moving(b) <=> PhaseOf(b) = 3
    BY DEF Moving, PhaseOf, Phase
  <2>4. Moving(b)' <=> PhaseOf(b)' = 3
    BY DEF Moving, PhaseOf, Phase
  <2>5. Pos(b)' = Pos(b)
    BY <1>1 DEF Pos, Lead
  <2> QED
    BY <1>1, <2>1, <2>2, <2>3, <2>4, <2>5 DEF AbsStays, At
<1>3. ASSUME NEW c \in Block, c # b PROVE AbsStays(c)
  <2>1. \A u \in ThreadsOf(c) : pc'[u] = pc[u] /\ symbol_pos'[u] = symbol_pos[u]
    <3>1. \A u \in ThreadsOf(c) : u \in Thread /\ u # t
      BY <1>0, <1>3
    <3> QED
      BY <1>1, <3>1, ThreadFrame
  <2>2. /\ current'[c] = current[c] /\ queue_cells'[c] = queue_cells[c] /\ tail'[c] = tail[c]
        /\ next_tail'[c] = next_tail[c] /\ is_active_state1'[c] = is_active_state1[c]
    BY <1>3, ThreadFrame
  <2> QED
    BY <1>0, <2>1, <2>2, AbsElsewhere
<1>4. \A c \in Block : abs_enabled'[c] = abs_enabled[c] /\ abs_position'[c] = abs_position[c]
  BY <1>2, <1>3, BlockAbsStays
<1>5. abs_position' = abs_position /\ abs_enabled' = abs_enabled
  BY <1>4 DEF abs_position, abs_enabled
<1>6. abs_reports' = abs_reports
  <2>1. reports \subseteq reports'
    BY ThreadFrame
  <2>2. ASSUME NEW r \in reports', r \notin reports PROVE ~(r[2] < abs_position[r[1]])
    <3>1. r[1] = b /\ r[2] = symbol_pos[t] /\ PhaseOf(b) = 2
      BY <2>2, ThreadFrame
    <3>2. ~Moving(b)
      BY <3>1 DEF Moving, PhaseOf, Phase
    <3>3. symbol_pos[t] = Pos(b)
      BY <1>0 DEF Positions
    <3>4. abs_position[b] = Pos(b) /\ Pos(b) \in Nat
      BY <1>0, <3>2, PositionIs
    <3> QED
      BY <3>1, <3>3, <3>4
  <2> QED
    BY <1>5, <2>1, <2>2 DEF abs_reports
<1> QED
  BY <1>5, <1>6 DEF abs_job

\* So are the barriers at which no symbol is consumed.
LEMMA BarrierStutters ==
    ASSUME IInv, StageInv, TypeOK', job' = job, NEW b \in Block, BlockStep(b),
           Sync0(b) \/ Sync1(b) \/ Sync3(b)
    PROVE  UNCHANGED <<abs_job, abs_position, abs_enabled, abs_reports>>
<1>0. TypeOK /\ BlockStage(b)
  BY DEF IInv, StageInv
<1>1. AbsStays(b)
  BY <1>0, BarrierTurns DEF AbsStays, At
<1>2. ASSUME NEW c \in Block, c # b PROVE AbsStays(c)
  <2>1. \A u \in ThreadsOf(c) : pc'[u] = pc[u] /\ symbol_pos'[u] = symbol_pos[u]
    BY <1>2, BarrierFrame
  <2>2. UNCHANGED shared
    BY BarrierFrame
  <2> QED
    BY <1>0, <2>1, <2>2, AbsElsewhere DEF shared
<1>3. \A c \in Block : abs_enabled'[c] = abs_enabled[c] /\ abs_position'[c] = abs_position[c]
  BY <1>1, <1>2, BlockAbsStays
<1>4. abs_position' = abs_position /\ abs_enabled' = abs_enabled
  BY <1>3 DEF abs_position, abs_enabled
<1>5. reports' = reports
  BY BarrierFrame
<1> QED
  BY <1>4, <1>5 DEF abs_job, abs_reports

\* The barrier after the stages consumes the symbol.
LEMMA BarrierConsumes ==
    ASSUME IInv, StageInv, TypeOK', job' = job, NEW b \in Block, BlockStep(b),
           Sync2(b) \/ Sync2BeforeCopy(b) \/ Sync2BeforeUpdate(b)
    PROVE  Abs!Consume(b)
<1> DEFINE p == Pos(b)
           c == Symbol1(b)
           m == HotAlways(nfa(b), job)
<1>0. TypeOK /\ BlockStage(b) /\ Positions(b)
  BY DEF IInv, StageInv, BlockStage
<1>1. /\ \A t \in ThreadsOf(b) : pc[t] = "sync2"
      /\ Queued(b) = ColdRun(b) /\ Queued(b)' = ColdNext(b)
      /\ ColdAfterHot => HotEnabled(b) = HotRun(b) /\ HotEnabled(b)' = HotNext(b)
      /\ At(b)' = p + 1 /\ ~Moving(b) /\ p \in Nat
  BY <1>0, BarrierEnds DEF At
<1>2. PhaseOf(b) = 2 /\ StageEnded(b)
  BY <1>0, <1>1, AtStageEnd
<1>3. p < Len(input(b))
  BY <1>0, <1>2, MatchFacts
<1>4. /\ NextEnabled(m, EnabledBy(b, HotRun(b), ColdRun(b)), c) = EnabledBy(b, HotNext(b), ColdNext(b))
      /\ Reporting(m, EnabledBy(b, HotRun(b), ColdRun(b)), c) = ToldNow(b)
  BY <1>0, <1>2, StageSymbol
<1>5. Table' = Table /\ ColdAfterHot' = ColdAfterHot /\ nfa(b)' = nfa(b)
  BY DEF Table, ColdAfterHot, nfa
<1>6. ~ColdAfterHot => \A x, y, z : EnabledBy(b, x, z) = EnabledBy(b, y, z)
  <2> SUFFICES ASSUME ~ColdAfterHot, NEW x, NEW y, NEW z
               PROVE  EnabledBy(b, x, z) = EnabledBy(b, y, z)
    OBVIOUS
  <2>1. CASE Table BY <2>1 DEF EnabledBy
  <2>2. CASE ~Table BY <2>2 DEF EnabledBy
  <2> QED
    BY <2>1, <2>2
<1>7. abs_enabled[b] = EnabledBy(b, HotRun(b), ColdRun(b))
  <2>1. abs_enabled[b] = EnabledBy(b, HotEnabled(b), Queued(b))
    BY EnabledIs
  <2> QED
    BY <1>1, <1>6, <2>1
<1>8. abs_enabled'[b] = EnabledBy(b, HotNext(b), ColdNext(b))
  <2>1. abs_enabled'[b] = EnabledBy(b, HotEnabled(b)', Queued(b)')
    BY <1>5 DEF abs_enabled, EnabledBy
  <2> QED
    BY <1>1, <1>6, <2>1
<1>9. abs_position[b] = p /\ abs_position'[b] = p + 1
  <2>1. abs_position[b] = p
    BY <1>0, <1>1, PositionIs
  <2>2. abs_position'[b] = At(b)'
    BY DEF abs_position, At, Pos
  <2> QED
    BY <1>1, <2>1, <2>2
<1>10. ASSUME NEW d \in Block, d # b
       PROVE  abs_enabled'[d] = abs_enabled[d] /\ abs_position'[d] = abs_position[d]
  <2>1. \A u \in ThreadsOf(d) : pc'[u] = pc[u] /\ symbol_pos'[u] = symbol_pos[u]
    BY <1>10, BarrierFrame
  <2>2. UNCHANGED shared
    BY BarrierFrame
  <2>3. AbsStays(d)
    BY <1>0, <2>1, <2>2, AbsElsewhere DEF shared
  <2> QED
    BY <2>3, BlockAbsStays
<1>11. abs_position' = [abs_position EXCEPT ![b] = @ + 1]
  BY <1>9, <1>10 DEF abs_position
<1>12. abs_enabled' = [abs_enabled EXCEPT ![b] = NextEnabled(m, @, c)]
  BY <1>4, <1>7, <1>8, <1>10 DEF abs_enabled
<1>13. abs_reports' = abs_reports \cup { <<b, p, s>> : s \in Reporting(m, abs_enabled[b], c) }
  <2>1. reports' = reports
    BY BarrierFrame
  <2>2. reports \subseteq Block \X Nat \X Nat
    BY <1>0 DEF TypeOK
  <2>3. ASSUME NEW r \in reports
        PROVE  r[2] < abs_position'[r[1]] <=>
               \/ r[2] < abs_position[r[1]]
               \/ \E s \in ToldNow(b) : r = <<b, p, s>>
    <3>1. CASE r[1] = b
      <4>1. /\ r = <<b, r[2], r[3]>> /\ r[2] \in Nat
            /\ r[2] < p \/ r[2] = p
        BY <1>0, <2>2, <3>1 DEF Positions
      <4>2. r[2] = p => r[3] \in ToldNow(b)
        <5>1. ASSUME r[2] = p PROVE <<b, Pos(b), r[3]>> \in reports
          BY <4>1, <5>1
        <5> QED
          BY <1>2, <5>1 DEF StageEnded
      <4>3. r[2] < p + 1
        BY <1>1, <4>1
      <4>4. abs_position'[r[1]] = p + 1 /\ abs_position[r[1]] = p
        BY <1>9, <3>1
      <4>5. r[2] < p \/ \E s \in ToldNow(b) : r = <<b, p, s>>
        BY <4>1, <4>2
      <4> QED
        BY <4>3, <4>4, <4>5
    <3>2. CASE r[1] # b
      BY <1>10, <2>2, <3>2
    <3> QED
      BY <3>1, <3>2
  <2>4. \A s \in ToldNow(b) : <<b, p, s>> \in reports
    BY <1>2 DEF StageEnded
  <2>5. abs_reports' = { r \in reports : r[2] < abs_position'[r[1]] }
    BY <2>1 DEF abs_reports
  <2>6. abs_reports = { r \in reports : r[2] < abs_position[r[1]] }
    BY DEF abs_reports
  <2> HIDE DEF p
  <2>7. abs_reports' = abs_reports \cup { <<b, p, s>> : s \in ToldNow(b) }
    BY <2>3, <2>4, <2>5, <2>6
  <2> QED
    BY <1>4, <1>7, <2>7
<1>14. Abs!nfa(b) = m /\ Abs!input(b) = input(b)
  <2>1. b[1] \in Group
    BY DEF Block
  <2> QED
    BY <2>1 DEF Abs!nfa, Abs!input, nfa, input, abs_job, HotAlwaysJob
<1>15. Abs!NextEnabled(m, abs_enabled[b], c) = NextEnabled(m, abs_enabled[b], c)
  BY DEF Abs!NextEnabled, NextEnabled, Abs!Successors, Successors, Abs!Activated, Activated,
         Abs!match2, match2
<1>16. Abs!Reporting(m, abs_enabled[b], c) = Reporting(m, abs_enabled[b], c)
  BY DEF Abs!Reporting, Reporting, Abs!Activated, Activated, Abs!match2, match2
<1>17. [abs_enabled EXCEPT ![b] = NextEnabled(m, @, c)] =
       [abs_enabled EXCEPT ![b] = Abs!NextEnabled(m, @, c)]
  BY <1>15
<1>18. abs_job' = abs_job
  BY DEF abs_job
<1>19. c = input(b)[abs_position[b] + 1]
  BY <1>9 DEF Symbol1
<1> HIDE DEF p, c, m
<1> QED
  BY <1>3, <1>9, <1>11, <1>12, <1>13, <1>14, <1>16, <1>17, <1>18, <1>19 DEF Abs!Consume

\* The kernels start where EnableActiveNFA does.
LEMMA AbsInit == ASSUME Init PROVE Abs!Init
<1>0. TypeOK
  BY InitType
<1>1. \A b \in Block : /\ Lead(b) \in Thread /\ pc[Lead(b)] = "init" /\ symbol_pos[Lead(b)] = 0
                       /\ \A i \in Tid : pc[<<b, i>>] = "init"
  BY ThreadFacts DEF Init
<1>2. abs_position = [b \in Block |-> 0]
  BY <1>1 DEF abs_position, Moving
<1>3. ASSUME NEW b \in Block PROVE abs_enabled[b] = Abs!nfa(b).start
  <2> DEFINE n == nfa(b)
             m == HotAlways(n, job)
  <2>1. Abs!nfa(b) = m
    <3>1. b[1] \in Group
      BY DEF Block
    <3> QED
      BY <3>1 DEF Abs!nfa, nfa, abs_job, HotAlwaysJob
  <2>2. Queued(b) = {}
    <3>1. Queue(b) = <<>>
      BY <1>1 DEF Queue
    <3> QED
      BY <3>1 DEF Queued
  <2>3. ColdAfterHot => HotEnabled(b) = n.start
    <3>1. n.start \subseteq Hot(n) /\ Hot(n) \subseteq Tid
      BY <1>0, BlockFacts DEF KernelNetwork
    <3>2. \A s \in Hot(n) : pc[<<b, s>>] = "init"
      BY <1>1, <3>1
    <3>3. HotEnabled(b) = { s \in Hot(n) : s \in n.start }
      BY <3>2 DEF HotEnabled
    <3> QED
      BY <3>1, <3>3
  <2>4. abs_enabled[b] = EnabledBy(b, HotEnabled(b), {})
    BY <2>2, EnabledIs
  <2>5. CASE ColdAfterHot
    <3>1. ~Table /\ m = n
      BY <2>5 DEF ColdAfterHot, Table, HotAlways
    <3>2. EnabledBy(b, HotEnabled(b), {}) = HotEnabled(b)
      BY <2>5, <3>1 DEF EnabledBy
    <3> QED
      BY <2>1, <2>3, <2>4, <2>5, <3>1, <3>2
  <2>6. CASE ~ColdAfterHot /\ ~Table
    <3>1. m.start = Hot(n)
      BY <2>6 DEF HotAlways, Started, ColdAfterHot, Table
    <3>2. EnabledBy(b, HotEnabled(b), {}) = Hot(n)
      BY <2>6 DEF EnabledBy
    <3> QED
      BY <2>1, <2>4, <3>1, <3>2
  <2>7. CASE Table
    <3>1. m.start = Successors(n, Hot(n)) /\ ~ColdAfterHot
      BY <2>7 DEF HotAlways, Started, ColdAfterHot, Table
    <3>2. EnabledBy(b, HotEnabled(b), {}) = Successors(n, Hot(n) \cup {})
      BY <2>7, <3>1 DEF EnabledBy
    <3>3. Hot(n) \cup {} = Hot(n)
      OBVIOUS
    <3> QED
      BY <2>1, <2>4, <3>1, <3>2, <3>3
  <2> QED
    BY <2>5, <2>6, <2>7
<1>4. abs_enabled = [b \in Block |-> Abs!nfa(b).start]
  BY <1>3 DEF abs_enabled
<1>5. abs_reports = {}
  BY DEF Init, abs_reports
<1>6. abs_job \in { HotAlwaysJob(j) : j \in Jobs }
  BY DEF Init, abs_job
<1> QED
  BY <1>2, <1>4, <1>5, <1>6 DEF Abs!Init, Abs!Block, Block

\* Every step is a step of EnableActiveNFA or a stutter.
LEMMA StepRefines ==
    ASSUME AllRoomy, IInv, StageInv, [Next]_vars, TypeOK'
    PROVE  [Abs!Next]_(Abs!vars)
<1>0. job' = job
  BY JobKept
<1>1. CASE \E t \in Thread : ThreadStep(t)
  BY <1>0, <1>1, ThreadStutters DEF Abs!vars
<1>2. CASE \E b \in Block : BlockStep(b)
  <2>1. PICK b \in Block : BlockStep(b)
    BY <1>2
  <2>2. CASE Sync2(b) \/ Sync2BeforeCopy(b) \/ Sync2BeforeUpdate(b)
    BY <1>0, <2>1, <2>2, BarrierConsumes DEF Abs!Next, Abs!Block, Block
  <2>3. CASE Sync0(b) \/ Sync1(b) \/ Sync3(b)
    BY <1>0, <2>1, <2>3, BarrierStutters DEF Abs!vars
  <2> QED
    BY <2>1, <2>2, <2>3 DEF BlockStep
<1>3. CASE UNCHANGED <<job, pc, symbol_pos, tt, state, to_enable, slot, shared, reports, count>>
  <2>1. AllRoomy /\ TypeOK
    BY DEF IInv
  <2>2. \A b \in Block : AbsStays(b)
    BY <1>3, <2>1, AbsElsewhere DEF shared
  <2>3. \A b \in Block : abs_enabled'[b] = abs_enabled[b] /\ abs_position'[b] = abs_position[b]
    BY <1>0, <2>2, BlockAbsStays
  <2>4. abs_position' = abs_position /\ abs_enabled' = abs_enabled
    BY <2>3 DEF abs_position, abs_enabled
  <2> QED
    BY <1>3, <2>4 DEF Abs!vars, abs_job, abs_reports
<1> QED
  BY <1>1, <1>2, <1>3 DEF Next, PrintReports, Terminated, vars

\* The kernels implement EnableActiveNFA, on the networks with hot states that
\* never rest or with cells: for every set of networks and streams, block size and
\* queue, whatever the interleaving of the threads; in hotstart_ea_kernel, if the
\* queue has a cell for each cold state.
THEOREM Refinement == Spec /\ AllRoomy => Implements
<1>1. AllRoomy /\ [Next]_vars => AllRoomy'
  BY JobKept DEF AllRoomy
<1>2. Init => Abs!Init
  BY AbsInit
<1>3. AllRoomy /\ SInv /\ SInv' /\ [Next]_vars => [Abs!Next]_(Abs!vars)
  <2> SUFFICES ASSUME AllRoomy, SInv, SInv', [Next]_vars PROVE [Abs!Next]_(Abs!vars)
    OBVIOUS
  <2>1. AllRoomy'
    BY <1>1
  <2>2. TypeOK'
    BY <2>1 DEF SInv, IInv
  <2> QED
    BY <2>2, StepRefines DEF SInv
<1> QED
  BY <1>1, <1>2, <1>3, SInvAlways, PTL DEF Spec, Implements, Abs!Spec

-----------------------------------------------------------------------------
(* The run of the kernel is the run of its networks.                         *)

\* The networks that the kernels run are such that only states are enabled.
LEMMA RunJobSound == TypeOK => Sound(abs_job, Block)
<1> SUFFICES ASSUME TypeOK, NEW b \in Block
             PROVE  LET n == abs_job.nfa[b[1]]
                    IN  /\ n.start \subseteq Sids(n) /\ n.always \subseteq Sids(n)
                        /\ \A s \in Sids(n) : n.edges[s] \subseteq Sids(n)
                        /\ Len(abs_job.input[b[2]]) \in Nat
  BY DEF Sound
<1> DEFINE n == nfa(b)
           m == HotAlways(n, job)
<1>1. abs_job.nfa[b[1]] = m /\ abs_job.input[b[2]] = input(b)
  BY DEF abs_job, HotAlwaysJob, Block, nfa, input
<1>2. Len(input(b)) \in Nat
  BY BlockFacts
<1>3. /\ Hot(n) \subseteq Sids(n) /\ n.start \subseteq Hot(n) /\ n.always \subseteq n.start
      /\ n.edges \in [Sids(n) -> SUBSET Sids(n)]
  BY BlockFacts DEF KernelNetwork
<1>4. Successors(n, Hot(n)) \subseteq Sids(n)
  BY <1>3 DEF Successors
<1>5. m.start \subseteq Sids(n) /\ m.always \subseteq Sids(n)
  BY <1>3, <1>4 DEF HotAlways, Started
<1>6. m.size = n.size
  BY DEF HotAlways, Started
<1>7. Sids(m) = Sids(n)
  BY <1>6 DEF Sids
<1>8. \A s \in Sids(n) : m.edges[s] \subseteq Sids(n)
  BY <1>3 DEF HotAlways, Started
<1> HIDE DEF m, n
<1> QED
  BY <1>1, <1>2, <1>5, <1>7, <1>8

\* What the kernel has computed so far.
Running == RunOf(abs_job, Block, abs_position, abs_enabled, abs_reports)

\* It is so at the start.
LEMMA RunningInit == ASSUME Init PROVE Running
<1>1. Sound(abs_job, Block)
  BY InitType, RunJobSound
<1>2. /\ abs_position = [b \in Block |-> 0]
      /\ abs_enabled = [b \in Block |-> abs_job.nfa[b[1]].start]
      /\ abs_reports = {}
  BY AbsInit DEF Abs!Init, Abs!Block, Block, Abs!nfa
<1> QED
  BY <1>1, <1>2, RunBegins DEF Running

\* Every block computes what its network does.
LEMMA RunningStep ==
    ASSUME AllRoomy, IInv, StageInv, [Next]_vars, TypeOK', Running
    PROVE  Running'
<1>1. [Abs!Next]_(Abs!vars)
  BY StepRefines
<1>2. CASE UNCHANGED Abs!vars
  BY <1>2 DEF Abs!vars, Running, RunOf, ReportsOfGrid, Block
<1>3. CASE Abs!Next
  <2>1. PICK b \in Block : Abs!Consume(b)
    BY <1>3 DEF Abs!Next, Abs!Block, Block
  <2>2. Sound(abs_job, Block) /\ abs_job' = abs_job
    BY RunJobSound, JobKept DEF IInv, abs_job
  <2>3. Consumes(abs_job, Block, b, abs_position, abs_enabled, abs_reports,
                 abs_position', abs_enabled', abs_reports')
    <3>1. DOMAIN abs_position = Block /\ DOMAIN abs_enabled = Block
      BY DEF abs_position, abs_enabled
    <3> QED
      BY <2>1, <3>1
         DEF Consumes, Abs!Consume, Abs!nfa, Abs!input, Abs!NextEnabled, NextEnabled,
             Abs!Successors, Successors, Abs!Activated, Activated, Abs!match2, match2,
             Abs!Reporting, Reporting
  <2>4. RunOf(abs_job, Block, abs_position', abs_enabled', abs_reports')
    BY <2>2, <2>3, RunGoesOn DEF Running
  <2> QED
    BY <2>2, <2>4 DEF Running, RunOf, ReportsOfGrid, Block
<1> QED
  BY <1>1, <1>2, <1>3

\* When every thread has left the kernel the reports are those of the networks.
LEMMA ReportsAreExpected ==
    ASSUME IInv, StageInv, Running, \A t \in Thread : pc[t] = "done"
    PROVE  reports = Expected(abs_job)
<1>1. TypeOK /\ Sound(abs_job, Block)
  BY RunJobSound DEF IInv
<1>2. ASSUME NEW b \in Block
      PROVE  abs_position[b] = Pos(b) /\ Pos(b) = Len(input(b)) /\ Positions(b) /\ PhaseOf(b) = 4
  <2>1. pc[Lead(b)] = "done"
    BY ThreadFacts
  <2>2. PhaseOf(b) = 4 /\ Positions(b)
    BY <2>1 DEF PhaseOf, Phase, StageInv, BlockStage
  <2>3. Pos(b) \in Nat
    BY <1>1, ThreadFacts DEF Pos, TypeOK
  <2>4. abs_position[b] = Pos(b)
    BY <2>1, <2>3 DEF abs_position, Moving, Pos
  <2> QED
    BY <2>2, <2>4 DEF Positions
<1>3. \A b \in Block : abs_position[b] = Len(abs_job.input[b[2]])
  BY <1>2 DEF abs_job, HotAlwaysJob, input
<1>4. \A r \in reports : r[2] < abs_position[r[1]]
  <2>1. \A r \in reports : r[1] \in Block
    BY <1>1 DEF TypeOK
  <2> QED
    BY <1>2, <2>1 DEF Positions
<1>5. abs_reports = reports
  BY <1>4 DEF abs_reports
<1>6. abs_reports = UNION { { <<b, r[1], r[2]>> :
                                r \in ReportsOf(abs_job.nfa[b[1]], abs_job.input[b[2]]) } : b \in Block }
  BY <1>1, <1>3, RunEnds DEF Running
<1> QED
  BY <1>5, <1>6 DEF Expected

-----------------------------------------------------------------------------
(* The networks that the kernels run, and the networks read.                 *)

\* The lines printed for a network on an input.
LinesOf(n, stream) == { <<x[1], n.original_id[x[2]]>> : x \in ReportsOf(n, stream) }

\* What is printed for a job.
LEMMA PrintedIs ==
    ASSUME NEW j
    PROVE  Printed(j) = UNION { LinesOf(j.nfa[b[1]], j.input[b[2]]) : b \in Block }
<1>1. ASSUME NEW l \in Printed(j)
      PROVE  \E b \in Block : l \in LinesOf(j.nfa[b[1]], j.input[b[2]])
  <2>1. PICK r \in Expected(j) : l = <<r[2], j.nfa[r[1][1]].original_id[r[3]]>>
    BY <1>1 DEF Printed
  <2>2. PICK b \in Block : \E x \in ReportsOf(j.nfa[b[1]], j.input[b[2]]) : r = <<b, x[1], x[2]>>
    BY <2>1 DEF Expected
  <2>3. PICK x \in ReportsOf(j.nfa[b[1]], j.input[b[2]]) : r = <<b, x[1], x[2]>>
    BY <2>2
  <2>4. l = <<x[1], j.nfa[b[1]].original_id[x[2]]>>
    BY <2>1, <2>3
  <2> QED
    BY <2>3, <2>4 DEF LinesOf
<1>2. ASSUME NEW b \in Block, NEW l \in LinesOf(j.nfa[b[1]], j.input[b[2]])
      PROVE  l \in Printed(j)
  <2>1. PICK x \in ReportsOf(j.nfa[b[1]], j.input[b[2]]) : l = <<x[1], j.nfa[b[1]].original_id[x[2]]>>
    BY <1>2 DEF LinesOf
  <2>2. <<b, x[1], x[2]>> \in Expected(j)
    BY <2>1 DEF Expected
  <2> DEFINE r == <<b, x[1], x[2]>>
  <2>3. r[1] = b /\ r[2] = x[1] /\ r[3] = x[2]
    OBVIOUS
  <2>4. l = <<r[2], j.nfa[r[1][1]].original_id[r[3]]>>
    BY <2>1, <2>3
  <2> HIDE DEF r
  <2>5. r \in Expected(j)
    BY <2>2 DEF r
  <2> QED
    BY <2>4, <2>5 DEF Printed
<1> QED
  BY <1>1, <1>2

\* On the states of n, m is n: an edge to a state that is always enabled makes no
\* difference, nor does a state of m alone, which is never enabled.
Alike(m, n) ==
    /\ n.start \subseteq Sids(n) /\ n.always \subseteq Sids(n) /\ Sids(n) \subseteq Sids(m)
    /\ m.start = n.start /\ m.always = n.always /\ m.report = n.report
    /\ \A s \in Sids(n) : /\ n.edges[s] \subseteq Sids(n)
                          /\ m.edges[s] \cup n.always = n.edges[s] \cup n.always
                          /\ m.symbol_set[s] = n.symbol_set[s]
                          /\ m.original_id[s] = n.original_id[s]

\* A symbol does the same to both.
LEMMA AlikeStep ==
    ASSUME NEW m, NEW n, Alike(m, n), NEW S, S \subseteq Sids(n), NEW c
    PROVE  NextEnabled(m, S, c) = NextEnabled(n, S, c) /\ Reporting(m, S, c) = Reporting(n, S, c)
<1> DEFINE A == Activated(n, S, c)
<1>1. Activated(m, S, c) = A
  BY DEF Activated, match2, Alike
<1>2. A \subseteq Sids(n)
  BY DEF Activated
<1> HIDE DEF A
<1>3. \A s \in A : m.edges[s] \cup n.always = n.edges[s] \cup n.always
  BY <1>2 DEF Alike
<1>4. n.always \cup Successors(m, A) = n.always \cup Successors(n, A)
  BY <1>3 DEF Successors
<1>5. m.always = n.always /\ m.report = n.report
  BY DEF Alike
<1> QED
  BY <1>1, <1>4, <1>5 DEF NextEnabled, Reporting, A

\* They print the same lines.
LEMMA AlikeLines ==
    ASSUME NEW m, NEW n, Alike(m, n), NEW stream, Len(stream) \in Nat
    PROVE  LinesOf(m, stream) = LinesOf(n, stream)
<1> DEFINE e == EnabledAt(m, stream)
           f == EnabledAt(n, stream)
           T == { k \in Nat : k <= Len(stream) => e[k] = f[k] }
<1>1. 0 \in T
  <2>1. e[0] = m.start /\ f[0] = n.start
    BY EnabledEquation
  <2> QED
    BY <2>1 DEF Alike
<1>2. \A k \in 0 .. Len(stream) : f[k] \subseteq Sids(n)
  BY EnabledAreStates DEF Alike
<1>3. ASSUME NEW k \in Nat, k \in T PROVE k + 1 \in T
  <2> SUFFICES ASSUME k + 1 <= Len(stream) PROVE e[k + 1] = f[k + 1]
    OBVIOUS
  <2>1. k + 1 \in 1 .. Len(stream) /\ (k + 1) - 1 = k
    OBVIOUS
  <2>2. e[k + 1] = NextEnabled(m, e[(k + 1) - 1], stream[k + 1])
    BY <2>1, EnabledEquation
  <2>3. f[k + 1] = NextEnabled(n, f[(k + 1) - 1], stream[k + 1])
    BY <2>1, EnabledEquation
  <2>4. e[k] = f[k] /\ f[k] \subseteq Sids(n)
    BY <1>2, <1>3
  <2> HIDE DEF e, f
  <2> QED
    BY <2>1, <2>2, <2>3, <2>4, AlikeStep
<1>4. Nat \subseteq T
  <2> HIDE DEF T
  <2> QED
    BY <1>1, <1>3, Induction
<1>5. ASSUME NEW k \in 0 .. Len(stream) - 1
      PROVE  /\ Reporting(m, e[k], stream[k + 1]) = Reporting(n, f[k], stream[k + 1])
             /\ Reporting(n, f[k], stream[k + 1]) \subseteq Sids(n)
  <2>1. e[k] = f[k] /\ f[k] \subseteq Sids(n)
    BY <1>2, <1>4
  <2> HIDE DEF e, f
  <2> QED
    BY <2>1, AlikeStep DEF Reporting, Activated
<1> HIDE DEF e, f
<1>6. ReportsOf(m, stream) = ReportsOf(n, stream)
  <2>1. Sids(n) \subseteq Sids(m)
    BY DEF Alike
  <2> QED
    BY <1>5, <2>1 DEF ReportsOf, e, f
<1>7. \A x \in ReportsOf(n, stream) : m.original_id[x[2]] = n.original_id[x[2]]
  BY DEF ReportsOf, Alike
<1> QED
  BY <1>6, <1>7 DEF LinesOf

\* Only states of n are enabled.
OnlyStates(n) ==
    /\ DOMAIN n.edges = Sids(n) /\ n.start \subseteq Sids(n) /\ n.always \subseteq Sids(n)
    /\ \A s \in Sids(n) : n.edges[s] \subseteq Sids(n)

\* A network whose states were split or numbered anew prints the same lines.
LEMMA CopiesLines ==
    ASSUME NEW m, NEW n, NEW base, HasAllCopies(m, n, base), DOMAIN base = Sids(m),
           OnlyStates(n), NEW stream, Len(stream) \in Nat
    PROVE  LinesOf(m, stream) = LinesOf(n, stream)
<1>1. /\ IsCopyOf(m, n, base)
      /\ \A u \in Sids(n) : \E v \in DOMAIN base : base[v] = u
      /\ \A v \in DOMAIN base : m.original_id[v] = n.original_id[base[v]]
  BY DEF HasAllCopies, IsCopyOf, SameAttributes
<1>2. \A k, v : <<k, v>> \in ReportsOf(m, stream) <=>
                   v \in DOMAIN base /\ <<k, base[v]>> \in ReportsOf(n, stream)
  BY <1>1, CopiesRun DEF OnlyStates
<1>3. /\ \A x \in ReportsOf(m, stream) : x = <<x[1], x[2]>>
      /\ \A x \in ReportsOf(n, stream) : x = <<x[1], x[2]>> /\ x[2] \in Sids(n)
  BY DEF ReportsOf
<1>4. ASSUME NEW x \in ReportsOf(m, stream)
      PROVE  \E y \in ReportsOf(n, stream) : y[1] = x[1] /\ n.original_id[y[2]] = m.original_id[x[2]]
  <2>1. <<x[1], x[2]>> \in ReportsOf(m, stream)
    BY <1>3
  <2>2. x[2] \in DOMAIN base /\ <<x[1], base[x[2]]>> \in ReportsOf(n, stream)
    BY <1>2, <2>1
  <2> QED
    BY <1>1, <2>2
<1>5. ASSUME NEW y \in ReportsOf(n, stream)
      PROVE  \E x \in ReportsOf(m, stream) : x[1] = y[1] /\ m.original_id[x[2]] = n.original_id[y[2]]
  <2>1. <<y[1], y[2]>> \in ReportsOf(n, stream) /\ y[2] \in Sids(n)
    BY <1>3
  <2>2. PICK v \in DOMAIN base : base[v] = y[2]
    BY <1>1, <2>1
  <2>3. <<y[1], v>> \in ReportsOf(m, stream)
    BY <1>2, <2>1, <2>2
  <2> QED
    BY <1>1, <2>2, <2>3
<1> QED
  BY <1>4, <1>5 DEF LinesOf

\* A network started elsewhere is made of copies of the original started there.
LEMMA CopiesStarted ==
    ASSUME NEW m, NEW n, NEW base, HasAllCopies(m, n, base), NEW S
    PROVE  HasAllCopies(Started(m, Copies(base, S), Copies(base, S), m.edges),
                        Started(n, S, S, n.edges), base)
BY DEF HasAllCopies, IsCopyOf, SameAttributes, Started, Sids

\* With new starts before the starts, the new ones enable the starts and nothing
\* enables them.
LEMMA FakeStarts ==
    ASSUME NEW n, NEW w \in Nat, IsNetwork(n, w, Byte, Id),
           NEW ccs, AreStartsByComponent(ccs, n),
           NEW f, f = WithFakeStarts(n, ccs)
    PROVE  /\ DOMAIN f.edges = Sids(f) /\ f.start \subseteq Sids(f)
           /\ \A s \in Sids(f) : f.edges[s] \subseteq Sids(f)
           /\ Successors(f, f.start) = n.start
           /\ Alike(Started(f, n.start, n.start, f.edges), Started(n, n.start, n.start, n.edges))
<1> DEFINE k == Len(ccs)
           loop(s) == IF s \in n.always THEN {s} ELSE {}
           all == 0 .. f.size - 1
<1>1. /\ n.size \in Nat \ {0} /\ n.start \subseteq Sids(n) /\ n.always \subseteq n.start
      /\ n.report \subseteq Sids(n) /\ \A s \in Sids(n) : n.edges[s] \subseteq Sids(n)
  BY DEF IsNetwork
<1>2. /\ k \in Nat /\ DOMAIN ccs = 1 .. k /\ \A i \in 1 .. k : ccs[i] \subseteq n.start
      /\ UNION { ccs[i] : i \in 1 .. k } = n.start
  BY DEF AreStartsByComponent
<1> HIDE DEF k
<1>3. /\ f.size = n.size + k /\ f.start = n.size .. f.size - 1 /\ f.report = n.report
      /\ f.edges = [s \in all |-> IF s < n.size THEN n.edges[s] \ loop(s) ELSE ccs[s - n.size + 1]]
      /\ f.symbol_set = [s \in all |-> IF s < n.size THEN n.symbol_set[s] ELSE Byte]
      /\ f.original_id = [s \in all |-> n.original_id[IF s < n.size THEN s ELSE 0]]
  BY DEF WithFakeStarts, k
<1>4. /\ Sids(f) = all /\ Sids(n) \subseteq all /\ f.start \subseteq all
      /\ \A s \in Sids(n) : s < n.size
      /\ \A s \in f.start : ~(s < n.size) /\ s - n.size + 1 \in 1 .. k
      /\ \A s \in all : s \in Sids(n) \/ s \in f.start
      /\ \A i \in 1 .. k : n.size + i - 1 \in f.start /\ (n.size + i - 1) - n.size + 1 = i
  BY <1>1, <1>2, <1>3 DEF Sids
<1>5. ASSUME NEW s \in Sids(n)
      PROVE  /\ f.edges[s] = n.edges[s] \ loop(s)
             /\ f.symbol_set[s] = n.symbol_set[s]
             /\ f.original_id[s] = n.original_id[s]
  BY <1>3, <1>4
<1>6. ASSUME NEW s \in f.start PROVE f.edges[s] = ccs[s - n.size + 1]
  BY <1>3, <1>4
<1>7. DOMAIN f.edges = Sids(f)
  BY <1>3, <1>4
<1> HIDE DEF all
<1>8. ASSUME NEW s \in Sids(f) PROVE f.edges[s] \subseteq Sids(f)
  <2>1. CASE s \in Sids(n)
    BY <1>1, <1>4, <1>5, <2>1
  <2>2. CASE s \in f.start
    <3>1. ccs[s - n.size + 1] \subseteq n.start
      BY <1>2, <1>4, <2>2
    <3> QED
      BY <1>1, <1>4, <1>6, <2>2, <3>1
  <2> QED
    BY <1>4, <2>1, <2>2
<1>9. Successors(f, f.start) = n.start
  <2>1. ASSUME NEW s \in f.start PROVE f.edges[s] \subseteq n.start
    <3>1. ccs[s - n.size + 1] \subseteq n.start
      BY <1>2, <1>4
    <3> QED
      BY <1>6, <3>1
  <2>2. ASSUME NEW e \in n.start PROVE \E s \in f.start : e \in f.edges[s]
    <3>1. PICK i \in 1 .. k : e \in ccs[i]
      BY <1>2
    <3> DEFINE s == n.size + i - 1
    <3>2. s \in f.start /\ s - n.size + 1 = i
      BY <1>4
    <3> HIDE DEF s
    <3> QED
      BY <1>6, <3>1, <3>2
  <2> QED
    BY <2>1, <2>2 DEF Successors
<1> DEFINE h == Started(f, n.start, n.start, f.edges)
           r == Started(n, n.start, n.start, n.edges)
<1>10. /\ h.size = f.size /\ h.start = n.start /\ h.always = n.start /\ h.report = f.report
       /\ h.edges = f.edges /\ h.symbol_set = f.symbol_set /\ h.original_id = f.original_id
       /\ r.size = n.size /\ r.start = n.start /\ r.always = n.start /\ r.report = n.report
       /\ r.edges = n.edges /\ r.symbol_set = n.symbol_set /\ r.original_id = n.original_id
  BY DEF Started
<1> HIDE DEF h, r
<1>11. Sids(h) = Sids(f) /\ Sids(r) = Sids(n)
  BY <1>10 DEF Sids
<1>12. ASSUME NEW s \in Sids(n)
       PROVE  f.edges[s] \cup n.start = n.edges[s] \cup n.start
  <2>1. loop(s) \subseteq n.start
    BY <1>1
  <2> HIDE DEF loop
  <2> QED
    BY <1>5, <2>1
<1>13. Alike(h, r)
  <2>1. /\ r.start \subseteq Sids(r) /\ r.always \subseteq Sids(r) /\ Sids(r) \subseteq Sids(h)
        /\ h.start = r.start /\ h.always = r.always /\ h.report = r.report
    BY <1>1, <1>3, <1>4, <1>10, <1>11
  <2>2. ASSUME NEW s \in Sids(r)
        PROVE  /\ r.edges[s] \subseteq Sids(r)
               /\ h.edges[s] \cup r.always = r.edges[s] \cup r.always
               /\ h.symbol_set[s] = r.symbol_set[s]
               /\ h.original_id[s] = r.original_id[s]
    BY <1>1, <1>5, <1>10, <1>11, <1>12
  <2> QED
    BY <2>1, <2>2 DEF Alike
<1> QED
  BY <1>4, <1>7, <1>8, <1>9, <1>13 DEF h, r

\* With the table, a network with new starts that was split, of which only copies of
\* the new starts are hot, prints what the network read does with its starts always
\* enabled.
LEMMA TablePrintsMeant ==
    ASSUME NEW n, NEW w \in Nat, IsNetwork(n, w, Byte, Id),
           NEW ccs, AreStartsByComponent(ccs, n),
           NEW m, NEW base, HasAllCopies(m, WithFakeStarts(n, ccs), base),
           DOMAIN base = Sids(m), NEW stream, Len(stream) \in Nat
    PROVE  LinesOf(Started(m, Successors(m, m.start), Successors(m, m.start), m.edges), stream)
              = LinesOf(Started(n, n.start, n.start, n.edges), stream)
<1> DEFINE f == WithFakeStarts(n, ccs)
           h == Started(m, Successors(m, m.start), Successors(m, m.start), m.edges)
           r == Started(f, n.start, n.start, f.edges)
           q == Started(n, n.start, n.start, n.edges)
<1>1. /\ DOMAIN f.edges = Sids(f) /\ f.start \subseteq Sids(f)
      /\ \A s \in Sids(f) : f.edges[s] \subseteq Sids(f)
      /\ Successors(f, f.start) = n.start
      /\ Alike(r, q)
  BY FakeStarts
<1>2. HasAllCopies(m, f, base)
  OBVIOUS
<1> HIDE DEF f
<1>3. Successors(m, m.start) = Copies(base, n.start)
  <2>1. m.start = Copies(base, f.start) /\ IsCopyOf(m, f, base)
    BY <1>2 DEF HasAllCopies, IsCopyOf, SameAttributes
  <2>2. f.start \subseteq DOMAIN f.edges
    BY <1>1
  <2>3. Successors(m, Copies(base, f.start)) = Copies(base, Successors(f, f.start))
    BY <2>1, <2>2, CopiesEnabled
  <2> QED
    BY <1>1, <2>1, <2>3
<1>4. HasAllCopies(h, r, base)
  <2>1. h = Started(m, Copies(base, n.start), Copies(base, n.start), m.edges)
    BY <1>3
  <2> HIDE DEF h, r
  <2>2. HasAllCopies(Started(m, Copies(base, n.start), Copies(base, n.start), m.edges), r, base)
    BY <1>2, CopiesStarted DEF r
  <2> QED
    BY <2>1, <2>2
<1>5. Sids(h) = Sids(m) /\ Sids(r) = Sids(f) /\ r.edges = f.edges
      /\ r.start = n.start /\ r.always = n.start
  BY DEF Started, Sids
<1>6. n.start \subseteq Sids(f)
  BY <1>1 DEF Successors
<1> HIDE DEF h, r, q
<1>7. OnlyStates(r)
  BY <1>1, <1>5, <1>6 DEF OnlyStates
<1>8. LinesOf(h, stream) = LinesOf(r, stream)
  BY <1>4, <1>5, <1>7, CopiesLines
<1>9. LinesOf(r, stream) = LinesOf(q, stream)
  BY <1>1, AlikeLines
<1> QED
  BY <1>8, <1>9 DEF h, q

\* If the hot states are all-input starts, a block prints what the network read
\* reports.
LEMMA BlockPrintsMeant ==
    ASSUME TypeOK, NEW b \in Block, job.run_cold_stage, Hot(nfa(b)) \subseteq nfa(b).always
    PROVE  LinesOf(HotAlways(nfa(b), job), input(b)) = LinesOf(Meant(job.read[b[1]]), input(b))
<1> DEFINE m == nfa(b)
           n == job.read[b[1]]
           base == job.base[b[1]]
           ccs == job.ccs[b[1]]
           h == HotAlways(m, job)
<1>0. Len(input(b)) \in Nat
  BY BlockFacts
<1>1. /\ IsNetwork(n, MaxInt, Byte, Id)
      /\ Table => AreStartsByComponent(ccs, n)
      /\ HasAllCopies(m, IF Table THEN WithFakeStarts(n, ccs) ELSE n, base)
  <2>1. job \in Jobs /\ b[1] \in Group
    BY DEF TypeOK, Block
  <2>2. IsNetwork(n, MaxInt, Byte, Id)
    BY <2>1, JobsAssumption
  <2>3. HasAllCopies(m, IF Table THEN WithFakeStarts(n, ccs) ELSE n, base)
    BY <2>1, JobsAssumption DEF nfa, Table, Unsplit
  <2>4. Table => AreStartsByComponent(ccs, n)
    BY <2>1, JobsAssumption DEF Table
  <2> QED
    BY <2>2, <2>3, <2>4
<1>2. /\ m.start \subseteq Hot(m) /\ m.always \subseteq m.start /\ Hot(m) \subseteq Sids(m)
      /\ m.edges \in [Sids(m) -> SUBSET Sids(m)]
  BY BlockFacts DEF KernelNetwork
<1>3. /\ m.start = Hot(m) /\ m.always = Hot(m) /\ [s \in Sids(m) |-> m.edges[s]] = m.edges
      /\ \A s \in Sids(m) : m.edges[s] \subseteq Sids(m)
  BY <1>2
<1>4. DOMAIN base = Sids(m)
  BY <1>1, <1>2 DEF HasAllCopies, IsCopyOf
<1>5. OnlyStates(n)
  BY <1>1 DEF OnlyStates, IsNetwork
<1>6. MaxInt \in Nat
  BY DEF MaxInt
<1>7. CASE Table
  <2>1. h = Started(m, Successors(m, m.start), Successors(m, m.start), m.edges)
    BY <1>3, <1>7 DEF HotAlways, Table
  <2>2. Meant(n) = Started(n, n.start, n.start, n.edges)
    BY <1>7 DEF Meant
  <2>3. HasAllCopies(m, WithFakeStarts(n, ccs), base)
    BY <1>1, <1>7
  <2> HIDE DEF h, m, n, base, ccs
  <2> QED
    <3>1. LinesOf(Started(m, Successors(m, m.start), Successors(m, m.start), m.edges), input(b))
             = LinesOf(Started(n, n.start, n.start, n.edges), input(b))
      BY <1>0, <1>1, <1>4, <1>6, <1>7, <2>3, TablePrintsMeant
    <3>2. LinesOf(h, input(b)) = LinesOf(Meant(n), input(b))
      BY <2>1, <2>2, <3>1
    <3> QED
      BY <3>2 DEF h, m, n
<1>8. CASE ~Table
  <2>1. HasAllCopies(m, n, base) /\ Meant(n) = n
    BY <1>1, <1>8 DEF Meant
  <2>2. h = m \/ h = Started(m, m.start, m.start, m.edges)
    BY <1>3, <1>8 DEF HotAlways, Table
  <2> HIDE DEF h, m, n, base
  <2>3. LinesOf(h, input(b)) = LinesOf(m, input(b))
    <3>1. CASE h = m
      BY <3>1
    <3>2. CASE h = Started(m, m.start, m.start, m.edges)
      <4>1. Alike(h, m)
        BY <1>2, <1>3, <3>2 DEF Alike, Started, Sids
      <4> QED
        BY <1>0, <4>1, AlikeLines
    <3> QED
      BY <2>2, <3>1, <3>2
  <2>4. LinesOf(m, input(b)) = LinesOf(n, input(b))
    BY <1>0, <1>4, <1>5, <2>1, CopiesLines
  <2> QED
    BY <2>1, <2>3, <2>4 DEF h, m, n
<1> QED
  BY <1>7, <1>8

\* When a kernel has ended without a failed assertion, its counter and its file are
\* the reports of the networks on their streams, and if the hot states are all-input
\* starts, of the networks read: for every set of networks and streams, block size
\* and queue, whatever the interleaving of the threads; in hotstart_ea_kernel, if
\* the queue has a cell for each cold state.
THEOREM ReportsAreExact == Spec /\ AllRoomy => []ReportsExact
<1>1. IInv /\ StageInv /\ Running => ReportsExact
  <2> SUFFICES ASSUME IInv, StageInv, Running, printed, ~Trapped PROVE ReportsExact
    BY DEF ReportsExact
  <2>1. /\ report_file = Lines /\ \A t \in Thread : pc[t] = "done"
        /\ IF Table THEN count >= Cardinality(reports) ELSE count = Cardinality(reports)
    BY DEF StageInv, Accounts
  <2>2. reports = Expected(abs_job)
    BY <2>1, ReportsAreExpected
  <2>3. report_file = Printed(abs_job)
    <3>1. \A r \in reports : nfa(r[1]).original_id = abs_job.nfa[r[1][1]].original_id
      <4>1. \A r \in reports : r[1][1] \in Group
        BY DEF IInv, TypeOK, Block
      <4> QED
        BY <4>1 DEF abs_job, HotAlwaysJob, HotAlways, Started, nfa
    <3> QED
      BY <2>1, <2>2, <3>1 DEF Lines, Printed
  <2>4. ASSUME job.run_cold_stage, \A g \in Group : Hot(job.nfa[g]) \subseteq job.nfa[g].always
        PROVE  Printed(abs_job) = Printed([nfa |-> [g \in Group |-> Meant(job.read[g])],
                                           input |-> job.input])
    <3> DEFINE k == [nfa |-> [g \in Group |-> Meant(job.read[g])], input |-> job.input]
    <3>1. ASSUME NEW b \in Block
          PROVE  LinesOf(abs_job.nfa[b[1]], abs_job.input[b[2]]) = LinesOf(k.nfa[b[1]], k.input[b[2]])
      <4>1. b[1] \in Group
        BY DEF Block
      <4>2. LinesOf(HotAlways(nfa(b), job), input(b)) = LinesOf(Meant(job.read[b[1]]), input(b))
        BY <2>4, <4>1, BlockPrintsMeant DEF IInv, nfa
      <4> QED
        BY <4>1, <4>2 DEF abs_job, HotAlwaysJob, nfa, input
    <3> HIDE DEF k
    <3>2. Printed(abs_job) = Printed(k)
      BY <3>1, PrintedIs
    <3> QED
      BY <3>2 DEF k
  <2> QED
    BY <2>1, <2>2, <2>3, <2>4 DEF ReportsExact
<1>2. AllRoomy /\ [Next]_vars => AllRoomy'
  BY JobKept DEF AllRoomy
<1>3. AllRoomy /\ SInv /\ SInv' /\ Running /\ [Next]_vars => Running'
  <2> SUFFICES ASSUME AllRoomy, SInv, SInv', Running, [Next]_vars PROVE Running'
    OBVIOUS
  <2>1. AllRoomy'
    BY <1>2
  <2>2. TypeOK'
    BY <2>1 DEF SInv, IInv
  <2> QED
    BY <2>2, RunningStep DEF SInv
<1>4. Init => Running
  BY RunningInit
<1>5. AllRoomy /\ SInv /\ Running => ReportsExact
  BY <1>1 DEF SInv
<1> QED
  BY <1>2, <1>3, <1>4, <1>5, SInvAlways, PTL DEF Spec
=============================================================================
