-------------------------- MODULE ObatKernelProofs --------------------------
(***************************************************************************)
(* Safety of ObatKernel for every set of groups, streams, jobs, block size  *)
(* and output capacity.                                                     *)
(***************************************************************************)
EXTENDS ObatKernel, NetworkProofs

\* The inputs of a job, from the assumption on Jobs.
LEMMA JobFacts ==
    ASSUME NEW j \in Jobs, NEW g \in Group, NEW y \in Stream
    PROVE  /\ IsNetwork(j.nfa[g], BlockDim, Byte, Id)
           /\ j.input[y] \in Seq(Byte)
BY JobsAssumption

\* The network, stream and threads of a block.
LEMMA BlockFacts ==
    ASSUME TypeOK, NEW b \in Block
    PROVE  /\ IsNetwork(nfa(b), BlockDim, Byte, Id)
           /\ input(b) \in Seq(Byte)
           /\ b[1] \in Group
           /\ Sids(nfa(b)) \subseteq Tid
           /\ 0 \in Sids(nfa(b))
           /\ ThreadsOf(b) \subseteq Thread
           /\ Lead(b) \in ThreadsOf(b)
           /\ \A s \in Sids(nfa(b)) : <<b, s>> \in ThreadsOf(b)
<1>1. b[1] \in Group /\ b[2] \in Stream
  BY DEF Block
<1>2. IsNetwork(nfa(b), BlockDim, Byte, Id) /\ input(b) \in Seq(Byte)
  BY <1>1, JobFacts DEF TypeOK, nfa, input
<1>3. Sids(nfa(b)) \subseteq Tid /\ 0 \in Sids(nfa(b))
  BY <1>2, BlockDimAssumption DEF IsNetwork, Sids, Tid
<1> QED
  BY <1>1, <1>2, <1>3 DEF ThreadsOf, Thread, Lead

\* A thread is a block and a number, and has a state if the number is a sid.
LEMMA ThreadFacts ==
    ASSUME TypeOK, NEW t \in Thread
    PROVE  /\ t[1] \in Block /\ t[2] \in Tid /\ t = <<t[1], t[2]>>
           /\ t \in ThreadsOf(t[1]) <=> t[2] < nfa(t[1]).size
<1>1. t[1] \in Block /\ t[2] \in Tid /\ t = <<t[1], t[2]>>
  BY DEF Thread
<1>2. nfa(t[1]).size \in Nat
  BY <1>1, BlockFacts DEF IsNetwork
<1> QED
  BY <1>1, <1>2 DEF ThreadsOf, Sids, Tid

-----------------------------------------------------------------------------
(* Type correctness of each step. *)

\* The kernel starts with values of the right types.
LEMMA TypeInit == Init => TypeOK
BY DEF Init, TypeOK, PCs, Tid, Thread

\* A thread that has not left the kernel has a state, whose fields have their
\* types.
LEMMA RunningFacts ==
    ASSUME TypeOK, Lockstep, NEW t \in Thread, pc[t] # "done"
    PROVE  /\ t \in ThreadsOf(t[1]) /\ t[1] \in Block /\ t[2] \in Sids(nfa(t[1]))
           /\ t[1][1] \in Group
           /\ t = <<t[1], t[2]>>
           /\ nfa(t[1]).edges[t[2]] \subseteq Sids(nfa(t[1]))
           /\ nfa(t[1]).edges[t[2]] \subseteq Tid
           /\ \A s \in Sids(nfa(t[1])) : <<t[1], s>> \in Thread
<1>1. t[1] \in Block /\ t[2] \in Tid /\ t = <<t[1], t[2]>>
  BY ThreadFacts
<1>2. t \in ThreadsOf(t[1])
  BY DEF Lockstep
<1>3. t[2] \in Sids(nfa(t[1]))
  BY <1>2 DEF ThreadsOf
<1> QED
  BY <1>1, <1>2, <1>3, BlockFacts DEF IsNetwork, Thread

\* No step leaves the types; the store into the output array is by a thread
\* with a state.
LEMMA TypeStep ==
    ASSUME TypeOK, Lockstep, Slots, ThreadLocal, [Next]_vars
    PROVE  TypeOK'
<1>1. ASSUME NEW t \in Thread, Start(t) PROVE TypeOK'
  BY <1>1 DEF TypeOK, Start, Goto, PCs
<1>2. ASSUME NEW t \in Thread, Match(t) PROVE TypeOK'
  <2>1. pc[t] # "done"
    BY <1>2 DEF Match, Goto
  <2>2. nfa(t[1]).edges[t[2]] \in SUBSET Tid
    BY <2>1, RunningFacts
  <2> QED
    BY <1>2, <2>2 DEF TypeOK, Match, Goto, PCs
<1>3. ASSUME NEW t \in Thread, Enable(t) PROVE TypeOK'
  BY <1>3 DEF TypeOK, Enable, Goto, PCs
<1>4. ASSUME NEW t \in Thread, Claim(t) PROVE TypeOK'
  <2>1. t[1] \in Block /\ t[2] \in Tid
    BY ThreadFacts
  <2>2. <<t[1], symbol_pos[t], t[2]>> \in Block \X Nat \X Tid
    BY <2>1 DEF TypeOK
  <2>3. claims' \in Seq(Block \X Nat \X Tid)
    BY <1>4, <2>2 DEF TypeOK, Claim
  <2> QED
    BY <1>4, <2>3 DEF TypeOK, Claim, Goto, PCs
<1>5. ASSUME NEW t \in Thread, Write(t) PROVE TypeOK'
  <2>1. t[1][1] \in Group /\ t[2] \in Tid
    BY <1>5, RunningFacts, ThreadFacts DEF Write, Goto
  <2>2. Entry(t) \in [symbol_offset : Nat, state_id : Tid, nfa : Group]
    BY <2>1 DEF Entry, TypeOK
  <2>3. /\ DOMAIN output' \subseteq 0 .. Capacity - 1
        /\ \A i \in DOMAIN output' :
              output'[i] \in [symbol_offset : Nat, state_id : Tid, nfa : Group]
    <3>1. CASE write_to[t] < Capacity
      <4>1. output' = Stored(output, write_to[t], Entry(t))
        BY <1>5, <3>1 DEF Write
      <4>2. write_to[t] \in 0 .. Capacity - 1
        BY <3>1, CapacityAssumption DEF TypeOK
      <4> QED
        BY <4>1, <4>2, <2>2 DEF TypeOK, Stored
    <3>2. CASE ~(write_to[t] < Capacity)
      BY <1>5, <3>2 DEF Write, TypeOK
    <3> QED
      BY <3>1, <3>2
  <2> QED
    BY <1>5, <2>3 DEF TypeOK, Write, Goto, PCs
<1>6. ASSUME NEW t \in Thread, Promote(t) PROVE TypeOK'
  BY <1>6 DEF TypeOK, Promote, Goto, PCs
<1>7. ASSUME NEW t \in Thread, Clear(t) PROVE TypeOK'
  BY <1>7 DEF TypeOK, Clear, Goto, PCs
<1>8. ASSUME NEW b \in Block, BlockStep(b) PROVE TypeOK'
  <2>1. pc' \in [Thread -> PCs]
    BY <1>8 DEF TypeOK, BlockStep, Sync0, Sync1, Sync2, Sync3, Barrier, LoopTest, PCs
  <2>2. symbol_pos' \in [Thread -> Nat]
    BY <1>8 DEF TypeOK, BlockStep, Sync0, Sync1, Sync2, Sync3, Barrier
  <2> QED
    BY <1>8, <2>1, <2>2 DEF TypeOK, BlockStep, Sync0, Sync1, Sync2, Sync3, Barrier
<1>9. ASSUME PrintReports PROVE TypeOK'
  <2>1. ASSUME tail <= Capacity, NEW i \in 0 .. tail - 1
        PROVE  /\ output[i].symbol_offset \in Nat
               /\ job.nfa[output[i].nfa].original_id[output[i].state_id] \in Id
    <3>1. i \in DOMAIN output
      BY <1>9, <2>1, CapacityAssumption DEF Slots, TypeOK, PrintReports
    <3>2. output[i] \in [symbol_offset : Nat, state_id : Tid, nfa : Group]
      BY <3>1 DEF TypeOK
    <3>3. output[i].state_id \in Sids(job.nfa[output[i].nfa])
      BY <3>1 DEF Slots
    <3>4. IsNetwork(job.nfa[output[i].nfa], BlockDim, Byte, Id)
      BY <3>2, JobsAssumption DEF TypeOK
    <3> QED
      BY <3>2, <3>3, <3>4 DEF IsNetwork
  <2>2. report_file' \subseteq Nat \X Id
    <3>1. CASE tail > Capacity
      BY <1>9, <3>1 DEF PrintReports, TypeOK
    <3>2. CASE ~(tail > Capacity)
      <4>1. tail <= Capacity
        BY <3>2, CapacityAssumption DEF TypeOK
      <4> QED
        BY <1>9, <3>2, <4>1, <2>1 DEF PrintReports
    <3> QED
      BY <3>1, <3>2
  <2> QED
    BY <1>9, <2>2 DEF TypeOK, PrintReports
<1>10. CASE UNCHANGED vars
  BY <1>10 DEF TypeOK, vars
<1> QED
  BY <1>1, <1>2, <1>3, <1>4, <1>5, <1>6, <1>7, <1>8, <1>9, <1>10
     DEF Next, ThreadStep, Terminated

-----------------------------------------------------------------------------
(* The threads of a block stay between the same barriers. *)

\* At the start the threads with a state are together.
LEMMA InitLockstep == Init => Lockstep
<1> SUFFICES ASSUME Init PROVE Lockstep
  OBVIOUS
<1>1. TypeOK
  BY TypeInit
<1>2. ASSUME NEW t \in Thread
      PROVE  pc[t] = IF t \in ThreadsOf(t[1]) THEN "start" ELSE "done"
  BY <1>1, ThreadFacts DEF Init
<1>3. ASSUME NEW b \in Block, NEW t \in ThreadsOf(b)
      PROVE  /\ t \in Thread /\ t[1] = b /\ pc[t] = "start" /\ symbol_pos[t] = 0
             /\ Lead(b) \in Thread /\ pc[Lead(b)] = "start" /\ symbol_pos[Lead(b)] = 0
  <2>1. ThreadsOf(b) \subseteq Thread /\ Lead(b) \in ThreadsOf(b)
    BY <1>1, BlockFacts
  <2>2. \A u \in ThreadsOf(b) : u[1] = b
    BY DEF ThreadsOf
  <2> QED
    BY <1>2, <2>1, <2>2 DEF Init
<1> QED
  BY <1>2, <1>3 DEF Lockstep, SetUp, Matching, Promoting, Clearing

\* What no step changes.
LEMMA JobKept ==
    ASSUME [Next]_vars
    PROVE  /\ job' = job
           /\ \A b : /\ nfa(b)' = nfa(b)
                     /\ input(b)' = input(b)
                     /\ ThreadsOf(b)' = ThreadsOf(b)
                     /\ Lead(b)' = Lead(b)
<1>1. job' = job
  BY DEF Next, vars, ThreadStep, Start, Match, Enable, Claim, Write, Promote, Clear,
         BlockStep, Sync0, Sync1, Sync2, Sync3, Barrier, PrintReports, Terminated
<1> QED
  BY <1>1 DEF nfa, input, ThreadsOf, Lead

\* A step of one thread inside its phase.
LEMMA PhaseKept ==
    ASSUME TypeOK, Lockstep, [Next]_vars, NEW t \in Thread, NEW q \in PCs,
           pc[t] # "done", pc' = [pc EXCEPT ![t] = q], symbol_pos' = symbol_pos,
           \A P \in Phases : pc[t] \in P <=> q \in P
    PROVE  Lockstep'
<1>1. \A u \in Thread : \A P \in Phases : pc'[u] \in P <=> pc[u] \in P
  BY DEF TypeOK
<1>2. t \in ThreadsOf(t[1])
  BY RunningFacts
<1>3. \A b \in Block : \A u \in ThreadsOf(b) :
         /\ u \in Thread /\ Lead(b) \in Thread
         /\ pc'[u] \in SetUp <=> pc[u] \in SetUp
         /\ pc'[u] \in Matching <=> pc[u] \in Matching
         /\ pc'[u] \in Promoting <=> pc[u] \in Promoting
         /\ pc'[u] \in Clearing <=> pc[u] \in Clearing
  BY <1>1, BlockFacts DEF Phases
<1>4. \A u \in Thread : u \notin ThreadsOf(u[1]) => pc'[u] = "done"
  BY <1>2 DEF Lockstep, TypeOK
<1> QED
  BY <1>1, <1>3, <1>4, JobKept DEF Lockstep

\* The barriers move the whole block to the next phase.
LEMMA BlockLockstep ==
    ASSUME TypeOK, Lockstep, NEW b \in Block, BlockStep(b)
    PROVE  Lockstep'
<1>0. [Next]_vars
  BY DEF Next
<1>1. ThreadsOf(b) \subseteq Thread /\ Lead(b) \in ThreadsOf(b) /\ input(b) \in Seq(Byte)
  BY BlockFacts
<1>2. \A c \in Block : c # b => /\ ThreadsOf(c) \cap ThreadsOf(b) = {}
                                /\ ThreadsOf(c) \subseteq Thread
                                /\ Lead(c) \in ThreadsOf(c)
  BY BlockFacts DEF ThreadsOf
<1>3. PICK at \in {"sync0", "sync1", "sync2", "sync3"}, to \in {"match", "promote", "clear", "done"} :
         /\ \A t \in ThreadsOf(b) : pc[t] = at
         /\ \A t \in ThreadsOf(b) : pc'[t] = to
         /\ \A t \in Thread : t \notin ThreadsOf(b) => pc'[t] = pc[t] /\ symbol_pos'[t] = symbol_pos[t]
         /\ \A t \in ThreadsOf(b) : symbol_pos'[t] = symbol_pos'[Lead(b)]
         /\ to \in Matching \cup Promoting \cup Clearing => symbol_pos'[Lead(b)] < Len(input(b))
  <2>1. \A t \in ThreadsOf(b) : symbol_pos[t] = symbol_pos[Lead(b)]
    BY DEF Lockstep
  <2>2. CASE Sync0(b)
    <3>1. symbol_pos[Lead(b)] = 0
      BY <2>2, <1>1 DEF Sync0, Barrier, Released, Lockstep, SetUp
    <3>2. LoopTest(b, 0) \in {"match", "done"} /\ (LoopTest(b, 0) = "match" => 0 < Len(input(b)))
      BY DEF LoopTest
    <3> QED
      BY <2>1, <2>2, <3>1, <3>2, <1>1 DEF Sync0, Barrier, Released, TypeOK, Matching, Promoting, Clearing
  <2>3. CASE Sync1(b)
    <3>1. symbol_pos[Lead(b)] < Len(input(b))
      BY <2>3, <1>1 DEF Sync1, Barrier, Released, Lockstep, Matching
    <3> QED
      BY <2>1, <2>3, <3>1, <1>1 DEF Sync1, Barrier, Released, TypeOK
  <2>4. CASE Sync2(b)
    <3>1. symbol_pos[Lead(b)] < Len(input(b))
      BY <2>4, <1>1 DEF Sync2, Barrier, Released, Lockstep, Promoting
    <3> QED
      BY <2>1, <2>4, <3>1, <1>1 DEF Sync2, Barrier, Released, TypeOK
  <2>5. CASE Sync3(b)
    <3>1. \A t \in ThreadsOf(b) : /\ symbol_pos'[t] = symbol_pos[Lead(b)] + 1
                                  /\ pc'[t] = LoopTest(b, symbol_pos[Lead(b)] + 1)
      BY <2>1, <2>5, <1>1 DEF Sync3
    <3>2. \A t \in Thread : t \notin ThreadsOf(b) => pc'[t] = pc[t] /\ symbol_pos'[t] = symbol_pos[t]
      BY <2>5 DEF Sync3
    <3>3. \A t \in ThreadsOf(b) : pc[t] = "sync3"
      BY <2>5 DEF Sync3, Released
    <3>4. LoopTest(b, symbol_pos[Lead(b)] + 1) \in {"match", "done"}
      BY DEF LoopTest
    <3>5. LoopTest(b, symbol_pos[Lead(b)] + 1) = "match" => symbol_pos[Lead(b)] + 1 < Len(input(b))
      BY DEF LoopTest
    <3> QED
      BY <3>1, <3>2, <3>3, <3>4, <3>5, <1>1 DEF Matching, Promoting, Clearing
  <2> QED
    BY <2>2, <2>3, <2>4, <2>5 DEF BlockStep
<1>4. \A t \in ThreadsOf(b) : pc'[t] \notin SetUp
  BY <1>3 DEF SetUp
<1>5. \A t \in ThreadsOf(b) :
         /\ symbol_pos'[t] = symbol_pos'[Lead(b)]
         /\ \A P \in Phases : pc'[t] \in P <=> pc'[Lead(b)] \in P
         /\ pc'[t] \in Matching \cup Promoting \cup Clearing => symbol_pos'[t] < Len(input(b))
  BY <1>1, <1>3
<1>6. \A c \in Block : c # b => \A t \in ThreadsOf(c) :
         /\ pc'[t] = pc[t] /\ pc'[Lead(c)] = pc[Lead(c)]
         /\ symbol_pos'[t] = symbol_pos[t] /\ symbol_pos'[Lead(c)] = symbol_pos[Lead(c)]
  BY <1>2, <1>3
<1>7. \A t \in Thread : t \notin ThreadsOf(t[1]) => pc'[t] = "done"
  <2> SUFFICES ASSUME NEW t \in Thread, t \notin ThreadsOf(t[1]) PROVE pc'[t] = "done"
    OBVIOUS
  <2>1. t \notin ThreadsOf(b)
    BY DEF ThreadsOf
  <2> QED
    BY <2>1, <1>3 DEF Lockstep
<1> QED
  BY <1>0, <1>4, <1>5, <1>6, <1>7, JobKept DEF Lockstep

\* Every step leaves the threads of a block between the same two barriers.
LEMMA LockstepStep ==
    ASSUME TypeOK, Lockstep, [Next]_vars
    PROVE  Lockstep'
<1> USE DEF Phases, SetUp, Matching, Promoting, Clearing, Exited, PCs
<1>1. ASSUME NEW t \in Thread, Start(t) PROVE Lockstep'
  BY <1>1, PhaseKept DEF Start, Goto
<1>2. ASSUME NEW t \in Thread, Match(t) PROVE Lockstep'
  BY <1>2, PhaseKept DEF Match, Goto
<1>3. ASSUME NEW t \in Thread, Enable(t) PROVE Lockstep'
  BY <1>3, JobKept DEF Enable, Lockstep
<1>4. ASSUME NEW t \in Thread, Claim(t) PROVE Lockstep'
  BY <1>4, PhaseKept DEF Claim, Goto
<1>5. ASSUME NEW t \in Thread, Write(t) PROVE Lockstep'
  BY <1>5, PhaseKept DEF Write, Goto
<1>6. ASSUME NEW t \in Thread, Promote(t) PROVE Lockstep'
  BY <1>6, PhaseKept DEF Promote, Goto
<1>7. ASSUME NEW t \in Thread, Clear(t) PROVE Lockstep'
  BY <1>7, PhaseKept DEF Clear, Goto
<1>8. ASSUME NEW b \in Block, BlockStep(b) PROVE Lockstep'
  BY <1>8, BlockLockstep
<1>9. CASE PrintReports \/ UNCHANGED vars
  BY <1>9, JobKept DEF PrintReports, vars, Lockstep
<1> QED
  BY <1>1, <1>2, <1>3, <1>4, <1>5, <1>6, <1>7, <1>8, <1>9 DEF Next, ThreadStep, Terminated

\* Two threads of a block are in one phase.
LEMMA SamePhase ==
    ASSUME TypeOK, Lockstep, NEW b \in Block, NEW t \in ThreadsOf(b), NEW u \in ThreadsOf(b)
    PROVE  /\ pc[t] \in SetUp <=> pc[u] \in SetUp
           /\ pc[t] \in Matching <=> pc[u] \in Matching
           /\ pc[t] \in Promoting <=> pc[u] \in Promoting
           /\ pc[t] \in Clearing <=> pc[u] \in Clearing
           /\ symbol_pos[t] = symbol_pos[u]
<1>1. \A P \in Phases : pc[t] \in P <=> pc[u] \in P
  BY DEF Lockstep
<1>2. SetUp \in Phases /\ Matching \in Phases /\ Promoting \in Phases /\ Clearing \in Phases
  BY DEF Phases
<1> QED
  BY <1>1, <1>2 DEF Lockstep

-----------------------------------------------------------------------------
(* What a thread knows of its own cells. *)

\* At the start a thread knows nothing of its cells.
LEMMA InitThreadLocal == Init => ThreadLocal
<1> SUFFICES ASSUME Init PROVE ThreadLocal
  OBVIOUS
<1>1. ASSUME NEW b \in Block, NEW t \in ThreadsOf(b)
      PROVE  t \in Thread /\ t[1] = b /\ pc[t] \in {"start", "done"} /\ to_enable[t] = {}
  <2>1. t \in Thread
    BY TypeInit, BlockFacts
  <2> QED
    BY <2>1 DEF Init, ThreadsOf
<1> QED
  BY <1>1 DEF ThreadLocal

\* The one thread whose cells a store can change while it is between the
\* same barriers is the thread itself, except for its next cell in the match
\* phase.
LEMMA OwnCells ==
    ASSUME TypeOK, Lockstep, ThreadLocal, [Next]_vars,
           NEW b \in Block, NEW u \in ThreadsOf(b),
           pc'[u] = pc[u], pc[u] \in {"sync0", "sync2", "sync3"}
    PROVE  is_active'[u] = is_active[u] /\ is_active_next'[u] = is_active_next[u]
<1>0. u \in Thread /\ u[1] = b /\ u[2] \in Sids(nfa(b)) /\ u = <<b, u[2]>>
  BY BlockFacts, ThreadFacts DEF ThreadsOf
<1>1. ASSUME NEW t \in Thread, Start(t) \/ Promote(t) \/ Clear(t)
      PROVE  is_active'[u] = is_active[u] /\ is_active_next'[u] = is_active_next[u]
  BY <1>0, <1>1 DEF Start, Promote, Clear, Goto, TypeOK
<1>2. ASSUME NEW t \in Thread, Enable(t)
      PROVE  is_active'[u] = is_active[u] /\ is_active_next'[u] = is_active_next[u]
  <2>1. PICK s \in to_enable[t] :
           is_active_next' = [is_active_next EXCEPT ![<<t[1], s>>] = TRUE]
    BY <1>2 DEF Enable
  <2>2. t \in ThreadsOf(t[1]) /\ t[1] \in Block
    BY <1>2, RunningFacts DEF Enable
  <2>3. t[1] # b
    BY <1>2, <2>2, SamePhase DEF Enable, Matching
  <2>4. <<t[1], s>> # u
    BY <1>0, <2>3
  <2> QED
    BY <1>0, <1>2, <2>1, <2>4 DEF Enable, TypeOK
<1> QED
  BY <1>1, <1>2 DEF Next, vars, ThreadStep, Match, Claim, Write, BlockStep, Sync0, Sync1,
         Sync2, Sync3, Barrier, PrintReports, Terminated

\* What a thread knows of its own cells and registers survives the steps of the
\* others.
LEMMA ThreadLocalStep ==
    ASSUME TypeOK, Lockstep, ThreadLocal, [Next]_vars
    PROVE  ThreadLocal'
<1> SUFFICES ASSUME NEW b \in Block, NEW u \in ThreadsOf(b)
             PROVE  /\ pc'[u] \in {"enable", "write"} => Fires(u)'
                    /\ pc'[u] = "write" => u[2] \in nfa(b).report
                    /\ to_enable'[u] \subseteq nfa(b).edges[u[2]]
                    /\ pc'[u] # "enable" => to_enable'[u] = {}
                    /\ pc'[u] = "sync0" =>
                         is_active'[u] = (u[2] \in nfa(b).start) /\ ~is_active_next'[u]
                    /\ pc'[u] = "sync2" =>
                         is_active'[u] = (u[2] \in nfa(b).always \/ is_active_next'[u])
                    /\ pc'[u] = "sync3" => ~is_active_next'[u]
  BY JobKept DEF ThreadLocal
<1>0. u \in Thread /\ u[1] = b
  BY BlockFacts DEF ThreadsOf
<1>1. \A t \in Thread : pc[t] # "done" => t \in ThreadsOf(t[1])
  BY RunningFacts
<1>2. ASSUME UNCHANGED <<pc, symbol_pos, is_active, to_enable>>
      PROVE  /\ pc'[u] \in {"enable", "write"} => Fires(u)'
             /\ pc'[u] = "write" => u[2] \in nfa(b).report
             /\ to_enable'[u] \subseteq nfa(b).edges[u[2]]
             /\ pc'[u] # "enable" => to_enable'[u] = {}
  BY <1>2, JobKept DEF ThreadLocal, Fires, Matches
<1>3. ASSUME pc'[u] = pc[u]
      PROVE  /\ pc'[u] = "sync0" =>
                   is_active'[u] = (u[2] \in nfa(b).start) /\ ~is_active_next'[u]
             /\ pc'[u] = "sync2" =>
                   is_active'[u] = (u[2] \in nfa(b).always \/ is_active_next'[u])
             /\ pc'[u] = "sync3" => ~is_active_next'[u]
  BY <1>3, OwnCells DEF ThreadLocal
<1>4. ASSUME pc'[u] = pc[u], symbol_pos'[u] = symbol_pos[u], is_active'[u] = is_active[u],
             to_enable'[u] = to_enable[u]
      PROVE  /\ pc'[u] \in {"enable", "write"} => Fires(u)'
             /\ pc'[u] = "write" => u[2] \in nfa(b).report
             /\ to_enable'[u] \subseteq nfa(b).edges[u[2]]
             /\ pc'[u] # "enable" => to_enable'[u] = {}
  BY <1>4, <1>0, JobKept DEF ThreadLocal, Fires, Matches
<1>5. ASSUME NEW t \in Thread, t # u, ThreadStep(t)
      PROVE  /\ pc'[u] = pc[u] /\ symbol_pos'[u] = symbol_pos[u]
             /\ is_active'[u] = is_active[u] /\ to_enable'[u] = to_enable[u]
  BY <1>0, <1>5 DEF ThreadStep, Start, Match, Enable, Claim, Write, Promote, Clear, Goto, TypeOK
<1>6. CASE Start(u)
  <2>1. pc'[u] = "sync0" /\ to_enable'[u] = to_enable[u] /\ pc[u] = "start"
    BY <1>0, <1>6 DEF Start, Goto, TypeOK
  <2>2. is_active'[u] = (u[2] \in nfa(b).start)
    BY <1>0, <1>6 DEF Start, TypeOK
  <2>3. ~is_active_next'[u]
    BY <1>0, <1>6 DEF Start, TypeOK
  <2>4. to_enable[u] = {}
    BY <2>1 DEF ThreadLocal
  <2> QED
    BY <2>1, <2>2, <2>3, <2>4
<1>7. CASE Match(u)
  <2>1. pc'[u] = (IF Fires(u) THEN "enable" ELSE "sync1")
    BY <1>0, <1>7 DEF Match, Goto, TypeOK
  <2>2. to_enable'[u] = IF Fires(u) THEN nfa(b).edges[u[2]] ELSE {}
    BY <1>0, <1>7 DEF Match, TypeOK
  <2>3. Fires(u)' = Fires(u)
    BY <1>7, JobKept DEF Match, Fires, Matches
  <2> QED
    BY <2>1, <2>2, <2>3
<1>8. CASE Enable(u)
  BY <1>0, <1>2, <1>8, JobKept DEF Enable, TypeOK, ThreadLocal, Fires, Matches
<1>9. CASE Claim(u)
  <2>1. pc[u] = "enable" /\ to_enable[u] = {} /\ to_enable'[u] = {} /\ Fires(u)
    BY <1>0, <1>9 DEF Claim, Goto, ThreadLocal
  <2>2. pc'[u] = (IF u[2] \in nfa(b).report THEN "write" ELSE "sync1")
    BY <1>0, <1>9 DEF Claim, Goto, TypeOK
  <2>3. Fires(u)' = Fires(u)
    BY <1>9, JobKept DEF Claim, Fires, Matches
  <2> QED
    BY <2>1, <2>2, <2>3
<1>10. CASE Write(u)
  <2>1. pc'[u] = "sync1" /\ to_enable'[u] = to_enable[u] /\ pc[u] = "write"
    BY <1>0, <1>10 DEF Write, Goto, TypeOK
  <2>2. to_enable[u] = {}
    BY <2>1 DEF ThreadLocal
  <2> QED
    BY <2>1, <2>2
<1>11. CASE Promote(u)
  <2>1. pc'[u] = "sync2" /\ to_enable'[u] = to_enable[u] /\ pc[u] = "promote"
    BY <1>0, <1>11 DEF Promote, Goto, TypeOK
  <2>2. is_active'[u] = (u[2] \in nfa(b).always \/ is_active_next[u])
    BY <1>0, <1>11 DEF Promote, TypeOK
  <2>3. is_active_next'[u] = is_active_next[u]
    BY <1>11 DEF Promote
  <2>4. to_enable[u] = {}
    BY <2>1 DEF ThreadLocal
  <2> QED
    BY <2>1, <2>2, <2>3, <2>4
<1>12. CASE Clear(u)
  <2>1. pc'[u] = "sync3" /\ to_enable'[u] = to_enable[u] /\ pc[u] = "clear"
    BY <1>0, <1>12 DEF Clear, Goto, TypeOK
  <2>2. ~is_active_next'[u]
    BY <1>0, <1>12 DEF Clear, TypeOK
  <2>3. to_enable[u] = {}
    BY <2>1 DEF ThreadLocal
  <2> QED
    BY <2>1, <2>2, <2>3
<1>13. ASSUME NEW c \in Block, BlockStep(c)
       PROVE  /\ pc'[u] \in {"match", "promote", "clear", "done"} \/ pc'[u] = pc[u]
              /\ to_enable'[u] = to_enable[u] /\ is_active'[u] = is_active[u]
              /\ pc'[u] = pc[u] => symbol_pos'[u] = symbol_pos[u]
              /\ pc'[u] # pc[u] => pc[u] # "enable"
  BY <1>0, <1>13 DEF BlockStep, Sync0, Sync1, Sync2, Sync3, Barrier, Released, LoopTest, TypeOK
<1>14. ASSUME NEW c \in Block, BlockStep(c), pc'[u] # pc[u]
       PROVE  /\ pc'[u] \in {"match", "promote", "clear", "done"}
              /\ to_enable'[u] = {}
  BY <1>13, <1>14 DEF ThreadLocal
<1>15. CASE PrintReports \/ UNCHANGED vars
  BY <1>2, <1>3, <1>15 DEF PrintReports, vars
<1> QED
  <2>1. ASSUME NEW t \in Thread, t # u, ThreadStep(t)
        PROVE  pc'[u] = pc[u] /\ symbol_pos'[u] = symbol_pos[u]
               /\ is_active'[u] = is_active[u] /\ to_enable'[u] = to_enable[u]
    BY <2>1, <1>5
  <2>2. CASE \E t \in Thread : t # u /\ ThreadStep(t)
    BY <2>1, <2>2, <1>3, <1>4
  <2>3. CASE ThreadStep(u)
    BY <2>3, <1>3, <1>6, <1>7, <1>8, <1>9, <1>10, <1>11, <1>12 DEF ThreadStep
  <2>4. CASE \E c \in Block : BlockStep(c)
    <3>1. CASE pc'[u] = pc[u]
      BY <2>4, <3>1, <1>3, <1>4, <1>13
    <3>2. CASE pc'[u] # pc[u]
      <4>1. pc'[u] \in {"match", "promote", "clear", "done"} /\ to_enable'[u] = {}
        BY <2>4, <3>2, <1>14
      <4> QED
        BY <4>1
    <3> QED
      BY <3>1, <3>2
  <2> QED
    BY <2>2, <2>3, <2>4, <1>15, <1>0 DEF Next, Terminated

-----------------------------------------------------------------------------
(* A step belongs to one block, and leaves the cells and registers of the    *)
(* others alone.                                                             *)

SameBlock(b) ==
    \A s \in Sids(nfa(b)) :
        LET u == <<b, s>>
        IN  /\ pc'[u] = pc[u] /\ symbol_pos'[u] = symbol_pos[u]
            /\ is_active'[u] = is_active[u] /\ is_active_next'[u] = is_active_next[u]
            /\ to_enable'[u] = to_enable[u]

\* The threads of a block as pairs.
LEMMA BlockThreads ==
    ASSUME TypeOK, NEW b \in Block
    PROVE  /\ \A s \in Sids(nfa(b)) : /\ <<b, s>> \in Thread /\ <<b, s>> \in ThreadsOf(b)
                                      /\ <<b, s>>[1] = b /\ <<b, s>>[2] = s
           /\ 0 \in Sids(nfa(b)) /\ Lead(b) = <<b, 0>>
BY BlockFacts DEF Lead

\* A thread of another block changes nothing a block can see.
LEMMA OtherThread ==
    ASSUME TypeOK, Lockstep, ThreadLocal, NEW b \in Block, NEW t \in Thread, t[1] # b, ThreadStep(t)
    PROVE  SameBlock(b)
<1> SUFFICES ASSUME NEW s \in Sids(nfa(b))
             PROVE  /\ pc'[<<b, s>>] = pc[<<b, s>>]
                    /\ symbol_pos'[<<b, s>>] = symbol_pos[<<b, s>>]
                    /\ is_active'[<<b, s>>] = is_active[<<b, s>>]
                    /\ is_active_next'[<<b, s>>] = is_active_next[<<b, s>>]
                    /\ to_enable'[<<b, s>>] = to_enable[<<b, s>>]
  BY DEF SameBlock
<1> DEFINE u == <<b, s>>
<1>1. u \in Thread /\ u # t
  BY BlockThreads
<1>2. \A x : <<t[1], x>> # u
  OBVIOUS
<1> HIDE DEF u
<1>3. /\ pc'[u] = pc[u] /\ symbol_pos'[u] = symbol_pos[u]
      /\ is_active'[u] = is_active[u] /\ is_active_next'[u] = is_active_next[u]
      /\ to_enable'[u] = to_enable[u]
  BY <1>1, <1>2 DEF ThreadStep, Start, Match, Enable, Claim, Write, Promote, Clear, Goto, TypeOK
<1> QED
  BY <1>3 DEF u

\* A barrier of another block changes nothing a block can see.
LEMMA OtherBlock ==
    ASSUME TypeOK, NEW b \in Block, NEW c \in Block, c # b, BlockStep(c)
    PROVE  SameBlock(b)
<1>1. \A s \in Sids(nfa(b)) : <<b, s>> \in Thread /\ <<b, s>> \notin ThreadsOf(c)
  BY BlockThreads DEF ThreadsOf
<1> QED
  BY <1>1 DEF SameBlock, BlockStep, Sync0, Sync1, Sync2, Sync3, Barrier

\* What is said of the threads of a block stays true while none of them moves.
LEMMA SameBlockFacts ==
    ASSUME TypeOK, [Next]_vars, NEW b \in Block, SameBlock(b)
    PROVE  /\ \A r \in Sids(nfa(b)) : Fires(<<b, r>>)' <=> Fires(<<b, r>>)
           /\ \A r, s \in Sids(nfa(b)) : HasEnabled(b, r, s)' <=> HasEnabled(b, r, s)
           /\ \A s \in Sids(nfa(b)) : HasClaimed(b, s)' <=> HasClaimed(b, s)
           /\ pc'[Lead(b)] = pc[Lead(b)]
           /\ symbol_pos'[Lead(b)] = symbol_pos[Lead(b)]
           /\ abs_position'[b] = abs_position[b]
           /\ abs_enabled'[b] = abs_enabled[b]
<1>1. \A r \in Sids(nfa(b)) : Fires(<<b, r>>)' <=> Fires(<<b, r>>)
  BY JobKept, BlockThreads DEF SameBlock, Fires, Matches
<1>2. pc'[Lead(b)] = pc[Lead(b)] /\ symbol_pos'[Lead(b)] = symbol_pos[Lead(b)]
  BY BlockThreads DEF SameBlock
<1>3. \A r, s \in Sids(nfa(b)) : HasEnabled(b, r, s)' <=> HasEnabled(b, r, s)
  BY <1>1, JobKept DEF SameBlock, HasEnabled
<1>4. \A s \in Sids(nfa(b)) : HasClaimed(b, s)' <=> HasClaimed(b, s)
  BY <1>1, JobKept DEF SameBlock, HasClaimed
<1>5. abs_position'[b] = abs_position[b]
  BY <1>2, JobKept DEF abs_position
<1>6. /\ \A s \in Sids(nfa(b)) : is_active'[<<b, s>>] = is_active[<<b, s>>]
      /\ \A s \in Sids(nfa(b)) : is_active_next'[<<b, s>>] = is_active_next[<<b, s>>]
  BY DEF SameBlock
<1>7. { s \in Sids(nfa(b)) : is_active'[<<b, s>>] } = { s \in Sids(nfa(b)) : is_active[<<b, s>>] }
  BY <1>6
<1>8. { s \in Sids(nfa(b)) : is_active_next'[<<b, s>>] } = { s \in Sids(nfa(b)) : is_active_next[<<b, s>>] }
  BY <1>6
<1>9. abs_enabled'[b] = abs_enabled[b]
  BY <1>2, <1>7, <1>8, JobKept DEF abs_enabled
<1> QED
  BY <1>1, <1>2, <1>3, <1>4, <1>5, <1>9

-----------------------------------------------------------------------------
(* The next array accumulates the successors of the firing states. *)

\* At the start no block is matching.
LEMMA InitNextArray == Init => NextArray
<1> SUFFICES ASSUME Init, NEW b \in Block PROVE pc[Lead(b)] \notin Matching
  BY DEF NextArray
<1>1. Lead(b) \in Thread
  BY TypeInit, BlockThreads
<1> QED
  BY <1>1 DEF Init, Matching

\* One thread's step in the match phase of its block.
LEMMA MatchPhaseStep ==
    ASSUME TypeOK, Lockstep, ThreadLocal, NextArray, NEW t \in Thread, ThreadStep(t),
           pc'[Lead(t[1])] \in Matching, NEW s \in Sids(nfa(t[1]))
    PROVE  is_active_next'[<<t[1], s>>] <=> \E r \in Sids(nfa(t[1])) : HasEnabled(t[1], r, s)'
<1> DEFINE b == t[1]
<1>0. [Next]_vars /\ b \in Block /\ t = <<b, t[2]>>
  BY ThreadFacts DEF Next
<1>1. Lockstep'
  BY <1>0, LockstepStep
<1>2. TypeOK
  OBVIOUS
<1>3. pc[t] # "done"
  BY DEF ThreadStep, Start, Match, Enable, Claim, Write, Promote, Clear, Goto
<1>4. t \in ThreadsOf(b) /\ t[2] \in Sids(nfa(b)) /\ Lead(b) \in ThreadsOf(b)
  BY <1>0, <1>3, RunningFacts, BlockFacts
<1>5. Start(t) \/ Promote(t) \/ Clear(t) => FALSE
  <2>1. Matching \in Phases
    BY DEF Phases
  <2>2. pc'[t] \in Matching
    BY <1>0, <1>1, <1>4, <2>1, JobKept DEF Lockstep
  <2> QED
    BY <2>2 DEF Start, Promote, Clear, Goto, Matching, TypeOK
<1>6. pc[Lead(b)] \in Matching
  <2>1. pc[t] \in Matching
    BY <1>5 DEF ThreadStep, Match, Enable, Claim, Write, Goto, Matching
  <2> QED
    BY <2>1, <1>0, <1>4, SamePhase
<1>7. is_active_next[<<b, s>>] <=> \E r \in Sids(nfa(b)) : HasEnabled(b, r, s)
  BY <1>0, <1>6 DEF NextArray
<1>8. symbol_pos' = symbol_pos /\ is_active' = is_active
  BY <1>5 DEF ThreadStep, Match, Enable, Claim, Write
<1>9. \A r \in Sids(nfa(b)) : Fires(<<b, r>>)' <=> Fires(<<b, r>>)
  BY <1>0, <1>8, JobKept DEF Fires, Matches
<1>10. \A r \in Sids(nfa(b)) : r # t[2] =>
          /\ <<b, r>> # t /\ <<b, r>> \in Thread
          /\ pc'[<<b, r>>] = pc[<<b, r>>] /\ to_enable'[<<b, r>>] = to_enable[<<b, r>>]
  <2> SUFFICES ASSUME NEW r \in Sids(nfa(b)), r # t[2]
               PROVE  /\ <<b, r>> # t /\ <<b, r>> \in Thread
                      /\ pc'[<<b, r>>] = pc[<<b, r>>] /\ to_enable'[<<b, r>>] = to_enable[<<b, r>>]
    OBVIOUS
  <2>1. <<b, r>> \in Thread /\ <<b, r>> # t
    BY <1>0, BlockThreads
  <2> QED
    BY <2>1, <1>5 DEF ThreadStep, Match, Enable, Claim, Write, Goto, TypeOK
<1>11. \A r \in Sids(nfa(b)) : r # t[2] => (HasEnabled(b, r, s)' <=> HasEnabled(b, r, s))
  BY <1>0, <1>9, <1>10, JobKept DEF HasEnabled
<1>12. CASE Match(t)
  <2>1. ~HasEnabled(b, t[2], s)
    BY <1>0, <1>12 DEF HasEnabled, Match, Goto
  <2>2. ~HasEnabled(b, t[2], s)'
    <3>1. CASE Fires(t)
      <4>1. to_enable'[t] = nfa(b).edges[t[2]]
        BY <3>1, <1>12 DEF Match, TypeOK
      <4> QED
        BY <4>1, <1>0, JobKept DEF HasEnabled
    <3>2. CASE ~Fires(t)
      BY <3>2, <1>0, <1>4, <1>9 DEF HasEnabled
    <3> QED
      BY <3>1, <3>2
  <2>3. is_active_next' = is_active_next
    BY <1>12 DEF Match
  <2> QED
    BY <2>1, <2>2, <2>3, <1>7, <1>11
<1>13. CASE Enable(t)
  <2>1. PICK e \in to_enable[t] :
           /\ is_active_next' = [is_active_next EXCEPT ![<<b, e>>] = TRUE]
           /\ to_enable' = [to_enable EXCEPT ![t] = @ \ {e}]
    BY <1>13 DEF Enable
  <2>2. pc' = pc /\ pc[t] = "enable" /\ Fires(t) /\ to_enable[t] \subseteq nfa(b).edges[t[2]]
    BY <1>13, <1>0, <1>4 DEF Enable, ThreadLocal
  <2>3. to_enable'[t] = to_enable[t] \ {e}
    BY <2>1 DEF TypeOK
  <2>4. HasEnabled(b, t[2], s) <=> s \in nfa(b).edges[t[2]] \ to_enable[t]
    BY <2>2, <1>0 DEF HasEnabled
  <2>5. HasEnabled(b, t[2], s)' <=> s \in nfa(b).edges[t[2]] \ to_enable'[t]
    BY <2>2, <1>0, <1>4, <1>9, JobKept DEF HasEnabled
  <2>6. <<b, s>> \in Thread
    BY <1>0, BlockThreads
  <2>7. CASE s = e
    <3>1. is_active_next'[<<b, s>>] = TRUE
      BY <2>1, <2>6, <2>7 DEF TypeOK
    <3>2. HasEnabled(b, t[2], s)'
      BY <2>1, <2>2, <2>3, <2>5, <2>7
    <3> QED
      BY <3>1, <3>2, <1>4
  <2>8. CASE s # e
    <3>1. is_active_next'[<<b, s>>] = is_active_next[<<b, s>>]
      BY <2>1, <2>6, <2>8 DEF TypeOK
    <3>2. HasEnabled(b, t[2], s)' <=> HasEnabled(b, t[2], s)
      BY <2>3, <2>4, <2>5, <2>8
    <3> QED
      BY <3>1, <3>2, <1>7, <1>11
  <2> QED
    BY <2>7, <2>8
<1>14. CASE Claim(t) \/ Write(t)
  <2>1. /\ to_enable' = to_enable /\ is_active_next' = is_active_next
        /\ pc[t] \in {"enable", "write"} /\ pc'[t] \in {"write", "sync1"}
    BY <1>14 DEF Claim, Write, Goto, TypeOK
  <2>2. HasEnabled(b, t[2], s)' <=> HasEnabled(b, t[2], s)
    BY <2>1, <1>0, <1>4, <1>9, JobKept DEF HasEnabled
  <2> QED
    BY <2>1, <2>2, <1>7, <1>11
<1> QED
  BY <1>5, <1>12, <1>13, <1>14 DEF ThreadStep

\* The next array holds the edges stored so far after every step.
LEMMA NextArrayStep ==
    ASSUME TypeOK, Lockstep, ThreadLocal, NextArray, [Next]_vars
    PROVE  NextArray'
<1> SUFFICES ASSUME NEW b \in Block, pc'[Lead(b)] \in Matching, NEW s \in Sids(nfa(b))
             PROVE  is_active_next'[<<b, s>>] <=> \E r \in Sids(nfa(b)) : HasEnabled(b, r, s)'
  BY JobKept DEF NextArray
<1>1. ASSUME SameBlock(b)
      PROVE  is_active_next'[<<b, s>>] <=> \E r \in Sids(nfa(b)) : HasEnabled(b, r, s)'
  <2>1. pc[Lead(b)] \in Matching
    BY <1>1, SameBlockFacts
  <2>2. is_active_next'[<<b, s>>] = is_active_next[<<b, s>>]
    BY <1>1 DEF SameBlock
  <2> QED
    BY <2>1, <2>2, <1>1, SameBlockFacts DEF NextArray
<1>2. CASE \E t \in Thread : ThreadStep(t)
  <2>1. PICK t \in Thread : ThreadStep(t)
    BY <1>2
  <2>2. CASE t[1] = b
    BY <2>1, <2>2, MatchPhaseStep
  <2>3. CASE t[1] # b
    BY <2>1, <2>3, <1>1, OtherThread
  <2> QED
    BY <2>2, <2>3
<1>3. CASE \E c \in Block : BlockStep(c)
  <2>1. PICK c \in Block : BlockStep(c)
    BY <1>3
  <2>2. CASE c # b
    BY <2>1, <2>2, <1>1, OtherBlock
  <2>3. CASE c = b
    <3>1. \A r \in Sids(nfa(b)) : <<b, r>> \in ThreadsOf(b) /\ <<b, r>> \in Thread
      BY BlockThreads
    <3>2. Sync0(b) \/ Sync3(b)
      BY <2>1, <2>3, <3>1, BlockThreads DEF BlockStep, Sync1, Sync2, Barrier, Matching
    <3>3. \A r \in Sids(nfa(b)) : pc'[<<b, r>>] = pc'[Lead(b)]
      BY <2>3, <3>1, <3>2, LockstepStep, BlockThreads, JobKept
         DEF Sync0, Sync3, Barrier, Lockstep, LoopTest
    <3>4. pc'[Lead(b)] = "match"
      BY <3>1, <3>2, BlockThreads DEF Sync0, Sync3, Barrier, LoopTest, Matching
    <3>5. ~is_active_next[<<b, s>>] /\ is_active_next' = is_active_next
      BY <3>1, <3>2 DEF Sync0, Sync3, Barrier, Released, ThreadLocal
    <3>6. \A r \in Sids(nfa(b)) : ~HasEnabled(b, r, s)'
      BY <3>3, <3>4 DEF HasEnabled
    <3> QED
      BY <3>5, <3>6
  <2> QED
    BY <2>2, <2>3
<1>4. CASE PrintReports \/ UNCHANGED vars
  BY <1>1, <1>4 DEF PrintReports, vars, SameBlock
<1> QED
  BY <1>2, <1>3, <1>4 DEF Next, Terminated

-----------------------------------------------------------------------------
(* Slots of the output array. *)

\* At the start no slot is handed out.
LEMMA InitSlots == Init => Slots
BY DEF Init, Slots, SlotsExclusive

\* Every step hands out a slot at most once, and writes it by the thread that
\* has it.
LEMMA SlotsStep ==
    ASSUME TypeOK, Lockstep, Slots, [Next]_vars
    PROVE  Slots'
<1>1. ASSUME UNCHANGED <<write_to, tail, output, claims>>,
             \A u \in Thread : pc'[u] = "write" <=> pc[u] = "write"
      PROVE  Slots'
  BY <1>1, JobKept DEF Slots, SlotsExclusive
<1>2. ASSUME NEW t \in Thread, Start(t) \/ Match(t) \/ Enable(t) \/ Promote(t) \/ Clear(t)
      PROVE  Slots'
  BY <1>1, <1>2 DEF Start, Match, Enable, Promote, Clear, Goto, TypeOK
<1>3. ASSUME NEW b \in Block, BlockStep(b)
      PROVE  Slots'
  BY <1>1, <1>3 DEF BlockStep, Sync0, Sync1, Sync2, Sync3, Barrier, Released, LoopTest, TypeOK
<1>4. ASSUME NEW t \in Thread, Claim(t)
      PROVE  Slots'
  <2>1. CASE t[2] \notin nfa(t[1]).report
    BY <1>1, <1>4, <2>1 DEF Claim, Goto, TypeOK
  <2>2. CASE t[2] \in nfa(t[1]).report
    <3>1. /\ write_to' = [write_to EXCEPT ![t] = tail]
          /\ tail' = tail + 1 /\ output' = output
          /\ pc' = [pc EXCEPT ![t] = "write"]
          /\ claims' = Append(claims, <<t[1], symbol_pos[t], t[2]>>)
      BY <1>4, <2>2 DEF Claim, Goto
    <3>2. pc[t] # "write"
      BY <1>4 DEF Claim, Goto
    <3>3. Len(claims') = Len(claims) + 1
      BY <3>1 DEF TypeOK
    <3>4. SlotsExclusive'
      BY <3>1, <3>2 DEF Slots, SlotsExclusive, TypeOK
    <3>5. \A i \in 0 .. tail' - 1 :
             i \in DOMAIN output' \/ i >= Capacity \/ \E u \in Thread : pc'[u] = "write" /\ write_to'[u] = i
      <4> SUFFICES ASSUME NEW i \in 0 .. tail' - 1, i \notin DOMAIN output', ~(i >= Capacity)
                   PROVE  \E u \in Thread : pc'[u] = "write" /\ write_to'[u] = i
        OBVIOUS
      <4>1. CASE i = tail
        BY <3>1, <4>1 DEF TypeOK
      <4>2. CASE i # tail
        <5>1. i \in 0 .. tail - 1
          BY <3>1, <4>2 DEF TypeOK
        <5>2. PICK u \in Thread : pc[u] = "write" /\ write_to[u] = i
          BY <5>1, <3>1 DEF Slots
        <5> QED
          BY <5>2, <3>1, <3>2 DEF TypeOK
      <4> QED
        BY <4>1, <4>2
    <3> QED
      BY <3>1, <3>3, <3>4, <3>5, JobKept DEF Slots, TypeOK
  <2> QED
    BY <2>1, <2>2
<1>5. ASSUME NEW t \in Thread, Write(t)
      PROVE  Slots'
  <2>0. /\ pc[t] = "write" /\ pc' = [pc EXCEPT ![t] = "sync1"]
        /\ write_to' = write_to /\ tail' = tail /\ claims' = claims
        /\ t[2] \in Sids(job.nfa[t[1][1]])
    BY <1>5, RunningFacts DEF Write, Goto, nfa
  <2>1. write_to[t] \in 0 .. tail - 1
    BY <2>0 DEF Slots, SlotsExclusive
  <2>2. CASE write_to[t] < Capacity
    <3>1. output' = Stored(output, write_to[t], Entry(t))
      BY <1>5, <2>2 DEF Write
    <3>2. DOMAIN output' = DOMAIN output \cup {write_to[t]}
      BY <3>1 DEF Stored
    <3>3. SlotsExclusive'
      BY <2>0, <3>2 DEF Slots, SlotsExclusive, TypeOK
    <3>4. \A i \in 0 .. tail' - 1 :
             i \in DOMAIN output' \/ i >= Capacity \/ \E u \in Thread : pc'[u] = "write" /\ write_to'[u] = i
      BY <2>0, <3>2 DEF Slots, TypeOK
    <3>5. \A i \in DOMAIN output' : output'[i].state_id \in Sids(job.nfa[output'[i].nfa])
      BY <2>0, <3>1 DEF Slots, Stored, Entry
    <3> QED
      BY <2>0, <2>1, <3>2, <3>3, <3>4, <3>5, JobKept DEF Slots
  <2>3. CASE ~(write_to[t] < Capacity)
    <3>1. output' = output
      BY <1>5, <2>3 DEF Write
    <3>2. SlotsExclusive'
      BY <2>0, <3>1 DEF Slots, SlotsExclusive, TypeOK
    <3>3. write_to[t] >= Capacity
      BY <2>3, CapacityAssumption DEF TypeOK
    <3>4. \A i \in 0 .. tail' - 1 :
             i \in DOMAIN output' \/ i >= Capacity \/ \E u \in Thread : pc'[u] = "write" /\ write_to'[u] = i
      BY <2>0, <3>1, <3>3 DEF Slots, TypeOK
    <3> QED
      BY <2>0, <3>1, <3>2, <3>4, JobKept DEF Slots
  <2> QED
    BY <2>2, <2>3
<1>6. CASE PrintReports \/ UNCHANGED vars
  BY <1>1, <1>6 DEF PrintReports, vars
<1> QED
  BY <1>2, <1>3, <1>4, <1>5, <1>6 DEF Next, ThreadStep, Terminated

-----------------------------------------------------------------------------
(* The claims made so far, and when a block consumes its symbol. *)

\* A thread's step leaves every thread in its phase; only barriers move blocks.
LEMMA ThreadPhase ==
    ASSUME TypeOK, Lockstep, NEW t \in Thread, ThreadStep(t), NEW b \in Block
    PROVE  /\ pc'[Lead(b)] \in SetUp <=> pc[Lead(b)] \in SetUp
           /\ pc'[Lead(b)] \in Matching <=> pc[Lead(b)] \in Matching
           /\ pc'[Lead(b)] \in Promoting <=> pc[Lead(b)] \in Promoting
           /\ pc'[Lead(b)] \in Clearing <=> pc[Lead(b)] \in Clearing
           /\ symbol_pos' = symbol_pos
           /\ abs_position'[b] = abs_position[b]
<1>1. Lead(b) \in Thread
  BY BlockThreads
<1>2. /\ pc'[Lead(b)] \in SetUp <=> pc[Lead(b)] \in SetUp
      /\ pc'[Lead(b)] \in Matching <=> pc[Lead(b)] \in Matching
      /\ pc'[Lead(b)] \in Promoting <=> pc[Lead(b)] \in Promoting
      /\ pc'[Lead(b)] \in Clearing <=> pc[Lead(b)] \in Clearing
  BY <1>1 DEF ThreadStep, Start, Match, Enable, Claim, Write, Promote, Clear, Goto, TypeOK,
              SetUp, Matching, Promoting, Clearing
<1>3. symbol_pos' = symbol_pos
  BY DEF ThreadStep, Start, Match, Enable, Claim, Write, Promote, Clear
<1>4. pc[Lead(b)] \in {"promote", "sync2", "clear", "sync3"} <=>
      pc[Lead(b)] \in Promoting \cup Clearing
  BY DEF Promoting, Clearing
<1>5. pc'[Lead(b)] \in {"promote", "sync2", "clear", "sync3"} <=>
      pc'[Lead(b)] \in Promoting \cup Clearing
  BY DEF Promoting, Clearing
<1>6. job' = job /\ Lead(b)' = Lead(b)
  BY JobKept DEF Next
<1> QED
  BY <1>2, <1>3, <1>4, <1>5, <1>6 DEF abs_position, Lead

\* Block b is at its barriers as its threads are.
LEMMA BarrierPosition ==
    ASSUME TypeOK, Lockstep, NEW b \in Block, BlockStep(b)
    PROVE  /\ Sync1(b) => /\ pc[Lead(b)] \in Matching /\ pc'[Lead(b)] = "promote"
                          /\ abs_position[b] = symbol_pos[Lead(b)]
                          /\ abs_position'[b] = abs_position[b] + 1
           /\ ~Sync1(b) => /\ pc[Lead(b)] \notin Matching
                           /\ abs_position'[b] = abs_position[b]
<1>1. Lead(b) \in Thread /\ Lead(b) \in ThreadsOf(b)
  BY BlockThreads
<1>2. job' = job /\ Lead(b)' = Lead(b)
  BY JobKept DEF Next
<1>3. CASE Sync0(b)
  <2>1. pc[Lead(b)] = "sync0" /\ pc'[Lead(b)] \in {"match", "done"} /\ symbol_pos' = symbol_pos
    BY <1>1, <1>3 DEF Sync0, Barrier, Released, LoopTest
  <2> QED
    BY <1>2, <1>3, <2>1, <1>1 DEF abs_position, Sync1, Barrier, Released, Matching, Lead
<1>4. CASE Sync1(b)
  <2>1. pc[Lead(b)] = "sync1" /\ pc'[Lead(b)] = "promote" /\ symbol_pos' = symbol_pos
    BY <1>1, <1>4 DEF Sync1, Barrier, Released
  <2> QED
    BY <1>2, <1>4, <2>1, <1>1 DEF abs_position, Matching, Lead
<1>5. CASE Sync2(b)
  <2>1. pc[Lead(b)] = "sync2" /\ pc'[Lead(b)] = "clear" /\ symbol_pos' = symbol_pos
    BY <1>1, <1>5 DEF Sync2, Barrier, Released
  <2> QED
    BY <1>2, <1>5, <2>1, <1>1 DEF abs_position, Sync1, Barrier, Released, Matching, Lead
<1>6. CASE Sync3(b)
  <2>1. /\ pc[Lead(b)] = "sync3" /\ pc'[Lead(b)] \in {"match", "done"}
        /\ symbol_pos'[Lead(b)] = symbol_pos[Lead(b)] + 1
    BY <1>1, <1>6 DEF Sync3, Released, LoopTest
  <2> QED
    BY <1>2, <1>6, <2>1, <1>1 DEF abs_position, Sync1, Barrier, Released, Matching, Lead
<1> QED
  BY <1>3, <1>4, <1>5, <1>6 DEF BlockStep

\* At the start nothing is claimed.
LEMMA InitClaims == Init => ClaimsSoFar
<1> SUFFICES ASSUME Init PROVE ClaimsSoFar
  OBVIOUS
<1>1. \A b \in Block : pc[Lead(b)] \notin Matching
  BY TypeInit, BlockThreads DEF Init, Matching
<1>2. DOMAIN claims = {}
  BY DEF Init
<1> QED
  BY <1>1, <1>2 DEF ClaimsSoFar

\* ClaimsSoFar for one block.
ClaimsOf(b) ==
    /\ \A k \in DOMAIN claims : claims[k][1] = b =>
          \/ claims[k][2] < abs_position[b]
          \/ /\ pc[Lead(b)] \in Matching
             /\ \E s \in Sids(nfa(b)) :
                   HasClaimed(b, s) /\ claims[k] = <<b, abs_position[b], s>>
    /\ pc[Lead(b)] \in Matching =>
          \A s \in Sids(nfa(b)) : HasClaimed(b, s) =>
             \E k \in DOMAIN claims : claims[k] = <<b, symbol_pos[Lead(b)], s>>

\* The claims may be looked at block by block.
LEMMA ClaimsByBlock ==
    ASSUME TypeOK
    PROVE  ClaimsSoFar <=> \A b \in Block : ClaimsOf(b)
<1>1. \A k \in DOMAIN claims : claims[k][1] \in Block
  BY DEF TypeOK
<1> QED
  BY <1>1 DEF ClaimsSoFar, ClaimsOf

\* Claims grow only by the one the step makes.
LEMMA ClaimsGrow ==
    ASSUME TypeOK, Lockstep, [Next]_vars
    PROVE  \/ claims' = claims
           \/ \E t \in Thread :
                /\ Claim(t) /\ t[2] \in nfa(t[1]).report
                /\ DOMAIN claims' = DOMAIN claims \cup {Len(claims) + 1}
                /\ Len(claims) + 1 \notin DOMAIN claims
                /\ \A k \in DOMAIN claims : claims'[k] = claims[k]
                /\ claims'[Len(claims) + 1] = <<t[1], symbol_pos[t], t[2]>>
<1>1. ASSUME NEW t \in Thread, Claim(t), t[2] \in nfa(t[1]).report
      PROVE  /\ DOMAIN claims' = DOMAIN claims \cup {Len(claims) + 1}
             /\ Len(claims) + 1 \notin DOMAIN claims
             /\ \A k \in DOMAIN claims : claims'[k] = claims[k]
             /\ claims'[Len(claims) + 1] = <<t[1], symbol_pos[t], t[2]>>
  <2>1. <<t[1], symbol_pos[t], t[2]>> \in Block \X Nat \X Tid
    BY ThreadFacts DEF TypeOK
  <2>2. claims' = Append(claims, <<t[1], symbol_pos[t], t[2]>>)
    BY <1>1 DEF Claim
  <2>3. claims \in Seq(Block \X Nat \X Tid)
    BY DEF TypeOK
  <2> QED
    BY <2>1, <2>2, <2>3
<1>2. ASSUME NEW t \in Thread, Claim(t), t[2] \notin nfa(t[1]).report
      PROVE  claims' = claims
  BY <1>2 DEF Claim
<1>3. CASE \E t \in Thread : Claim(t)
  BY <1>1, <1>2, <1>3
<1>4. CASE ~ \E t \in Thread : Claim(t)
  BY <1>4 DEF Next, vars, ThreadStep, Start, Match, Enable, Write, Promote, Clear,
       BlockStep, Sync0, Sync1, Sync2, Sync3, Barrier, PrintReports, Terminated
<1> QED
  BY <1>3, <1>4

\* A step of another block leaves the claims of this one.
LEMMA ClaimsOther ==
    ASSUME TypeOK, Lockstep, [Next]_vars, NEW b \in Block, SameBlock(b), ClaimsOf(b),
           \A t \in Thread : Claim(t) => t[1] # b
    PROVE  ClaimsOf(b)'
<1>1. /\ \A k \in DOMAIN claims' : claims'[k][1] = b => k \in DOMAIN claims /\ claims'[k] = claims[k]
      /\ \A k \in DOMAIN claims : k \in DOMAIN claims' /\ claims'[k] = claims[k]
  <2>1. CASE claims' = claims
    BY <2>1
  <2>2. CASE claims' # claims
    <3>1. PICK t \in Thread :
            /\ t[1] # b
            /\ DOMAIN claims' = DOMAIN claims \cup {Len(claims) + 1}
            /\ Len(claims) + 1 \notin DOMAIN claims
            /\ \A k \in DOMAIN claims : claims'[k] = claims[k]
            /\ claims'[Len(claims) + 1] = <<t[1], symbol_pos[t], t[2]>>
      BY <2>2, ClaimsGrow
    <3>2. claims'[Len(claims) + 1][1] # b
      BY <3>1
    <3> QED
      BY <3>1, <3>2
  <2> QED
    BY <2>1, <2>2
<1>2. /\ \A s \in Sids(nfa(b)) : HasClaimed(b, s)' <=> HasClaimed(b, s)
      /\ pc'[Lead(b)] = pc[Lead(b)]
      /\ symbol_pos'[Lead(b)] = symbol_pos[Lead(b)]
      /\ abs_position'[b] = abs_position[b]
      /\ nfa(b)' = nfa(b) /\ Lead(b)' = Lead(b)
  BY SameBlockFacts, JobKept
<1> QED
  BY <1>1, <1>2 DEF ClaimsOf

\* A thread's step in its own block.
LEMMA ClaimsThread ==
    ASSUME TypeOK, Lockstep, ThreadLocal, NEW t \in Thread, ThreadStep(t), ClaimsOf(t[1])
    PROVE  ClaimsOf(t[1])'
<1> DEFINE b == t[1]
<1>0. [Next]_vars /\ b \in Block /\ t = <<b, t[2]>>
  BY ThreadFacts DEF Next
<1>1. t \in ThreadsOf(b) /\ t[2] \in Sids(nfa(b)) /\ Lead(b) \in ThreadsOf(b)
  <2>1. pc[t] # "done"
    BY DEF ThreadStep, Start, Match, Enable, Claim, Write, Promote, Clear, Goto
  <2> QED
    BY <1>0, <2>1, RunningFacts, BlockFacts
<1>2. /\ pc'[Lead(b)] \in Matching <=> pc[Lead(b)] \in Matching
      /\ symbol_pos' = symbol_pos
      /\ abs_position'[b] = abs_position[b]
      /\ nfa(b)' = nfa(b) /\ Lead(b)' = Lead(b)
  BY <1>0, ThreadPhase, JobKept
<1>3. CASE Start(t) \/ Promote(t) \/ Clear(t)
  <2>1. pc[Lead(b)] \notin Matching
    <3>1. pc[t] \notin Matching
      BY <1>3 DEF Start, Promote, Clear, Goto, Matching
    <3> QED
      BY <3>1, <1>0, <1>1, SamePhase
  <2>2. claims' = claims
    BY <1>3 DEF Start, Promote, Clear
  <2> QED
    BY <1>2, <2>1, <2>2 DEF ClaimsOf
<1>4. CASE Match(t) \/ Enable(t) \/ Claim(t) \/ Write(t)
  <2>1. pc[Lead(b)] \in Matching
    <3>1. pc[t] \in Matching
      BY <1>4 DEF Match, Enable, Claim, Write, Goto, Matching
    <3> QED
      BY <3>1, <1>0, <1>1, SamePhase
  <2>2. symbol_pos[t] = symbol_pos[Lead(b)] /\ abs_position[b] = symbol_pos[Lead(b)]
    BY <1>0, <1>1, <2>1, SamePhase DEF abs_position, Matching
  <2>3. \A s \in Sids(nfa(b)) : Fires(<<b, s>>)' <=> Fires(<<b, s>>)
    BY <1>0, <1>4, JobKept DEF Match, Enable, Claim, Write, Fires, Matches
  <2>7. /\ HasClaimed(b, t[2]) <=>
              pc[t] \in {"write", "sync1"} /\ Fires(t) /\ t[2] \in nfa(b).report
        /\ HasClaimed(b, t[2])' <=>
              pc'[t] \in {"write", "sync1"} /\ Fires(t) /\ t[2] \in nfa(b).report
    <3>1. <<b, t[2]>> = t
      BY <1>0
    <3>2. Fires(<<b, t[2]>>)' <=> Fires(<<b, t[2]>>)
      BY <2>3, <1>1
    <3>3. Fires(<<b, t[2]>>) <=> Fires(t)
      BY <3>1 DEF Fires, Matches
    <3>4. pc'[<<b, t[2]>>] = pc'[t] /\ pc[<<b, t[2]>>] = pc[t]
      BY <3>1
    <3> QED
      BY <3>2, <3>3, <3>4, <1>2 DEF HasClaimed
  <2>4. \A s \in Sids(nfa(b)) : s # t[2] => (HasClaimed(b, s)' <=> HasClaimed(b, s))
    <3> SUFFICES ASSUME NEW s \in Sids(nfa(b)), s # t[2]
                 PROVE  HasClaimed(b, s)' <=> HasClaimed(b, s)
      OBVIOUS
    <3>1. <<b, s>> \in Thread /\ <<b, s>> # t
      BY <1>0, BlockThreads
    <3>2. pc'[<<b, s>>] = pc[<<b, s>>]
      BY <3>1, <1>4 DEF Match, Enable, Claim, Write, Goto, TypeOK
    <3> QED
      BY <3>2, <2>3, <1>2 DEF HasClaimed
  <2>5. CASE ~(Claim(t) /\ t[2] \in nfa(b).report)
    <3>1. claims' = claims
      BY <2>5, <1>4 DEF Match, Enable, Claim, Write
    <3>2. HasClaimed(b, t[2])' <=> HasClaimed(b, t[2])
      <4>1. CASE Match(t)
        <5>1. pc[t] = "match" /\ pc'[t] = (IF Fires(t) THEN "enable" ELSE "sync1")
          BY <4>1 DEF Match, Goto, TypeOK
        <5> QED
          BY <5>1, <2>7
      <4>2. CASE Enable(t)
        BY <4>2, <2>7 DEF Enable
      <4>3. CASE Claim(t)
        BY <4>3, <2>5, <2>7
      <4>4. CASE Write(t)
        <5>1. pc[t] = "write" /\ pc'[t] = "sync1"
          BY <4>4 DEF Write, Goto, TypeOK
        <5> QED
          BY <5>1, <2>7
      <4> QED
        BY <4>1, <4>2, <4>3, <4>4, <1>4
    <3>3. \A s \in Sids(nfa(b)) : HasClaimed(b, s)' <=> HasClaimed(b, s)
      BY <2>4, <3>2
    <3> QED
      BY <1>2, <2>1, <3>1, <3>3 DEF ClaimsOf
  <2>6. CASE Claim(t) /\ t[2] \in nfa(b).report
    <3>1. /\ DOMAIN claims' = DOMAIN claims \cup {Len(claims) + 1}
          /\ \A k \in DOMAIN claims : claims'[k] = claims[k]
          /\ claims'[Len(claims) + 1] = <<b, symbol_pos[Lead(b)], t[2]>>
      <4>1. <<b, symbol_pos[t], t[2]>> \in Block \X Nat \X Tid
        BY <1>0, ThreadFacts DEF TypeOK
      <4>2. claims' = Append(claims, <<b, symbol_pos[t], t[2]>>)
        BY <2>6 DEF Claim
      <4>3. claims \in Seq(Block \X Nat \X Tid)
        BY DEF TypeOK
      <4> QED
        BY <4>1, <4>2, <4>3, <2>2
    <3>2. HasClaimed(b, t[2])' /\ ~HasClaimed(b, t[2])
      <4>1. pc[t] = "enable" /\ pc'[t] = "write" /\ Fires(t)
        BY <2>6, <1>0, <1>1 DEF Claim, Goto, TypeOK, ThreadLocal
      <4> QED
        BY <4>1, <2>6, <2>7
    <3>3. \A s \in Sids(nfa(b)) : HasClaimed(b, s) => HasClaimed(b, s)'
      BY <2>4, <3>2
    <3>4. \A k \in DOMAIN claims' : claims'[k][1] = b =>
            \/ claims'[k][2] < abs_position[b]
            \/ \E s \in Sids(nfa(b)) :
                  HasClaimed(b, s)' /\ claims'[k] = <<b, abs_position[b], s>>
      <4> SUFFICES ASSUME NEW k \in DOMAIN claims', claims'[k][1] = b
                   PROVE  \/ claims'[k][2] < abs_position[b]
                          \/ \E s \in Sids(nfa(b)) :
                               HasClaimed(b, s)' /\ claims'[k] = <<b, abs_position[b], s>>
        OBVIOUS
      <4>1. CASE k = Len(claims) + 1
        BY <4>1, <3>1, <3>2, <2>2, <1>1
      <4>2. CASE k \in DOMAIN claims
        <5>1. claims'[k] = claims[k]
          BY <4>2, <3>1
        <5>2. \/ claims[k][2] < abs_position[b]
              \/ \E s \in Sids(nfa(b)) :
                    HasClaimed(b, s) /\ claims[k] = <<b, abs_position[b], s>>
          BY <4>2, <5>1 DEF ClaimsOf
        <5> QED
          BY <5>1, <5>2, <3>3
      <4> QED
        BY <4>1, <4>2, <3>1
    <3>5. \A s \in Sids(nfa(b)) : HasClaimed(b, s)' =>
            \E k \in DOMAIN claims' : claims'[k] = <<b, symbol_pos[Lead(b)], s>>
      <4> SUFFICES ASSUME NEW s \in Sids(nfa(b)), HasClaimed(b, s)'
                   PROVE  \E k \in DOMAIN claims' : claims'[k] = <<b, symbol_pos[Lead(b)], s>>
        OBVIOUS
      <4>1. CASE s = t[2]
        BY <4>1, <3>1
      <4>2. CASE s # t[2]
        <5>1. PICK k \in DOMAIN claims : claims[k] = <<b, symbol_pos[Lead(b)], s>>
          BY <4>2, <2>1, <2>4 DEF ClaimsOf
        <5> QED
          BY <5>1, <3>1
      <4> QED
        BY <4>1, <4>2
    <3> QED
      BY <1>2, <2>1, <3>4, <3>5 DEF ClaimsOf
  <2> QED
    BY <2>5, <2>6
<1> QED
  BY <1>3, <1>4 DEF ThreadStep

\* The claims are those of the symbols before and of the threads that have made
\* theirs, after every step.
LEMMA ClaimsStep ==
    ASSUME TypeOK, Lockstep, ThreadLocal, Slots, ClaimsSoFar, [Next]_vars
    PROVE  ClaimsSoFar'
<1> SUFFICES ASSUME NEW b \in Block PROVE ClaimsOf(b)'
  <2>1. (\A b \in Block : ClaimsOf(b))' => ClaimsSoFar'
    <3>1. \A k \in DOMAIN claims' : claims'[k][1] \in Block
      BY TypeStep DEF TypeOK
    <3> QED
      BY <3>1 DEF ClaimsSoFar, ClaimsOf
  <2> QED
    BY <2>1
<1>1. ClaimsOf(b)
  BY ClaimsByBlock
<1>2. CASE \E t \in Thread : ThreadStep(t)
  <2>1. PICK t \in Thread : ThreadStep(t)
    BY <1>2
  <2>2. CASE t[1] = b
    BY <2>1, <2>2, <1>1, ClaimsThread
  <2>3. CASE t[1] # b
    <3>1. \A u \in Thread : Claim(u) => u[1] # b
      <4> SUFFICES ASSUME NEW u \in Thread, Claim(u), u[1] = b PROVE FALSE
        OBVIOUS
      <4>1. SameBlock(b) /\ u[2] \in Sids(nfa(b)) /\ u = <<b, u[2]>>
        BY <2>1, <2>3, OtherThread, RunningFacts DEF Claim, Goto
      <4>2. pc'[u] = pc[u]
        BY <4>1 DEF SameBlock
      <4> QED
        BY <4>2 DEF Claim, Goto, TypeOK
    <3> QED
      BY <2>1, <2>3, <3>1, <1>1, OtherThread, ClaimsOther
  <2> QED
    BY <2>2, <2>3
<1>3. ASSUME ~ \E t \in Thread : Claim(t), SameBlock(b)
      PROVE  ClaimsOf(b)'
  BY <1>1, <1>3, ClaimsOther
<1>4. CASE \E c \in Block : BlockStep(c)
  <2>1. PICK c \in Block : BlockStep(c)
    BY <1>4
  <2>2. claims' = claims
    BY <2>1 DEF BlockStep, Sync0, Sync1, Sync2, Sync3, Barrier
  <2>3. CASE c = b
    <3>1. CASE Sync1(b)
      <4>1. /\ pc'[Lead(b)] \notin Matching /\ abs_position'[b] = abs_position[b] + 1
        BY <2>1, <2>3, <3>1, BarrierPosition DEF Matching
      <4>2. \A k \in DOMAIN claims : claims[k][1] = b =>
               claims[k][2] < abs_position[b] \/ claims[k][2] = abs_position[b]
        BY <1>1 DEF ClaimsOf
      <4>3. \A k \in DOMAIN claims : claims[k][2] \in Nat
        BY DEF TypeOK
      <4>4. abs_position[b] \in Nat
        BY <2>1, <2>3, <3>1, BarrierPosition, BlockThreads DEF TypeOK
      <4>5. \A k \in DOMAIN claims : claims[k][1] = b => claims[k][2] < abs_position'[b]
        BY <4>1, <4>2, <4>3, <4>4
      <4> QED
        BY <4>1, <4>5, <2>2, JobKept DEF ClaimsOf
    <3>2. CASE ~Sync1(b)
      <4>1. pc[Lead(b)] \notin Matching /\ abs_position'[b] = abs_position[b]
        BY <2>1, <2>3, <3>2, BarrierPosition
      <4>2. \A k \in DOMAIN claims : claims[k][1] = b => claims[k][2] < abs_position[b]
        BY <4>1, <1>1 DEF ClaimsOf
      <4>3. \A s \in Sids(nfa(b)) : ~HasClaimed(b, s)'
        <5>1. \A s \in Sids(nfa(b)) : pc'[<<b, s>>] \in {"match", "clear", "done"}
          BY <2>1, <2>3, <3>2, BlockThreads DEF BlockStep, Sync0, Sync2, Sync3, Barrier, LoopTest
        <5> QED
          BY <5>1 DEF HasClaimed
      <4>4. \A k \in DOMAIN claims' : claims'[k][1] = b => claims'[k][2] < abs_position'[b]
        BY <4>1, <4>2, <2>2
      <4>5. nfa(b)' = nfa(b)
        BY JobKept
      <4> QED
        BY <4>3, <4>4, <4>5 DEF ClaimsOf
    <3> QED
      BY <3>1, <3>2
  <2>4. CASE c # b
    <3>1. ASSUME NEW t \in Thread, Claim(t) PROVE FALSE
      <4>1. pc[t] = "enable" /\ pc'[t] # "enable"
        BY <3>1 DEF Claim, Goto, TypeOK
      <4> QED
        BY <2>1, <4>1 DEF BlockStep, Sync0, Sync1, Sync2, Sync3, Barrier, Released
    <3> QED
      BY <2>1, <2>4, <3>1, <1>3, OtherBlock
  <2> QED
    BY <2>3, <2>4
<1>5. CASE PrintReports \/ UNCHANGED vars
  <2>1. SameBlock(b) /\ claims' = claims
    BY <1>5 DEF PrintReports, vars, SameBlock
  <2> QED
    BY <2>1, <1>1, SameBlockFacts, JobKept DEF ClaimsOf
<1> QED
  BY <1>2, <1>4, <1>5 DEF Next, Terminated

-----------------------------------------------------------------------------
(* What the slots hold, and how the run ends. *)

\* At the start there is no claim and the host waits.
LEMMA InitLedgerEndings == Init => Ledger /\ Endings
<1> SUFFICES ASSUME Init PROVE Ledger /\ Endings
  OBVIOUS
<1>1. \A b \in Block : pc[Lead(b)] # "done"
  <2>1. \A b \in Block : Lead(b) \in Thread /\ Lead(b)[1] = b /\ Lead(b)[2] = 0 /\ nfa(b).size \in Nat \ {0}
    BY TypeInit, BlockThreads, BlockFacts DEF IsNetwork
  <2> QED
    BY <2>1 DEF Init
<1>2. DOMAIN claims = {} /\ DOMAIN output = {} /\ host = "waiting"
  BY DEF Init
<1>3. \A t \in Thread : pc[t] # "write"
  BY DEF Init
<1> QED
  BY <1>1, <1>2, <1>3 DEF Ledger, Endings

\* A claim is for a report no one claimed before, and it is the claim that the
\* thread's slot and then the array hold.
LEMMA LedgerStep ==
    ASSUME TypeOK, Lockstep, ClaimsSoFar, Slots, Ledger, [Next]_vars
    PROVE  Ledger'
<1>1. ASSUME UNCHANGED <<write_to, output, claims>>,
             \A u \in Thread : pc'[u] = "write" => pc[u] = "write" /\ symbol_pos'[u] = symbol_pos[u]
      PROVE  Ledger'
  BY <1>1 DEF Ledger
<1>2. ASSUME NEW t \in Thread, Start(t) \/ Match(t) \/ Enable(t) \/ Promote(t) \/ Clear(t)
      PROVE  Ledger'
  BY <1>1, <1>2 DEF Start, Match, Enable, Promote, Clear, Goto, TypeOK
<1>3. ASSUME NEW b \in Block, BlockStep(b)
      PROVE  Ledger'
  BY <1>1, <1>3 DEF BlockStep, Sync0, Sync1, Sync2, Sync3, Barrier, Released, LoopTest, TypeOK
<1>4. ASSUME NEW t \in Thread, Claim(t)
      PROVE  Ledger'
  <2>1. CASE t[2] \notin nfa(t[1]).report
    BY <1>1, <1>4, <2>1 DEF Claim, Goto, TypeOK
  <2>2. CASE t[2] \in nfa(t[1]).report
    <3> DEFINE new == <<t[1], symbol_pos[t], t[2]>>
               last == Len(claims) + 1
    <3>1. /\ write_to' = [write_to EXCEPT ![t] = tail] /\ output' = output
          /\ pc' = [pc EXCEPT ![t] = "write"] /\ symbol_pos' = symbol_pos
          /\ pc[t] = "enable" /\ claims' = Append(claims, new)
      BY <1>4, <2>2 DEF Claim, Goto
    <3>2. new \in Block \X Nat \X Tid /\ claims \in Seq(Block \X Nat \X Tid)
      BY ThreadFacts DEF TypeOK
    <3>3. /\ DOMAIN claims' = DOMAIN claims \cup {last} /\ last \notin DOMAIN claims
          /\ DOMAIN claims = 1 .. Len(claims) /\ Len(claims) \in Nat
          /\ \A k \in DOMAIN claims : claims'[k] = claims[k]
          /\ claims'[last] = new
      BY <3>1, <3>2
    <3>4. \A k \in DOMAIN claims : claims[k] # new
      <4> SUFFICES ASSUME NEW k \in DOMAIN claims, claims[k] = new PROVE FALSE
        OBVIOUS
      <4>1. t[1] \in Block /\ t = <<t[1], t[2]>> /\ t \in ThreadsOf(t[1]) /\ Lead(t[1]) \in ThreadsOf(t[1])
        BY <3>1, RunningFacts, BlockFacts
      <4>2. pc[Lead(t[1])] \in Matching /\ symbol_pos[t] = symbol_pos[Lead(t[1])]
        BY <3>1, <4>1, SamePhase DEF Matching
      <4>3. abs_position[t[1]] = symbol_pos[t] /\ symbol_pos[t] \in Nat
        BY <4>1, <4>2 DEF abs_position, Matching, TypeOK
      <4>4. claims[k][1] = t[1] /\ claims[k][2] = symbol_pos[t] /\ claims[k][3] = t[2]
        OBVIOUS
      <4>5. PICK s \in Sids(nfa(t[1])) : HasClaimed(t[1], s) /\ claims[k] = <<t[1], abs_position[t[1]], s>>
        BY <4>3, <4>4 DEF ClaimsSoFar
      <4>6. HasClaimed(t[1], t[2])
        BY <4>4, <4>5
      <4> QED
        BY <3>1, <4>1, <4>6 DEF HasClaimed
    <3> HIDE DEF new
    <3>5. \A j, k \in DOMAIN claims' : claims'[j] = claims'[k] => j = k
      BY <3>3, <3>4 DEF Ledger
    <3>6. ASSUME NEW u \in Thread, pc'[u] = "write"
          PROVE  claims'[write_to'[u] + 1] = <<u[1], symbol_pos'[u], u[2]>>
      <4>1. CASE u = t
        BY <3>1, <3>3, <4>1 DEF new, Slots, TypeOK
      <4>2. CASE u # t
        <5>1. pc[u] = "write" /\ write_to'[u] = write_to[u]
          BY <3>1, <3>6, <4>2 DEF TypeOK
        <5>2. write_to[u] + 1 \in DOMAIN claims
          BY <3>3, <5>1 DEF Slots, SlotsExclusive
        <5> QED
          BY <3>1, <3>3, <5>1, <5>2 DEF Ledger
      <4> QED
        BY <4>1, <4>2
    <3>7. \A i \in DOMAIN output : claims'[i + 1] = claims[i + 1]
      BY <3>3 DEF Slots
    <3> QED
      BY <3>1, <3>5, <3>6, <3>7 DEF Ledger
  <2> QED
    BY <2>1, <2>2
<1>5. ASSUME NEW t \in Thread, Write(t)
      PROVE  Ledger'
  <2>1. /\ pc[t] = "write" /\ pc' = [pc EXCEPT ![t] = "sync1"]
        /\ UNCHANGED <<write_to, claims, symbol_pos>>
    BY <1>5 DEF Write, Goto
  <2>2. ASSUME NEW i \in DOMAIN output'
        PROVE  LET c == claims[i + 1]
               IN  output'[i] = [symbol_offset |-> c[2], state_id |-> c[3], nfa |-> c[1][1]]
    <3>1. CASE output' = output
      BY <2>2, <3>1 DEF Ledger
    <3>2. CASE output' = Stored(output, write_to[t], Entry(t))
      <4>1. CASE i = write_to[t]
        <5>1. output'[i] = Entry(t)
          BY <3>2, <4>1 DEF Stored
        <5>2. claims[i + 1] = <<t[1], symbol_pos[t], t[2]>>
          BY <2>1, <4>1 DEF Ledger
        <5> QED
          BY <5>1, <5>2 DEF Entry
      <4>2. CASE i # write_to[t]
        <5>1. i \in DOMAIN output /\ output'[i] = output[i]
          BY <2>2, <3>2, <4>2 DEF Stored
        <5> QED
          BY <5>1 DEF Ledger
      <4> QED
        BY <4>1, <4>2
    <3> QED
      BY <1>5, <3>1, <3>2 DEF Write
  <2>3. \A u \in Thread : pc'[u] = "write" => pc[u] = "write"
    BY <2>1 DEF TypeOK
  <2> QED
    BY <2>1, <2>2, <2>3 DEF Ledger
<1>6. CASE PrintReports \/ UNCHANGED vars
  BY <1>1, <1>6 DEF PrintReports, vars
<1> QED
  BY <1>2, <1>3, <1>4, <1>5, <1>6 DEF Next, ThreadStep, Terminated

\* A block leaves the kernel only when its loop test fails, and once all have
\* left, the host alone moves.
LEMMA EndingsStep ==
    ASSUME TypeOK, Lockstep, Slots, Ledger, Endings, [Next]_vars
    PROVE  Endings'
<1>1. \A b \in Block : /\ Lead(b) \in Thread /\ Lead(b) \in ThreadsOf(b) /\ Lead(b)' = Lead(b)
                       /\ nfa(b)' = nfa(b) /\ input(b)' = input(b) /\ input(b) \in Seq(Byte)
  BY BlockFacts, JobKept
<1>2. ASSUME NEW t \in Thread, ThreadStep(t) PROVE Endings'
  <2>1. /\ pc[t] # "done" /\ UNCHANGED <<host, report_file, symbol_pos>>
        /\ \A u \in Thread : pc'[u] = "done" => pc[u] = "done"
    BY <1>2 DEF ThreadStep, Start, Match, Enable, Claim, Write, Promote, Clear, Goto, TypeOK
  <2>2. host = "waiting"
    BY <2>1 DEF Endings
  <2> QED
    BY <1>1, <2>1, <2>2 DEF Endings
<1>3. ASSUME NEW b \in Block, BlockStep(b) PROVE Endings'
  <2>1. UNCHANGED <<host, report_file, claims>> /\ pc[Lead(b)] # "done"
    BY <1>1, <1>3 DEF BlockStep, Sync0, Sync1, Sync2, Sync3, Barrier, Released
  <2>2. host = "waiting"
    BY <1>1, <2>1 DEF Endings
  <2>3. pc'[Lead(b)] = "done" => symbol_pos'[Lead(b)] = Len(input(b))
    <3>1. \A t \in ThreadsOf(b) : symbol_pos[t] = symbol_pos[Lead(b)]
      BY DEF Lockstep
    <3>2. CASE Sync0(b)
      <4>1. symbol_pos[Lead(b)] = 0 /\ symbol_pos' = symbol_pos /\ pc'[Lead(b)] = LoopTest(b, 0)
        BY <1>1, <3>2 DEF Sync0, Barrier, Released, Lockstep, SetUp
      <4> QED
        BY <1>1, <4>1 DEF LoopTest
    <3>3. CASE Sync1(b) \/ Sync2(b)
      BY <1>1, <3>3 DEF Sync1, Sync2, Barrier
    <3>4. CASE Sync3(b)
      <4>1. /\ pc'[Lead(b)] = LoopTest(b, symbol_pos[Lead(b)] + 1)
            /\ symbol_pos'[Lead(b)] = symbol_pos[Lead(b)] + 1
            /\ pc[Lead(b)] = "sync3" /\ symbol_pos[Lead(b)] \in Nat
        BY <1>1, <3>4 DEF Sync3, Released, TypeOK
      <4>2. symbol_pos[Lead(b)] < Len(input(b))
        BY <1>1, <4>1 DEF Lockstep, Clearing
      <4> QED
        BY <1>1, <4>1, <4>2 DEF LoopTest
    <3> QED
      BY <1>3, <3>2, <3>3, <3>4 DEF BlockStep
  <2>4. \A c \in Block : c # b => pc'[Lead(c)] = pc[Lead(c)] /\ symbol_pos'[Lead(c)] = symbol_pos[Lead(c)]
    <3>1. \A c \in Block : c # b => Lead(c) \notin ThreadsOf(b)
      BY DEF Lead, ThreadsOf
    <3> QED
      BY <1>1, <1>3, <3>1 DEF BlockStep, Sync0, Sync1, Sync2, Sync3, Barrier
  <2> QED
    BY <1>1, <2>1, <2>2, <2>3, <2>4 DEF Endings
<1>4. CASE PrintReports
  <2>1. UNCHANGED <<pc, symbol_pos, claims>> /\ \A t \in Thread : pc[t] = "done"
    BY <1>4 DEF PrintReports
  <2>2. host' = "printed" =>
          report_file' = { <<claims[k][2], nfa(claims[k][1]).original_id[claims[k][3]]>> :
                           k \in DOMAIN claims }
    <3> SUFFICES ASSUME host' = "printed"
                 PROVE  report_file' = { <<claims[k][2], nfa(claims[k][1]).original_id[claims[k][3]]>> :
                                         k \in DOMAIN claims }
      OBVIOUS
    <3>1. /\ tail <= Capacity
          /\ report_file' =
                 { <<output[i].symbol_offset,
                     job.nfa[output[i].nfa].original_id[output[i].state_id]>> : i \in 0 .. tail - 1 }
      BY <1>4, CapacityAssumption DEF PrintReports, TypeOK
    <3>2. \A i \in 0 .. tail - 1 : i \in DOMAIN output
      BY <2>1, <3>1, CapacityAssumption DEF Slots, TypeOK
    <3>3. \A i \in 0 .. tail - 1 :
             /\ output[i].symbol_offset = claims[i + 1][2]
             /\ job.nfa[output[i].nfa].original_id[output[i].state_id]
                  = nfa(claims[i + 1][1]).original_id[claims[i + 1][3]]
      BY <3>2 DEF Ledger, nfa
    <3>4. tail = Len(claims) /\ tail \in Nat /\ DOMAIN claims = 1 .. tail
      BY DEF Slots, TypeOK
    <3>5. \A i \in 0 .. tail - 1 : i + 1 \in DOMAIN claims
      BY <3>4
    <3>6. \A k \in DOMAIN claims : k - 1 \in 0 .. tail - 1 /\ (k - 1) + 1 = k
      BY <3>4
    <3> DEFINE Name(k) == <<claims[k][2], nfa(claims[k][1]).original_id[claims[k][3]]>>
               Printed(i) == <<output[i].symbol_offset,
                               job.nfa[output[i].nfa].original_id[output[i].state_id]>>
    <3>7. \A i \in 0 .. tail - 1 : Printed(i) = Name(i + 1)
      BY <3>3
    <3>8. report_file' = { Printed(i) : i \in 0 .. tail - 1 }
      BY <3>1
    <3>9. { Printed(i) : i \in 0 .. tail - 1 } = { Name(k) : k \in DOMAIN claims }
      <4> HIDE DEF Name, Printed
      <4> QED
        BY <3>5, <3>6, <3>7
    <3> QED
      BY <3>8, <3>9
  <2> QED
    BY <1>1, <2>1, <2>2, JobKept DEF Endings
<1>5. CASE UNCHANGED vars
  BY <1>1, <1>5, JobKept DEF vars, Endings
<1> QED
  BY <1>2, <1>3, <1>4, <1>5 DEF Next, Terminated

-----------------------------------------------------------------------------
(* The theorems. *)

\* IInv holds at the start and every step keeps it.
LEMMA Inductive ==
    /\ Init => IInv
    /\ IInv /\ [Next]_vars => IInv'
<1>1. Init => IInv
  BY TypeInit, InitLockstep, InitThreadLocal, InitNextArray, InitClaims, InitSlots,
     InitLedgerEndings DEF IInv
<1>2. IInv /\ [Next]_vars => IInv'
  BY TypeStep, LockstepStep, ThreadLocalStep, NextArrayStep, ClaimsStep, SlotsStep,
     LedgerStep, EndingsStep DEF IInv
<1> QED
  BY <1>1, <1>2

\* The kernel's variables keep their types, and the inductive invariant holds
\* in every reachable state.
THEOREM Invariance == Spec => []IInv
<1>1. Init => IInv
  BY Inductive
<1>2. IInv /\ [Next]_vars => IInv'
  BY Inductive
<1> QED
  BY <1>1, <1>2, PTL DEF Spec

\* No thread reads or resets a cell of the next array while another thread of
\* its block has a store into that cell to make: the barriers are enough.
THEOREM RaceFreedom == Spec => []NoRace
<1>1. IInv => NoRace
  <2> SUFFICES ASSUME IInv, NEW t \in Thread, pc[t] = "enable", NEW s \in to_enable[t]
               PROVE  pc[<<t[1], s>>] \notin {"start", "promote", "clear"}
    BY DEF NoRace
  <2>1. t \in ThreadsOf(t[1]) /\ t[1] \in Block /\ nfa(t[1]).edges[t[2]] \subseteq Sids(nfa(t[1]))
    BY RunningFacts DEF IInv
  <2>2. s \in Sids(nfa(t[1]))
    BY <2>1 DEF IInv, ThreadLocal
  <2>3. <<t[1], s>> \in ThreadsOf(t[1])
    BY <2>1, <2>2, BlockThreads DEF IInv
  <2>4. pc[<<t[1], s>>] \in Matching
    BY <2>1, <2>3, SamePhase DEF IInv, Matching
  <2> QED
    BY <2>4 DEF Matching
<1> QED
  BY <1>1, Invariance, PTL

\* Every report goes to a slot of its own, over all blocks of the grid.
THEOREM SlotsAreExclusive == Spec => []SlotsExclusive
<1>1. IInv => SlotsExclusive
  BY DEF IInv, Slots
<1> QED
  BY <1>1, Invariance, PTL

\* A report in the output array stays there: no other thread stores over it.
THEOREM ReportsAreKept == Spec => ReportsKept
<1>1. IInv /\ [Next]_vars =>
        [\A i \in DOMAIN output : i \in DOMAIN output' /\ output'[i] = output[i]]_vars
  <2> SUFFICES ASSUME IInv, Next, NEW i \in DOMAIN output
               PROVE  i \in DOMAIN output' /\ output'[i] = output[i]
    BY DEF vars
  <2>1. ASSUME NEW t \in Thread, Write(t)
        PROVE  i \in DOMAIN output' /\ output'[i] = output[i]
    <3>1. write_to[t] \notin DOMAIN output
      BY <2>1 DEF IInv, Slots, SlotsExclusive, Write, Goto
    <3> QED
      BY <2>1, <3>1 DEF Write, Stored
  <2> QED
    BY <2>1 DEF Next, vars, ThreadStep, Start, Match, Enable, Claim, Promote, Clear,
         BlockStep, Sync0, Sync1, Sync2, Sync3, Barrier, PrintReports, Terminated
<1> QED
  BY <1>1, Invariance, PTL DEF Spec, ReportsKept

-----------------------------------------------------------------------------
(* Refinement: each barrier after a match phase is the simultaneous step of  *)
(* EnableActiveNFA, and every other step is a stutter.                       *)

\* A step that changes neither claims, positions nor enabled sets is a stutter.
LEMMA AbsUnchanged ==
    ASSUME TypeOK, TypeOK', job' = job, claims' = claims,
           \A b \in Block : abs_position'[b] = abs_position[b] /\ abs_enabled'[b] = abs_enabled[b]
    PROVE  UNCHANGED <<job, abs_position, abs_enabled, abs_reports>>
<1>1. abs_position' = abs_position
  BY DEF abs_position
<1>2. abs_enabled' = abs_enabled
  BY DEF abs_enabled
<1>3. abs_reports' = abs_reports
  BY <1>1 DEF abs_reports
<1> QED
  BY <1>1, <1>2, <1>3

\* The abstract enabled set in terms of phases.
LEMMA EnabledByPhase ==
    ASSUME TypeOK, NEW b \in Block
    PROVE  /\ pc[Lead(b)] \in SetUp => abs_enabled[b] = nfa(b).start
           /\ pc[Lead(b)] \in Promoting => abs_enabled[b] =
                nfa(b).always \cup { s \in Sids(nfa(b)) : is_active_next[<<b, s>>] }
           /\ pc[Lead(b)] \notin SetUp \cup Promoting => abs_enabled[b] =
                { s \in Sids(nfa(b)) : is_active[<<b, s>>] }
BY DEF abs_enabled, SetUp, Promoting

\* A thread's step is a stutter of EnableActiveNFA.
LEMMA ThreadStutters ==
    ASSUME IInv, NEW t \in Thread, ThreadStep(t)
    PROVE  UNCHANGED <<job, abs_position, abs_enabled, abs_reports>>
<1> DEFINE b == t[1]
<1>0. [Next]_vars /\ b \in Block /\ TypeOK /\ Lockstep /\ ThreadLocal /\ TypeOK' /\ t = <<b, t[2]>>
  BY ThreadFacts, Inductive DEF Next, IInv
<1>1. t \in ThreadsOf(b) /\ Lead(b) \in ThreadsOf(b)
  <2>1. pc[t] # "done"
    BY DEF ThreadStep, Start, Match, Enable, Claim, Write, Promote, Clear, Goto
  <2> QED
    BY <1>0, <2>1, RunningFacts, BlockFacts
<1>2. \A c \in Block : abs_position'[c] = abs_position[c]
  BY <1>0, ThreadPhase
<1>3. abs_enabled'[b] = abs_enabled[b]
  <2>1. /\ pc'[Lead(b)] \in SetUp <=> pc[Lead(b)] \in SetUp
        /\ pc'[Lead(b)] \in Promoting <=> pc[Lead(b)] \in Promoting
        /\ Lead(b)' = Lead(b) /\ nfa(b)' = nfa(b) /\ b' = b
    BY <1>0, ThreadPhase, JobKept
  <2>2. /\ pc[Lead(b)] \in SetUp <=> pc[t] \in SetUp
        /\ pc[Lead(b)] \in Promoting <=> pc[t] \in Promoting
    BY <1>0, <1>1, SamePhase
  <2>3. CASE pc[t] \in SetUp
    <3>1. abs_enabled[b] = nfa(b).start
      BY <1>0, <2>2, <2>3, EnabledByPhase
    <3>2. pc'[Lead(b)] \in {"start", "sync0"}
      BY <2>1, <2>2, <2>3 DEF SetUp
    <3>3. abs_enabled'[b] = nfa(b).start
      BY <1>0, <2>1, <3>2 DEF abs_enabled, Block
    <3> QED
      BY <3>1, <3>3
  <2>4. CASE pc[t] \in Promoting
    <3>1. is_active_next' = is_active_next
      BY <2>4 DEF Promoting, ThreadStep, Start, Match, Enable, Claim, Write, Promote, Clear, Goto
    <3>2. pc[Lead(b)] \in {"promote", "sync2"} /\ pc'[Lead(b)] \in {"promote", "sync2"}
      BY <2>1, <2>2, <2>4 DEF Promoting
    <3> QED
      BY <1>0, <2>1, <3>1, <3>2 DEF abs_enabled, Block
  <2>5. CASE pc[t] \notin SetUp \cup Promoting
    <3>1. is_active' = is_active
      BY <2>5 DEF SetUp, Promoting, ThreadStep, Start, Match, Enable, Claim, Write, Promote, Clear, Goto
    <3>2. /\ pc[Lead(b)] \notin {"start", "sync0"} /\ pc'[Lead(b)] \notin {"start", "sync0"}
          /\ pc[Lead(b)] \notin {"promote", "sync2"} /\ pc'[Lead(b)] \notin {"promote", "sync2"}
      BY <2>1, <2>2, <2>5 DEF SetUp, Promoting
    <3> QED
      BY <1>0, <2>1, <3>1, <3>2 DEF abs_enabled, Block
  <2> QED
    BY <2>3, <2>4, <2>5
<1>4. ASSUME NEW c \in Block, c # b PROVE abs_enabled'[c] = abs_enabled[c]
  BY <1>0, <1>4, OtherThread, SameBlockFacts
<1>5. CASE claims' = claims
  BY <1>0, <1>2, <1>3, <1>4, <1>5, AbsUnchanged, JobKept
<1>6. CASE claims' # claims
  <2>1. abs_position' = abs_position /\ abs_enabled' = abs_enabled
    <3>1. abs_position' = abs_position
      BY <1>2 DEF abs_position
    <3>2. \A c \in Block : abs_enabled'[c] = abs_enabled[c]
      BY <1>3, <1>4
    <3>3. abs_enabled' = abs_enabled
      BY <3>2 DEF abs_enabled
    <3> QED
      BY <3>1, <3>3
  <2>2. PICK u \in Thread :
           /\ Claim(u)
           /\ DOMAIN claims' = DOMAIN claims \cup {Len(claims) + 1}
           /\ Len(claims) + 1 \notin DOMAIN claims
           /\ \A k \in DOMAIN claims : claims'[k] = claims[k]
           /\ claims'[Len(claims) + 1] = <<u[1], symbol_pos[u], u[2]>>
    BY <1>0, <1>6, ClaimsGrow
  <2>3. symbol_pos[u] = abs_position[u[1]] /\ symbol_pos[u] \in Nat
    <3>1. u[1] \in Block /\ u \in ThreadsOf(u[1]) /\ Lead(u[1]) \in ThreadsOf(u[1])
      BY <1>0, <2>2, RunningFacts, BlockFacts DEF Claim, Goto
    <3>2. pc[u] \in Matching
      BY <2>2 DEF Claim, Goto, Matching
    <3>3. pc[Lead(u[1])] \in Matching /\ symbol_pos[u] = symbol_pos[Lead(u[1])]
      BY <1>0, <3>1, <3>2, SamePhase
    <3> QED
      BY <3>1, <3>3, <1>0 DEF abs_position, Matching, TypeOK
  <2>4. abs_reports' = abs_reports
    <3>1. { k \in DOMAIN claims' : claims'[k][2] < abs_position'[claims'[k][1]] } =
          { k \in DOMAIN claims : claims[k][2] < abs_position[claims[k][1]] }
      <4>1. ~(claims'[Len(claims) + 1][2] < abs_position'[claims'[Len(claims) + 1][1]])
        BY <2>1, <2>2, <2>3
      <4> QED
        BY <2>1, <2>2, <4>1
    <3> QED
      BY <3>1, <2>2 DEF abs_reports
  <2> QED
    BY <1>0, <2>1, <2>4, JobKept
<1> QED
  BY <1>5, <1>6

\* So are the barriers, but for the one after the match phase.
LEMMA OtherBarrierStutters ==
    ASSUME IInv, NEW b \in Block, BlockStep(b), ~Sync1(b)
    PROVE  UNCHANGED <<job, abs_position, abs_enabled, abs_reports>>
<1>0. [Next]_vars /\ TypeOK /\ Lockstep /\ ThreadLocal /\ TypeOK'
  BY Inductive DEF Next, IInv
<1>1. claims' = claims /\ is_active' = is_active /\ is_active_next' = is_active_next
  BY DEF BlockStep, Sync0, Sync1, Sync2, Sync3, Barrier
<1>2. \A s \in Sids(nfa(b)) : <<b, s>> \in ThreadsOf(b) /\ <<b, s>>[2] = s
  BY <1>0, BlockThreads
<1>3. Lead(b) \in ThreadsOf(b) /\ Lead(b) \in Thread
  BY <1>0, BlockThreads
<1>4. nfa(b).start \subseteq Sids(nfa(b)) /\ nfa(b).always \subseteq Sids(nfa(b))
  BY <1>0, BlockFacts DEF IsNetwork
<1>5. abs_enabled'[b] = abs_enabled[b]
  <2>1. nfa(b)' = nfa(b) /\ Lead(b)' = Lead(b)
    BY <1>0, JobKept
  <2>2. CASE Sync0(b)
    <3>1. pc[Lead(b)] = "sync0" /\ pc'[Lead(b)] \in {"match", "done"}
      BY <1>3, <2>2 DEF Sync0, Barrier, Released, LoopTest
    <3>2. \A s \in Sids(nfa(b)) : is_active[<<b, s>>] = (s \in nfa(b).start)
      BY <1>0, <1>2, <2>2 DEF Sync0, Barrier, Released, ThreadLocal
    <3>3. { s \in Sids(nfa(b)) : is_active[<<b, s>>] } = nfa(b).start
      BY <1>4, <3>2
    <3> QED
      BY <2>1, <3>1, <3>3, <1>1 DEF abs_enabled
  <2>3. CASE Sync2(b)
    <3>1. pc[Lead(b)] = "sync2" /\ pc'[Lead(b)] = "clear"
      BY <1>3, <2>3 DEF Sync2, Barrier, Released
    <3>2. \A s \in Sids(nfa(b)) :
             is_active[<<b, s>>] = (s \in nfa(b).always \/ is_active_next[<<b, s>>])
      BY <1>0, <1>2, <2>3 DEF Sync2, Barrier, Released, ThreadLocal
    <3>3. { s \in Sids(nfa(b)) : is_active[<<b, s>>] } =
          nfa(b).always \cup { s \in Sids(nfa(b)) : is_active_next[<<b, s>>] }
      BY <1>4, <3>2
    <3> QED
      BY <2>1, <3>1, <3>3, <1>1 DEF abs_enabled
  <2>4. CASE Sync3(b)
    <3>1. pc[Lead(b)] = "sync3" /\ pc'[Lead(b)] \in {"match", "done"}
      BY <1>3, <2>4 DEF Sync3, Released, LoopTest
    <3> QED
      BY <2>1, <3>1, <1>1 DEF abs_enabled
  <2> QED
    BY <2>2, <2>3, <2>4 DEF BlockStep
<1>6. \A c \in Block : c # b => abs_enabled'[c] = abs_enabled[c] /\ abs_position'[c] = abs_position[c]
  BY <1>0, OtherBlock, SameBlockFacts
<1>7. abs_position'[b] = abs_position[b]
  BY <1>0, BarrierPosition
<1> QED
  BY <1>0, <1>1, <1>5, <1>6, <1>7, AbsUnchanged, JobKept

\* The barrier after the match phase consumes the symbol.
LEMMA BarrierConsumes ==
    ASSUME IInv, NEW b \in Block, Sync1(b)
    PROVE  Abs!Consume(b)
<1>0. /\ [Next]_vars /\ BlockStep(b)
      /\ TypeOK /\ Lockstep /\ ThreadLocal /\ NextArray /\ ClaimsSoFar /\ TypeOK'
  BY Inductive DEF Next, IInv, BlockStep
<1> DEFINE p == symbol_pos[Lead(b)]
           c == input(b)[p + 1]
<1>1. /\ claims' = claims /\ is_active' = is_active /\ is_active_next' = is_active_next
      /\ symbol_pos' = symbol_pos /\ job' = job
  BY DEF Sync1, Barrier
<1>2. \A s \in Sids(nfa(b)) : <<b, s>> \in ThreadsOf(b) /\ <<b, s>> \in Thread /\ <<b, s>>[2] = s /\ <<b, s>>[1] = b
  BY <1>0, BlockThreads
<1>3. Lead(b) \in ThreadsOf(b) /\ Lead(b) \in Thread
  BY <1>0, BlockThreads
<1>4. /\ pc[Lead(b)] = "sync1" /\ pc'[Lead(b)] = "promote"
      /\ pc[Lead(b)] \in Matching
      /\ abs_position[b] = p /\ abs_position'[b] = p + 1 /\ p \in Nat
  BY <1>0, <1>3, BarrierPosition DEF Sync1, Barrier, Released, TypeOK
<1>5. p < Len(input(b))
  BY <1>0, <1>3, <1>4 DEF Lockstep
<1>6. \A s \in Sids(nfa(b)) : pc[<<b, s>>] = "sync1" /\ to_enable[<<b, s>>] = {}
                               /\ symbol_pos[<<b, s>>] = p
  BY <1>0, <1>2 DEF Sync1, Barrier, Released, ThreadLocal, Lockstep
<1>7. abs_enabled[b] = { s \in Sids(nfa(b)) : is_active[<<b, s>>] }
  BY <1>4 DEF abs_enabled
<1>8. \A s \in Sids(nfa(b)) : Fires(<<b, s>>) <=> s \in Activated(nfa(b), abs_enabled[b], c)
  <2> SUFFICES ASSUME NEW s \in Sids(nfa(b))
               PROVE  Matches(nfa(b), s, c) <=> match2(nfa(b), s, c)
    BY <1>2, <1>6, <1>7 DEF Fires, Activated
  <2>1. nfa(b).symbol_set[s] \subseteq Byte /\ c \in Byte
    BY <1>0, <1>4, <1>5, BlockFacts DEF IsNetwork
  <2> QED
    BY <2>1, PackedTestIsMembership DEF Matches, match2
<1>9. Activated(nfa(b), abs_enabled[b], c) \subseteq Sids(nfa(b))
  BY <1>7 DEF Activated
<1>10. abs_enabled'[b] = NextEnabled(nfa(b), abs_enabled[b], c)
  <2>1. abs_enabled'[b] = nfa(b).always \cup { s \in Sids(nfa(b)) : is_active_next[<<b, s>>] }
    BY <1>1, <1>4, <1>0, JobKept DEF abs_enabled
  <2>2. \A s \in Sids(nfa(b)) : is_active_next[<<b, s>>] <=>
           \E r \in Sids(nfa(b)) : Fires(<<b, r>>) /\ s \in nfa(b).edges[r]
    BY <1>0, <1>4, <1>6 DEF NextArray, HasEnabled
  <2>3. \A r \in Sids(nfa(b)) : nfa(b).edges[r] \subseteq Sids(nfa(b))
    BY <1>0, BlockFacts DEF IsNetwork
  <2>4. { s \in Sids(nfa(b)) : is_active_next[<<b, s>>] } =
        Successors(nfa(b), Activated(nfa(b), abs_enabled[b], c))
    BY <2>2, <2>3, <1>8, <1>9 DEF Successors
  <2> QED
    BY <2>1, <2>4 DEF NextEnabled
<1>11. \A d \in Block : d # b => abs_enabled'[d] = abs_enabled[d] /\ abs_position'[d] = abs_position[d]
  BY <1>0, OtherBlock, SameBlockFacts
<1>12. abs_position' = [abs_position EXCEPT ![b] = @ + 1]
  BY <1>4, <1>11 DEF abs_position
<1>13. abs_enabled' = [abs_enabled EXCEPT ![b] = NextEnabled(nfa(b), @, c)]
  BY <1>10, <1>11 DEF abs_enabled
<1>14. \A s \in Sids(nfa(b)) : HasClaimed(b, s) <=> s \in Reporting(nfa(b), abs_enabled[b], c)
  BY <1>6, <1>8 DEF HasClaimed, Reporting
<1>15. abs_reports' = abs_reports \cup
          { <<b, p, s>> : s \in Reporting(nfa(b), abs_enabled[b], c) }
  <2>1. \A k \in DOMAIN claims : claims[k] \in Block \X Nat \X Tid
    BY <1>0 DEF TypeOK
  <2>2. ASSUME NEW k \in DOMAIN claims
        PROVE  claims[k][2] < abs_position'[claims[k][1]] <=>
               \/ claims[k][2] < abs_position[claims[k][1]]
               \/ \E s \in Reporting(nfa(b), abs_enabled[b], c) : claims[k] = <<b, p, s>>
    <3>1. CASE claims[k][1] = b
      <4>1. \/ claims[k][2] < p
            \/ \E s \in Sids(nfa(b)) : HasClaimed(b, s) /\ claims[k] = <<b, p, s>>
        BY <1>0, <1>4, <3>1 DEF ClaimsSoFar
      <4>2. claims[k][2] < p + 1
        BY <4>1, <2>1, <1>4
      <4>3. abs_position'[claims[k][1]] = p + 1 /\ abs_position[claims[k][1]] = p
        BY <1>4, <3>1
      <4>4. \/ claims[k][2] < p
            \/ \E s \in Reporting(nfa(b), abs_enabled[b], c) : claims[k] = <<b, p, s>>
        BY <4>1, <1>14
      <4> QED
        BY <4>2, <4>3, <4>4
    <3>2. CASE claims[k][1] # b
      BY <3>2, <2>1, <1>11
    <3> QED
      BY <3>1, <3>2
  <2>3. \A s \in Reporting(nfa(b), abs_enabled[b], c) :
           \E k \in DOMAIN claims : claims[k] = <<b, p, s>>
    <3>1. Reporting(nfa(b), abs_enabled[b], c) \subseteq Sids(nfa(b))
      BY <1>9 DEF Reporting
    <3> QED
      BY <3>1, <1>0, <1>4, <1>14 DEF ClaimsSoFar
  <2>4. abs_reports' = { claims[i] : i \in { k \in DOMAIN claims :
                                                claims[k][2] < abs_position'[claims[k][1]] } }
    BY <1>1 DEF abs_reports
  <2>5. { claims[i] : i \in { k \in DOMAIN claims : claims[k][2] < abs_position'[claims[k][1]] } } =
        { claims[i] : i \in { k \in DOMAIN claims : claims[k][2] < abs_position[claims[k][1]] } }
          \cup { <<b, p, s>> : s \in Reporting(nfa(b), abs_enabled[b], c) }
    BY <2>2, <2>3
  <2> QED
    BY <2>4, <2>5 DEF abs_reports
<1>16. Abs!nfa(b) = nfa(b) /\ Abs!input(b) = input(b)
  BY DEF Abs!nfa, Abs!input, nfa, input
<1>17. Abs!NextEnabled(nfa(b), abs_enabled[b], c) = NextEnabled(nfa(b), abs_enabled[b], c)
  BY DEF Abs!NextEnabled, NextEnabled, Abs!Successors, Successors, Abs!Activated, Activated,
         Abs!match2, match2
<1>18. Abs!Reporting(nfa(b), abs_enabled[b], c) = Reporting(nfa(b), abs_enabled[b], c)
  BY DEF Abs!Reporting, Reporting, Abs!Activated, Activated, Abs!match2, match2
<1>19. [abs_enabled EXCEPT ![b] = NextEnabled(nfa(b), @, c)] =
       [abs_enabled EXCEPT ![b] = Abs!NextEnabled(nfa(b), @, c)]
  BY <1>17
<1> HIDE DEF p, c
<1>20. p = abs_position[b] /\ c = input(b)[abs_position[b] + 1]
  BY <1>4 DEF p, c
<1> QED
  BY <1>1, <1>4, <1>5, <1>12, <1>13, <1>15, <1>16, <1>18, <1>19, <1>20 DEF Abs!Consume

\* The kernel starts where EnableActiveNFA does.
LEMMA AbsInit == Init => Abs!Init
<1> SUFFICES ASSUME Init PROVE Abs!Init
  OBVIOUS
<1>1. \A b \in Block : pc[Lead(b)] = "start" /\ symbol_pos[Lead(b)] = 0
  <2>1. TypeOK
    BY TypeInit
  <2>2. \A b \in Block : Lead(b) \in Thread /\ Lead(b)[1] = b /\ Lead(b)[2] = 0 /\ nfa(b).size \in Nat \ {0}
    BY <2>1, BlockThreads, BlockFacts DEF IsNetwork
  <2> QED
    BY <2>2 DEF Init
<1>2. abs_position = [b \in Block |-> 0]
  BY <1>1 DEF abs_position
<1>3. abs_enabled = [b \in Block |-> nfa(b).start]
  BY <1>1 DEF abs_enabled
<1>4. abs_reports = {}
  BY DEF Init, abs_reports
<1> QED
  BY <1>2, <1>3, <1>4 DEF Abs!Init, Init, Abs!Block, Block, Abs!nfa, nfa

\* Every step of the kernel is a step of EnableActiveNFA or a stutter.
LEMMA StepRefines == IInv /\ [Next]_vars => [Abs!Next]_(Abs!vars)
<1> SUFFICES ASSUME IInv, [Next]_vars PROVE [Abs!Next]_(Abs!vars)
  OBVIOUS
<1>1. CASE \E t \in Thread : ThreadStep(t)
  BY <1>1, ThreadStutters DEF Abs!vars
<1>2. CASE \E b \in Block : BlockStep(b)
  <2>1. PICK b \in Block : BlockStep(b)
    BY <1>2
  <2>2. CASE Sync1(b)
    BY <2>2, BarrierConsumes DEF Abs!Next, Abs!Block, Block
  <2>3. CASE ~Sync1(b)
    BY <2>1, <2>3, OtherBarrierStutters DEF Abs!vars
  <2> QED
    BY <2>2, <2>3
<1>3. CASE PrintReports \/ UNCHANGED vars
  <2>1. UNCHANGED <<job, pc, symbol_pos, is_active, is_active_next, claims>>
    BY <1>3 DEF PrintReports, vars
  <2> QED
    BY <2>1 DEF Abs!vars, abs_position, abs_enabled, abs_reports, Lead, nfa
<1> QED
  BY <1>1, <1>2, <1>3 DEF Next, Terminated

\* The kernel implements EnableActiveNFA: on every grid, whatever the order in
\* which threads run, each block's enabled set and reports after a symbol are
\* those of the network's simultaneous step.
THEOREM Refinement == Spec => Implements
<1>1. Init => Abs!Init
  BY AbsInit
<1>2. IInv /\ [Next]_vars => [Abs!Next]_(Abs!vars)
  BY StepRefines
<1> QED
  BY <1>1, <1>2, Invariance, PTL DEF Spec, Implements, Abs!Spec

-----------------------------------------------------------------------------
(* The run of the kernel is the run of its networks.                         *)

\* The networks of every job are such that only states are enabled.
LEMMA JobsAreSound == TypeOK => Sound(job, Block)
<1> SUFFICES ASSUME TypeOK, NEW b \in Block
             PROVE  LET n == job.nfa[b[1]]
                    IN  /\ n.start \subseteq Sids(n) /\ n.always \subseteq Sids(n)
                        /\ \A s \in Sids(n) : n.edges[s] \subseteq Sids(n)
                        /\ Len(job.input[b[2]]) \in Nat
  BY DEF Sound
<1>1. IsNetwork(nfa(b), BlockDim, Byte, Id) /\ input(b) \in Seq(Byte)
  BY BlockFacts
<1> QED
  BY <1>1 DEF IsNetwork, nfa, input

\* What the kernel has computed so far.
Running == RunOf(job, Block, abs_position, abs_enabled, abs_reports)

\* Every block computes what its network does.
LEMMA RunningAlways == Spec => [](IInv /\ Running)
<1>1. Init => Running
  <2> SUFFICES ASSUME Init PROVE Running
    OBVIOUS
  <2>1. Sound(job, Block)
    BY TypeInit, JobsAreSound
  <2>2. /\ abs_position = [b \in Block |-> 0]
        /\ abs_enabled = [b \in Block |-> job.nfa[b[1]].start]
        /\ abs_reports = {}
    BY AbsInit DEF Abs!Init, Abs!Block, Block, Abs!nfa
  <2> QED
    BY <2>1, <2>2, RunBegins DEF Running
<1>2. IInv /\ Running /\ [Next]_vars => Running'
  <2> SUFFICES ASSUME IInv, Running, [Next]_vars PROVE Running'
    OBVIOUS
  <2>1. [Abs!Next]_(Abs!vars)
    BY StepRefines
  <2>2. CASE UNCHANGED Abs!vars
    BY <2>2 DEF Abs!vars, Running, RunOf, ReportsOfGrid, Block
  <2>3. CASE Abs!Next
    <3>1. PICK b \in Block : Abs!Consume(b)
      BY <2>3 DEF Abs!Next, Abs!Block, Block
    <3>2. Sound(job, Block) /\ job' = job
      BY JobsAreSound, JobKept DEF IInv
    <3>3. Consumes(job, Block, b, abs_position, abs_enabled, abs_reports,
                   abs_position', abs_enabled', abs_reports')
      <4>1. DOMAIN abs_position = Block /\ DOMAIN abs_enabled = Block
        BY DEF abs_position, abs_enabled
      <4> QED
        BY <3>1, <4>1
           DEF Consumes, Abs!Consume, Abs!nfa, Abs!input, Abs!NextEnabled, NextEnabled,
               Abs!Successors, Successors, Abs!Activated, Activated, Abs!match2, match2,
               Abs!Reporting, Reporting
    <3>4. RunOf(job, Block, abs_position', abs_enabled', abs_reports')
      BY <3>2, <3>3, RunGoesOn DEF Running
    <3> QED
      BY <3>2, <3>4 DEF Running, RunOf, ReportsOfGrid, Block
  <2> QED
    BY <2>1, <2>2, <2>3
<1>3. Init => IInv
  BY Inductive
<1>4. IInv /\ [Next]_vars => IInv'
  BY Inductive
<1> QED
  BY <1>1, <1>2, <1>3, <1>4, PTL DEF Spec

\* When every thread has left the kernel the claims are the expected reports.
LEMMA ClaimsAreExpected ==
    ASSUME IInv, Running, \A t \in Thread : pc[t] = "done"
    PROVE  Expected = { claims[k] : k \in DOMAIN claims }
<1>1. TypeOK /\ Sound(job, Block)
  BY JobsAreSound DEF IInv
<1>2. \A b \in Block : abs_position[b] = Len(job.input[b[2]])
  <2>1. \A b \in Block : Lead(b) \in Thread
    BY <1>1, BlockThreads
  <2> QED
    BY <2>1 DEF IInv, Endings, abs_position, input
<1>3. \A k \in DOMAIN claims : claims[k][2] < abs_position[claims[k][1]]
  <2>1. \A b \in Block : pc[Lead(b)] \notin Matching
    BY <1>1, BlockThreads DEF Matching
  <2>2. \A k \in DOMAIN claims : claims[k][1] \in Block
    BY <1>1 DEF TypeOK
  <2> QED
    BY <2>1, <2>2 DEF IInv, ClaimsSoFar
<1>4. abs_reports = { claims[k] : k \in DOMAIN claims }
  BY <1>3 DEF abs_reports
<1>5. abs_reports = UNION { { <<b, r[1], r[2]>> : r \in ReportsOf(job.nfa[b[1]], job.input[b[2]]) } :
                            b \in Block }
  BY <1>1, <1>2, RunEnds DEF Running
<1> QED
  BY <1>4, <1>5 DEF Expected, nfa, input

\* When the kernel has ended it has counted the reports of the networks on their
\* streams, each once, and if they fit in the array the file lists exactly their
\* offsets and original ids: for every set of networks and streams of any length,
\* whatever the order in which threads ran.
THEOREM ReportsAreExact == Spec => []ReportsExact
<1>1. IInv /\ Running => ReportsExact
  <2> SUFFICES ASSUME IInv, Running, host # "waiting" PROVE ReportsExact
    BY DEF ReportsExact
  <2>1. /\ \A t \in Thread : pc[t] = "done"
        /\ tail = Len(claims) /\ tail \in Nat /\ DOMAIN claims = 1 .. tail
        /\ \A j, k \in DOMAIN claims : claims[j] = claims[k] => j = k
    BY DEF IInv, Endings, Slots, Ledger, TypeOK
  <2>2. Expected = { claims[k] : k \in DOMAIN claims }
    BY <2>1, ClaimsAreExpected
  <2>3. tail = Cardinality(Expected)
    <3> DEFINE f == [k \in 1 .. tail |-> claims[k]]
    <3>1. f \in Bijection(1 .. tail, Expected)
      BY <2>1, <2>2 DEF Bijection, Injection, Surjection, IsInjective
    <3>2. ExistsBijection(1 .. tail, Expected)
      BY <3>1 DEF ExistsBijection
    <3> QED
      BY <2>1, <3>2, FS_CountingElements
  <2>4. { <<r[2], nfa(r[1]).original_id[r[3]]>> : r \in Expected }
          = { <<claims[k][2], nfa(claims[k][1]).original_id[claims[k][3]]>> : k \in DOMAIN claims }
    BY <2>2
  <2> QED
    BY <2>3, <2>4 DEF ReportsExact, IInv, Endings
<1> QED
  BY <1>1, RunningAlways, PTL
=============================================================================
