---------------------------- MODULE Ppopp12Proofs ---------------------------
(***************************************************************************)
(* The PPoPP12 engine, for every set of groups, streams and jobs, every      *)
(* block size and number of slots, whatever the interleaving of the threads: *)
(* the states in the slots are pairwise incompatible, so that no active state *)
(* is overwritten; the kernels implement EnableActiveNFA on the networks as   *)
(* they were read, before cloning and splitting; and what is counted and      *)
(* printed is what these report.                                              *)
(***************************************************************************)
EXTENDS Ppopp12, NetworkProofs

\* What the threads of a block do together between two barriers.
Phase(p) == IF p \in {"load", "sync0"} THEN 0
            ELSE IF p \in {"sync1", "read", "clear", "sync2"} THEN 1
            ELSE IF p \in {"transit", "store", "sync3"} THEN 2
            ELSE IF p \in {"output", "sync4"} THEN 3
            ELSE IF p \in {"swap", "sync5"} THEN 4
            ELSE 5

PhaseOf(b) == Phase(pc[Lead(b)])
Pos(b)     == input_position[Lead(b)]
Cur(b)     == CurrentArray(Pos(b))
Nxt(b)     == NextArray(Pos(b))

\* What the block's symbol makes of its active states.
Woken(b) == Activate(nfa(b), ActiveStates(b), input(b)[Pos(b) + 1])
TargetsOf(b, s) ==
    Activated(nfa(b), nfa(b).edges[s], input(b)[Pos(b) + 1]) \cup ({s} \cap nfa(b).always)

\* The thread of slot i, and whether it is through with it.
Owner(b, i) == <<b, i % BlockDim>>
Through(b, i) == \/ pc[Owner(b, i)] \in {"sync0", "sync2", "sync3", "sync4", "sync5"}
                 \/ i < offset[Owner(b, i)]

\* State u is in its slot of the next array.
InNext(b, u) == slots[b][Nxt(b)][group(b)[u]] = u

\* Where a thread is, and which slot is its next.
Control(t) ==
    LET b == t[1]
    IN  /\ Phase(pc[t]) = PhaseOf(b)
        /\ input_position[t] = Pos(b)
        /\ offset[t] % BlockDim = t[2]
        /\ pc[t] \notin {"load", "clear", "transit", "store", "output", "swap"} => offset[t] = t[2]
        /\ pc[t] \in {"clear", "sync2"} => ~job.chunked
        /\ pc[t] \in {"read", "swap", "sync5"} => job.chunked

\* What a thread has still to store, or has stored, are the targets of its slot.
Storing(t) ==
    LET b == t[1]
        s == slots[b][Cur(b)][offset[t]]
    IN  /\ offset[t] < SlotCount /\ s # Empty
        /\ to_store[t] \subseteq TargetsOf(b, s)
        /\ \A u \in TargetsOf(b, s) \ to_store[t] : InNext(b, u)

\* What a thread has read of its chunk.
HasRead(t) ==
    LET b == t[1]
        p == Base(Pos(b)) + t[2]
    IN  p < Len(input(b)) => shrd_chunk[b][t[2]] = input(b)[p + 1]

ThreadInv(t) ==
    /\ Control(t)
    /\ pc[t] = "store" => Storing(t)
    /\ job.chunked /\ (pc[t] = "sync1" \/ PhaseOf(t[1]) \in {2, 3, 4}) => HasRead(t)

\* The threads of a block are at one symbol, and no report is of a later one.
Positions(b) ==
    /\ PhaseOf(b) = 0 => Pos(b) = 0
    /\ PhaseOf(b) \in {1, 2, 3, 4} => Pos(b) < Len(input(b))
    /\ PhaseOf(b) = 5 => Pos(b) = Len(input(b))
    /\ \A m \in matches : m[1] = b => \/ m[2] < Pos(b)
                                      \/ m[2] = Pos(b) /\ PhaseOf(b) \in {3, 4}

\* The active states are pairwise incompatible, the all-input starts among them.
Sane(b, A) ==
    /\ A \subseteq Sids(nfa(b)) /\ nfa(b).always \subseteq A
    /\ \A s, u \in A : <<s, u>> \in job.incompatible[b[1]]

\* The slots loaded.
LoadInv(b) ==
    \A i \in Slot : Through(b, i) => /\ slots[b][0][i] = InitialSlots(b)[i]
                                     /\ job.chunked => slots[b][1][i] = Empty

\* The slots cleared; in the chunk kernel they are already.
ClearInv(b) ==
    \A i \in Slot : job.chunked \/ Through(b, i) => slots[b][Nxt(b)][i] = Empty

\* What is in the next array belongs there.
NextSound(b) ==
    \A i \in Slot : LET s == slots[b][Nxt(b)][i]
                    IN  s # Empty => s \in Woken(b) /\ group(b)[s] = i

\* The targets of the slots that are through are in theirs.
TransitInv(b) ==
    /\ NextSound(b)
    /\ \A i \in Slot : LET s == slots[b][Cur(b)][i]
                       IN  Through(b, i) /\ s # Empty => \A u \in TargetsOf(b, s) : InNext(b, u)

\* The next array holds what the symbol woke; the slots that are through have reported,
\* and no others.
OutputInv(b) ==
    /\ NextSound(b)
    /\ \A u \in Woken(b) : InNext(b, u)
    /\ \A m \in matches : m[1] = b /\ m[2] = Pos(b) =>
          /\ m[3] \in Woken(b) \cap nfa(b).report
          /\ Through(b, group(b)[m[3]])
    /\ \A u \in Woken(b) \cap nfa(b).report : Through(b, group(b)[u]) => <<b, Pos(b), u>> \in matches

\* The slots moved are empty in the next array.
SwapInv(b) == \A i \in Slot : Through(b, i) => slots[b][1][i] = Empty

BlockInv(b) ==
    /\ \A t \in ThreadsOf(b) : ThreadInv(t)
    /\ Positions(b)
    /\ Sane(b, ActiveStates(b))
    /\ PhaseOf(b) = 0 => LoadInv(b)
    /\ PhaseOf(b) = 1 => ClearInv(b)
    /\ PhaseOf(b) = 2 => TransitInv(b)
    /\ PhaseOf(b) = 3 => OutputInv(b)
    /\ PhaseOf(b) = 4 => SwapInv(b)

\* Every match has been counted once; the host reads them when all is done.
Accounts ==
    /\ matches \in SUBSET (Block \X Nat \X Int)
    /\ IsFiniteSet(matches) /\ match_count = Cardinality(matches)
    /\ host # "waiting" => \A t \in Thread : pc[t] = "done"
    /\ host = "printed" =>
          report_file = { <<m[2], nfa(m[1]).original_id[m[3]]>> : m \in matches }
    /\ host = "aborted" => match_count > Capacity

\* The registers and the shared memory are there for every thread and block.
Shapes ==
    /\ DOMAIN to_store = Thread
    /\ DOMAIN slots = Block
    /\ DOMAIN shrd_chunk = Block

IInv ==
    /\ TypeOK
    /\ Shapes
    /\ \A b \in Block : BlockInv(b)
    /\ Accounts

-----------------------------------------------------------------------------
(* Networks, blocks and threads.                                             *)

\* The threads of a block.
LEMMA ThreadFacts ==
    /\ \A t \in Thread : /\ t[1] \in Block /\ t[2] \in Tid /\ t = <<t[1], t[2]>>
                         /\ t \in ThreadsOf(t[1])
    /\ \A b \in Block : /\ ThreadsOf(b) \subseteq Thread
                        /\ Lead(b) \in ThreadsOf(b) /\ Lead(b)[1] = b /\ Lead(b)[2] = 0
                        /\ \A t \in ThreadsOf(b) : t[1] = b /\ t[2] \in Tid /\ t = <<b, t[2]>>
                        /\ \A i \in Tid : <<b, i>> \in ThreadsOf(b)
    /\ 0 \in Tid /\ Tid \subseteq Nat
BY BlockDimAssumption DEF Thread, Tid, ThreadsOf, Lead

\* A slot belongs to one thread of the block; a thread's loop takes it from slot to
\* slot of its own.
LEMMA SlotFacts ==
    ASSUME NEW b \in Block
    PROVE  /\ Slot \subseteq Nat
           /\ \A i \in Slot : /\ Owner(b, i) \in ThreadsOf(b) /\ Owner(b, i) \in Thread
                              /\ Owner(b, i)[1] = b /\ Owner(b, i)[2] = i % BlockDim
           /\ \A t \in Tid : t % BlockDim = t
           /\ \A o \in Nat : (o + BlockDim) % BlockDim = o % BlockDim
           /\ \A i \in Slot, o \in Nat :
                 o <= i /\ i < o + BlockDim /\ i % BlockDim = o % BlockDim => i = o
           /\ \A i \in Slot, t \in Tid : i % BlockDim = t => t <= i
<1>1. Slot \subseteq Nat
  BY SlotCountAssumption DEF Slot
<1>2. ASSUME NEW i \in Slot PROVE i % BlockDim \in Tid
  BY <1>1, BlockDimAssumption, StridesOf DEF Tid
<1>3. \A i \in Slot : /\ Owner(b, i) \in ThreadsOf(b) /\ Owner(b, i) \in Thread
                      /\ Owner(b, i)[1] = b /\ Owner(b, i)[2] = i % BlockDim
  BY <1>2, ThreadFacts DEF Owner
<1>4. \A t \in Tid : t % BlockDim = t
  BY BlockDimAssumption, StridesOf DEF Tid
<1>5. \A o \in Nat : (o + BlockDim) % BlockDim = o % BlockDim
  BY BlockDimAssumption, StridesOf
<1>6. \A i \in Slot, o \in Nat :
         o <= i /\ i < o + BlockDim /\ i % BlockDim = o % BlockDim => i = o
  BY <1>1, BlockDimAssumption, StridesOf
<1>7. ASSUME NEW i \in Slot, NEW t \in Tid, i % BlockDim = t, i < t PROVE FALSE
  <2>1. i \in Tid /\ i \in Nat /\ t \in Nat
    BY <1>1, <1>7, ThreadFacts, BlockDimAssumption DEF Tid
  <2> QED
    BY <1>4, <1>7, <2>1
<1>8. \A i \in Slot, t \in Tid : i % BlockDim = t => t <= i
  BY <1>1, <1>7, ThreadFacts
<1> QED
  BY <1>1, <1>3, <1>4, <1>5, <1>6, <1>8

\* The network read for a block, and what each of its states is a copy of.
Read(b)   == job.read[b[1]]
Origin(b) == job.base[b[1]]

\* The network of a block, its slots and its stream, from the assumption on Jobs.
LEMMA BlockFacts ==
    ASSUME job \in Jobs, NEW b \in Block
    PROVE  /\ HasAllCopies(nfa(b), Cloned(Read(b)), Origin(b))
           /\ HasClones(Cloned(Read(b)), Read(b))
           /\ DOMAIN Cloned(Read(b)).edges = Sids(Cloned(Read(b)))
           /\ DOMAIN Origin(b) = Sids(nfa(b))
           /\ input(b) \in Seq(Symbol) /\ Len(input(b)) \in Nat
           /\ job.chunked \in BOOLEAN
           /\ Sids(nfa(b)) \subseteq Nat /\ 0 \in Sids(nfa(b)) /\ Empty \notin Sids(nfa(b))
           /\ nfa(b).start \subseteq Sids(nfa(b)) /\ nfa(b).always \subseteq nfa(b).start
           /\ nfa(b).report \subseteq Sids(nfa(b))
           /\ \A s \in Sids(nfa(b)) : nfa(b).edges[s] \subseteq Sids(nfa(b))
           /\ group(b) \in [Sids(nfa(b)) -> Slot]
           /\ ClosedUnder(nfa(b), job.incompatible[b[1]])
           /\ job.incompatible[b[1]] \subseteq Sids(nfa(b)) \X Sids(nfa(b))
           /\ \A p \in job.incompatible[b[1]] : p[1] # p[2] => group(b)[p[1]] # group(b)[p[2]]
<1> DEFINE n == Read(b)
           m == nfa(b)
<1>1. b[1] \in Group /\ b[2] \in Stream
  BY DEF Block
<1>2. /\ IsNetwork(n, MaxInt, Symbol, Id) /\ IsNetwork(m, MaxInt, Symbol, Id)
      /\ HasAllCopies(m, Cloned(n), Origin(b))
  BY <1>1, JobsAssumption DEF nfa, Read, Origin
<1>3. SlotsFor(m, group(b), job.incompatible[b[1]])
  BY <1>1, JobsAssumption DEF nfa, group
<1>4. input(b) \in Seq(Symbol) /\ job.chunked \in BOOLEAN
  BY <1>1, JobsAssumption DEF input
<1> HIDE DEF n, m
<1>5. HasClones(Cloned(n), n)
  <2>1. /\ n.size \in Nat /\ n.start \subseteq Sids(n) /\ n.always \subseteq n.start
        /\ n.report \subseteq Sids(n) /\ \A s \in Sids(n) : n.edges[s] \subseteq Sids(n)
    BY <1>2 DEF IsNetwork
  <2> QED
    BY <2>1, ClonedHasClones
<1>6. /\ Sids(m) \subseteq Nat /\ 0 \in Sids(m) /\ Empty \notin Sids(m)
      /\ m.start \subseteq Sids(m) /\ m.always \subseteq m.start
      /\ m.report \subseteq Sids(m)
      /\ \A s \in Sids(m) : m.edges[s] \subseteq Sids(m)
      /\ DOMAIN m.edges = Sids(m)
  BY <1>2 DEF IsNetwork, Sids, Empty
<1>7. DOMAIN Origin(b) = Sids(m)
  BY <1>2, <1>6 DEF HasAllCopies, IsCopyOf
<1>8. /\ group(b) \in [Sids(m) -> Slot]
      /\ ClosedUnder(m, job.incompatible[b[1]])
      /\ job.incompatible[b[1]] \subseteq Sids(m) \X Sids(m)
      /\ \A p \in job.incompatible[b[1]] : p[1] # p[2] => group(b)[p[1]] # group(b)[p[2]]
  BY <1>3 DEF SlotsFor
<1>9. Len(input(b)) \in Nat
  BY <1>4
<1>10. DOMAIN Cloned(n).edges = Sids(Cloned(n))
  BY DEF Cloned, Sids
<1> QED
  BY <1>2, <1>4, <1>5, <1>6, <1>7, <1>8, <1>9, <1>10 DEF n, m

\* Active states that are pairwise incompatible have different slots.
LEMMA SaneApart ==
    ASSUME job \in Jobs, NEW b \in Block, NEW A, Sane(b, A)
    PROVE  /\ \A s, u \in A : group(b)[s] = group(b)[u] => s = u
           /\ \A s \in A : s \in Sids(nfa(b)) /\ group(b)[s] \in Slot
<1>1. /\ group(b) \in [Sids(nfa(b)) -> Slot]
      /\ \A p \in job.incompatible[b[1]] : p[1] # p[2] => group(b)[p[1]] # group(b)[p[2]]
  BY BlockFacts
<1>2. ASSUME NEW s \in A, NEW u \in A, s # u PROVE group(b)[s] # group(b)[u]
  <2>1. <<s, u>> \in job.incompatible[b[1]]
    BY DEF Sane
  <2> QED
    BY <1>1, <1>2, <2>1
<1> QED
  BY <1>1, <1>2 DEF Sane

\* A symbol makes of pairwise incompatible states pairwise incompatible ones.
LEMMA SaneStep ==
    ASSUME job \in Jobs, NEW b \in Block, NEW A, Sane(b, A), NEW c \in Symbol
    PROVE  Sane(b, Activate(nfa(b), A, c))
<1> DEFINE n == nfa(b)
           R == job.incompatible[b[1]]
           Moved == Activated(n, Successors(n, A), c)
<1>1. /\ n.always \subseteq n.start
      /\ \A a \in Sids(n) : n.edges[a] \subseteq Sids(n)
      /\ ClosedUnder(n, R)
      /\ A \subseteq Sids(n) /\ n.always \subseteq A /\ \A s, u \in A : <<s, u>> \in R
  BY BlockFacts DEF Sane
<1> HIDE DEF n, R
<1>2. ASSUME NEW s \in Moved
      PROVE  s \in Sids(n) /\ match2(n, s, c) /\ \E a \in A : s \in n.edges[a]
  <2>1. s \in Successors(n, A) /\ match2(n, s, c)
    BY DEF Activated
  <2>2. PICK a \in A : s \in n.edges[a]
    BY <2>1 DEF Successors
  <2> QED
    BY <1>1, <2>1, <2>2
<1>3. ASSUME NEW s \in Moved, NEW u \in Moved PROVE <<s, u>> \in R
  <2>1. PICK a \in A : s \in n.edges[a]
    BY <1>2
  <2>2. PICK d \in A : u \in n.edges[d]
    BY <1>2
  <2>3. s \in CouldActive(n, a, d, c) /\ u \in CouldActive(n, a, d, c)
    BY <1>2, <2>1, <2>2 DEF CouldActive, Reach
  <2>4. <<s, u>> \in Consequences(n, a, d)
    BY <2>3 DEF Consequences
  <2>5. <<a, d>> \in R
    BY <1>1
  <2>6. Consequences(n, a, d) \subseteq R
    BY <1>1, <2>5 DEF ClosedUnder
  <2> QED
    BY <2>4, <2>6
<1>4. ASSUME NEW s \in Sids(n), NEW u \in Sids(n), s \in n.start \/ u \in n.start
      PROVE  <<s, u>> \in R
  BY <1>1, <1>4 DEF ClosedUnder, Initial
<1>5. Activate(n, A, c) = Moved \cup n.always
  BY <1>1 DEF Activate
<1>6. n.always \subseteq Sids(n)
  BY <1>1
<1> HIDE DEF Moved
<1>7. ASSUME NEW s \in Moved \cup n.always, NEW u \in Moved \cup n.always PROVE <<s, u>> \in R
  BY <1>1, <1>2, <1>3, <1>4, <1>6
<1>8. Activate(n, A, c) \subseteq Sids(n) /\ n.always \subseteq Activate(n, A, c)
  BY <1>2, <1>5, <1>6
<1> QED
  BY <1>5, <1>7, <1>8 DEF Sane, n, R

\* The start states of the network are such states.
LEMMA SaneStarts ==
    ASSUME job \in Jobs, NEW b \in Block
    PROVE  Sane(b, nfa(b).start)
<1>1. /\ nfa(b).start \subseteq Sids(nfa(b)) /\ nfa(b).always \subseteq nfa(b).start
      /\ ClosedUnder(nfa(b), job.incompatible[b[1]])
  BY BlockFacts
<1>2. \A s, u \in nfa(b).start : <<s, u>> \in Initial(nfa(b))
  BY <1>1 DEF Initial
<1> QED
  BY <1>1, <1>2 DEF Sane, ClosedUnder

\* In which phase a thread is, and that the job of a run is fixed.
LEMMA PhaseFacts ==
    ASSUME IInv, NEW t \in Thread
    PROVE  /\ t[1] \in Block /\ ThreadInv(t) /\ Lead(t[1]) \in Thread
           /\ PhaseOf(t[1]) = 0 <=> pc[t] \in {"load", "sync0"}
           /\ PhaseOf(t[1]) = 1 <=> pc[t] \in {"sync1", "read", "clear", "sync2"}
           /\ PhaseOf(t[1]) = 2 <=> pc[t] \in {"transit", "store", "sync3"}
           /\ PhaseOf(t[1]) = 3 <=> pc[t] \in {"output", "sync4"}
           /\ PhaseOf(t[1]) = 4 <=> pc[t] \in {"swap", "sync5"}
           /\ PhaseOf(t[1]) = 5 <=> pc[t] = "done"
           /\ pc[t] \in PCs /\ offset[t] \in Nat /\ input_position[t] \in Nat
<1>1. t[1] \in Block /\ t \in ThreadsOf(t[1]) /\ Lead(t[1]) \in Thread
  BY ThreadFacts
<1>2. ThreadInv(t) /\ pc[t] \in PCs /\ offset[t] \in Nat /\ input_position[t] \in Nat
  BY <1>1 DEF IInv, BlockInv, TypeOK
<1>3. Phase(pc[t]) = PhaseOf(t[1])
  BY <1>2 DEF ThreadInv, Control
<1> QED
  BY <1>1, <1>2, <1>3 DEF Phase, PCs

\* The arrays of a block, and where the states last activated are.
Latest(b, i) == slots[b][LatestArray(b, i)][i]

\* The two arrays are different ones, and the position is that of the phase.
LEMMA ArrayFacts ==
    ASSUME IInv, NEW b \in Block
    PROVE  /\ Pos(b) \in Nat /\ Cur(b) \in {0, 1} /\ Nxt(b) \in {0, 1} /\ Nxt(b) = 1 - Cur(b)
           /\ job.chunked => Cur(b) = 0 /\ Nxt(b) = 1
           /\ PhaseOf(b) = 4 => job.chunked
           /\ position[b] = Pos(b) + IF PhaseOf(b) = 4 THEN 1 ELSE 0
           /\ \A i \in Slot : LatestArray(b, i) = IF PhaseOf(b) = 4 /\ ~Through(b, i) THEN 1 ELSE Cur(b)
           /\ ActiveStates(b) = IF PhaseOf(b) = 0 THEN nfa(b).start
                                ELSE { Latest(b, i) : i \in Slot } \ {Empty}
<1>1. Lead(b) \in Thread /\ Lead(b)[1] = b
  BY ThreadFacts
<1>2. Pos(b) \in Nat
  BY <1>1 DEF IInv, TypeOK, Pos
<1>3. Cur(b) \in {0, 1} /\ Nxt(b) \in {0, 1} /\ Nxt(b) = 1 - Cur(b)
  BY <1>2 DEF Cur, Nxt, NextArray, CurrentArray
<1>4. job.chunked => Cur(b) = 0 /\ Nxt(b) = 1
  BY DEF Cur, Nxt, NextArray, CurrentArray
<1>5. PhaseOf(b) = 4 => job.chunked
  BY <1>1, PhaseFacts DEF ThreadInv, Control
<1>6. /\ PhaseOf(b) = 4 <=> Swapping(b)
      /\ PhaseOf(b) = 0 <=> pc[Lead(b)] \in {"load", "sync0"}
  BY <1>1, PhaseFacts DEF Swapping
<1>7. position[b] = Pos(b) + IF PhaseOf(b) = 4 THEN 1 ELSE 0
  BY <1>6 DEF position, Pos
<1>8. ASSUME NEW i \in Slot
      PROVE  LatestArray(b, i) = IF PhaseOf(b) = 4 /\ ~Through(b, i) THEN 1 ELSE Cur(b)
  <2>1. Owner(b, i) \in Thread /\ Owner(b, i)[1] = b /\ Slot \subseteq Nat
    BY SlotFacts
  <2>2. PhaseOf(b) = 4 => pc[Owner(b, i)] \in {"swap", "sync5"}
    BY <2>1, PhaseFacts
  <2>3. offset[Owner(b, i)] \in Nat
    BY <2>1, PhaseFacts
  <2>4. CASE PhaseOf(b) = 4
    <3>1. CurrentArray(position[b]) = 0 /\ Cur(b) = 0
      BY <1>4, <1>5, <2>4 DEF CurrentArray
    <3>2. Through(b, i) <=> ~(pc[Owner(b, i)] = "swap" /\ offset[Owner(b, i)] <= i)
      BY <2>1, <2>2, <2>3, <2>4 DEF Through
    <3> QED
      BY <1>6, <2>4, <3>1, <3>2 DEF LatestArray, Owner
  <2>5. CASE PhaseOf(b) # 4
    BY <1>2, <1>6, <1>7, <2>5 DEF LatestArray, Cur
  <2> QED
    BY <2>4, <2>5
<1>9. ActiveStates(b) = IF PhaseOf(b) = 0 THEN nfa(b).start
                        ELSE { Latest(b, i) : i \in Slot } \ {Empty}
  BY <1>6 DEF ActiveStates, Latest
<1> QED
  BY <1>2, <1>3, <1>4, <1>5, <1>7, <1>8, <1>9

-----------------------------------------------------------------------------
(* What the step of a thread leaves alone.                                   *)

\* A thread changes its own registers, the shared memory of its block, and what is
\* counted.
ThreadMoves(t) ==
    /\ job' = job /\ input_position' = input_position
    /\ host' = host /\ report_file' = report_file
    /\ pc' \in [Thread -> PCs] /\ offset' \in [Thread -> Nat]
    /\ DOMAIN to_store' = Thread /\ DOMAIN slots' = Block /\ DOMAIN shrd_chunk' = Block
    /\ \A u \in Thread : u # t => /\ pc'[u] = pc[u] /\ offset'[u] = offset[u]
                                  /\ to_store'[u] = to_store[u]
    /\ \A d \in Block : d # t[1] => slots'[d] = slots[d] /\ shrd_chunk'[d] = shrd_chunk[d]
    /\ \A k \in Tid : k # t[2] => shrd_chunk'[t[1]][k] = shrd_chunk[t[1]][k]
    /\ \A m : m \in matches' <=> m \in matches \/ (m \in matches' /\ m[1] = t[1] /\ m[2] = Pos(t[1]) /\ pc[t] = "output")
    /\ Phase(pc'[t]) = Phase(pc[t])

\* No step of a thread touches what is another's.
LEMMA ThreadMoving ==
    ASSUME IInv, NEW t \in Thread, ThreadStep(t)
    PROVE  ThreadMoves(t)
<1> USE DEF PCs
<1>1. /\ pc \in [Thread -> PCs] /\ offset \in [Thread -> Nat] /\ BlockDim \in Nat
      /\ DOMAIN to_store = Thread /\ DOMAIN slots = Block /\ DOMAIN shrd_chunk = Block
      /\ t[2] \in Nat /\ t[1] \in Block
      /\ input_position[t] = Pos(t[1])
  BY PhaseFacts, ThreadFacts, BlockDimAssumption DEF IInv, TypeOK, Shapes, ThreadInv, Control
<1>2. CASE Load(t)
  BY <1>1, <1>2 DEF Load, Loop, Stored, BothStored, ThreadMoves, Phase
<1>3. CASE ReadChunk(t)
  BY <1>1, <1>3 DEF ReadChunk, ThreadMoves, Phase
<1>4. CASE ClearNext(t)
  BY <1>1, <1>4 DEF ClearNext, Loop, Stored, ThreadMoves, Phase
<1>5. CASE Transit(t)
  BY <1>1, <1>5 DEF Transit, Loop, ThreadMoves, Phase
<1>6. CASE Store(t)
  BY <1>1, <1>6 DEF Store, Stored, ThreadMoves, Phase
<1>7. CASE NextSlot(t)
  BY <1>1, <1>7 DEF NextSlot, ThreadMoves, Phase
<1>8. CASE Output(t)
  BY <1>1, <1>8 DEF Output, Loop, ThreadMoves, Phase
<1>9. CASE Swap(t)
  BY <1>1, <1>9 DEF Swap, Loop, BothStored, ThreadMoves, Phase
<1> QED
  BY <1>2, <1>3, <1>4, <1>5, <1>6, <1>7, <1>8, <1>9 DEF ThreadStep

\* The block's place in its stream and its network.
LEMMA PlaceKept ==
    ASSUME IInv, NEW t \in Thread, ThreadStep(t), NEW d \in Block
    PROVE  /\ PhaseOf(d)' = PhaseOf(d) /\ Pos(d)' = Pos(d) /\ Cur(d)' = Cur(d) /\ Nxt(d)' = Nxt(d)
           /\ nfa(d)' = nfa(d) /\ input(d)' = input(d) /\ group(d)' = group(d)
           /\ (Swapping(d)' <=> Swapping(d)) /\ (position[d])' = position[d]
           /\ \A i \in Slot : Owner(d, i) # t => Through(d, i)' = Through(d, i)
<1>1. ThreadMoves(t) /\ Lead(d) \in Thread /\ Lead(d)[1] = d
  BY ThreadMoving, ThreadFacts
<1>2. Pos(d)' = Pos(d) /\ nfa(d)' = nfa(d) /\ input(d)' = input(d) /\ group(d)' = group(d)
  BY <1>1 DEF ThreadMoves, Pos, nfa, input, group
<1>3. Phase(pc'[Lead(d)]) = Phase(pc[Lead(d)])
  BY <1>1 DEF ThreadMoves
<1>4. PhaseOf(d)' = PhaseOf(d)
  BY <1>3 DEF PhaseOf, Lead
<1>5. Cur(d)' = Cur(d) /\ Nxt(d)' = Nxt(d)
  BY <1>1, <1>2 DEF Cur, Nxt, CurrentArray, NextArray, ThreadMoves
<1>6. pc'[Lead(d)] \in PCs /\ pc[Lead(d)] \in PCs
  BY <1>1, PhaseFacts DEF ThreadMoves
<1>7. Swapping(d)' <=> Swapping(d)
  BY <1>3, <1>6 DEF Swapping, Phase, PCs, Lead
<1>8. (position[d])' = position[d]
  BY <1>1, <1>7 DEF position, ThreadMoves, Lead
<1>9. \A i \in Slot : Owner(d, i) # t => Through(d, i)' = Through(d, i)
  BY <1>1, SlotFacts DEF Through, ThreadMoves, Owner
<1> QED
  BY <1>2, <1>4, <1>5, <1>7, <1>8, <1>9

\* A loop is through with a slot when its step is the slot's.
LEMMA LoopThrough ==
    ASSUME IInv, NEW t \in Thread, ThreadStep(t),
           pc[t] \in {"load", "clear", "transit", "store", "output", "swap"},
           \/ offset[t] < SlotCount /\ offset'[t] = offset[t] + BlockDim
              /\ pc'[t] \in {"load", "clear", "transit", "output", "swap"}
           \/ offset[t] >= SlotCount /\ offset'[t] = t[2]
              /\ pc'[t] \in {"sync0", "sync2", "sync3", "sync4", "sync5"}
    PROVE  /\ \A i \in Slot : Through(t[1], i)' <=> Through(t[1], i) \/ i = offset[t]
           /\ offset[t] < SlotCount =>
                 offset[t] \in Slot /\ Owner(t[1], offset[t]) = t /\ ~Through(t[1], offset[t])
<1>1. /\ t[1] \in Block /\ t[2] \in Tid /\ t = <<t[1], t[2]>>
      /\ offset[t] \in Nat /\ offset[t] % BlockDim = t[2]
  BY PhaseFacts, ThreadFacts DEF ThreadInv, Control
<1>2. offset[t] < SlotCount =>
         offset[t] \in Slot /\ Owner(t[1], offset[t]) = t /\ ~Through(t[1], offset[t])
  BY <1>1, SlotCountAssumption DEF Slot, Owner, Through
<1>3. ASSUME NEW i \in Slot PROVE Through(t[1], i)' <=> Through(t[1], i) \/ i = offset[t]
  <2>1. i \in Nat /\ i < SlotCount /\ Owner(t[1], i)[2] = i % BlockDim /\ SlotCount \in Nat /\ BlockDim \in Nat
    BY <1>1, SlotFacts, SlotCountAssumption, BlockDimAssumption DEF Slot
  <2>2. CASE Owner(t[1], i) # t
    <3>1. Through(t[1], i)' = Through(t[1], i)
      BY <1>1, <2>2, PlaceKept
    <3>2. i # offset[t]
      BY <1>1, <1>2, <2>1, <2>2
    <3> QED
      BY <3>1, <3>2
  <2>3. CASE Owner(t[1], i) = t
    <3>1. i % BlockDim = offset[t] % BlockDim
      BY <1>1, <2>1, <2>3
    <3>2. i < offset[t] + BlockDim => i < offset[t] \/ i = offset[t]
      BY <1>1, <2>1, <3>1, SlotFacts
    <3>3. Through(t[1], i) <=> i < offset[t]
      BY <2>3 DEF Through
    <3>4. Through(t[1], i)' <=> pc'[t] \in {"sync0", "sync2", "sync3", "sync4", "sync5"} \/ i < offset'[t]
      BY <2>3 DEF Through, Owner
    <3>5. CASE offset[t] < SlotCount
      <4>1. offset'[t] = offset[t] + BlockDim /\ pc'[t] \in {"load", "clear", "transit", "output", "swap"}
        BY <1>1, <2>1, <3>5
      <4>2. Through(t[1], i)' <=> i < offset[t] + BlockDim
        BY <3>4, <4>1
      <4> QED
        BY <1>1, <2>1, <3>2, <3>3, <4>2, BlockDimAssumption
    <3>6. CASE offset[t] >= SlotCount
      <4>1. pc'[t] \in {"sync0", "sync2", "sync3", "sync4", "sync5"} /\ i < offset[t]
        BY <1>1, <2>1, <3>6
      <4> QED
        BY <3>3, <3>4, <4>1
    <3> QED
      BY <1>1, <2>1, <3>5, <3>6
  <2> QED
    BY <2>2, <2>3
<1> QED
  BY <1>2, <1>3

\* A thread that stores is not through with its slot.
LEMMA StoreThrough ==
    ASSUME IInv, NEW t \in Thread, ThreadStep(t),
           pc[t] \in {"transit", "store"}, pc'[t] \in {"transit", "store"}, offset'[t] = offset[t]
    PROVE  \A i \in Slot : Through(t[1], i)' <=> Through(t[1], i)
<1>1. t[1] \in Block
  BY PhaseFacts
<1>2. ASSUME NEW i \in Slot, Owner(t[1], i) = t PROVE Through(t[1], i)' <=> Through(t[1], i)
  BY <1>2 DEF Through, Owner
<1> QED
  BY <1>1, <1>2, PlaceKept

\* Which slots a step of a thread may change: in phase 2, of the next array.
LEMMA SlotsMoved ==
    ASSUME IInv, NEW t \in Thread, ThreadStep(t)
    PROVE  LET b == t[1]
           IN  /\ PhaseOf(b) \in {1, 2} => \A i \in Slot : slots'[b][Cur(b)][i] = slots[b][Cur(b)][i]
               /\ PhaseOf(b) \in {3, 5} => slots'[b] = slots[b]
               /\ PhaseOf(b) \in {1, 2} /\ ~ClearNext(t) /\ ~Store(t) => slots'[b] = slots[b]
<1> DEFINE b == t[1]
<1>1. /\ b \in Block /\ Cur(b) # Nxt(b) /\ Cur(b) \in {0, 1} /\ NextArray(input_position[t]) = Nxt(b)
      /\ DOMAIN slots = Block /\ slots[b] \in [{0, 1} -> [Slot -> Sids(nfa(b)) \cup {Empty}]]
  BY PhaseFacts, ArrayFacts DEF ThreadInv, Control, Nxt, IInv, Shapes, TypeOK
<1>2. CASE ClearNext(t)
  <2>1. PhaseOf(b) = 1
    BY <1>2, PhaseFacts DEF ClearNext, Loop
  <2>2. slots' = IF offset[t] < SlotCount THEN Stored(b, Nxt(b), offset[t], Empty) ELSE slots
    BY <1>1, <1>2 DEF ClearNext
  <2> QED
    BY <1>1, <1>2, <2>1, <2>2 DEF Stored
<1>3. CASE Store(t)
  <2>1. PhaseOf(b) = 2
    BY <1>3, PhaseFacts DEF Store
  <2>2. PICK s \in to_store[t] : slots' = Stored(b, Nxt(b), group(b)[s], s)
    BY <1>1, <1>3 DEF Store
  <2> QED
    BY <1>1, <1>3, <2>1, <2>2 DEF Stored
<1>4. CASE Load(t) \/ Swap(t)
  <2>1. PhaseOf(b) \in {0, 4}
    BY <1>4, PhaseFacts DEF Load, Swap, Loop
  <2> QED
    BY <2>1
<1>5. CASE ReadChunk(t) \/ Transit(t) \/ NextSlot(t) \/ Output(t)
  <2>1. slots' = slots
    BY <1>5 DEF ReadChunk, Transit, NextSlot, Output
  <2> QED
    BY <2>1
<1> QED
  BY <1>2, <1>3, <1>4, <1>5 DEF ThreadStep

\* The chunk kernel's moving of a slot.
LEMMA SwapMoves ==
    ASSUME IInv, NEW t \in Thread, Swap(t)
    PROVE  LET b == t[1]
           IN  /\ PhaseOf(b) = 4 /\ job.chunked
               /\ offset[t] < SlotCount =>
                     slots' = [slots EXCEPT ![b][0][offset[t]] = slots[b][1][offset[t]],
                                            ![b][1][offset[t]] = Empty]
               /\ offset[t] >= SlotCount => slots' = slots
               /\ \A i \in Slot : /\ Through(b, i)' <=> Through(b, i) \/ i = offset[t]
                                  /\ LatestArray(b, i)' = IF Through(b, i)' THEN 0 ELSE 1
<1> DEFINE b == t[1]
<1>1. /\ b \in Block /\ ThreadStep(t) /\ pc[t] = "swap" /\ ThreadMoves(t)
      /\ offset[t] \in Nat /\ SlotCount \in Nat
  BY PhaseFacts, ThreadMoving, SlotCountAssumption DEF ThreadStep, Swap, Loop
<1>2. PhaseOf(b) = 4 /\ job.chunked
  BY <1>1, PhaseFacts, ArrayFacts
<1>3. /\ offset[t] < SlotCount =>
            slots' = [slots EXCEPT ![b][0][offset[t]] = slots[b][1][offset[t]],
                                   ![b][1][offset[t]] = Empty]
      /\ offset[t] >= SlotCount => slots' = slots
  BY <1>1 DEF Swap, BothStored
<1>4. \A i \in Slot : Through(b, i)' <=> Through(b, i) \/ i = offset[t]
  <2>1. \/ offset[t] < SlotCount /\ offset'[t] = offset[t] + BlockDim /\ pc'[t] = "swap"
        \/ offset[t] >= SlotCount /\ offset'[t] = t[2] /\ pc'[t] = "sync5"
    BY <1>1 DEF Swap, Loop, IInv, TypeOK
  <2> QED
    BY <1>1, <2>1, LoopThrough
<1>5. ASSUME NEW i \in Slot PROVE LatestArray(b, i)' = IF Through(b, i)' THEN 0 ELSE 1
  <2>1. Owner(b, i) \in Thread /\ Owner(b, i)[1] = b /\ i \in Nat
    BY <1>1, SlotFacts
  <2>2. Swapping(b)' /\ job' = job
    <3>1. Lead(b) \in Thread /\ Lead(b)[1] = b
      BY <1>1, ThreadFacts
    <3>2. Swapping(b)
      BY <1>2, <3>1, PhaseFacts DEF Swapping
    <3> QED
      BY <1>1, <3>2, PlaceKept DEF ThreadMoves
  <2>3. pc'[Owner(b, i)] \in {"swap", "sync5"}
    <3>1. pc[Owner(b, i)] \in {"swap", "sync5"}
      BY <1>2, <2>1, PhaseFacts
    <3>2. Phase(pc'[Owner(b, i)]) = 4 /\ pc'[Owner(b, i)] \in PCs
      BY <1>1, <3>1, <2>1 DEF ThreadMoves, Phase
    <3> QED
      BY <3>2 DEF Phase
  <2>4. offset'[Owner(b, i)] \in Nat
    BY <1>1, <2>1 DEF ThreadMoves
  <2>5. Through(b, i)' <=> pc'[Owner(b, i)] = "sync5" \/ i < offset'[Owner(b, i)]
    BY <2>3 DEF Through, Owner
  <2>6. LatestArray(b, i)' = IF pc'[Owner(b, i)] = "swap" /\ offset'[Owner(b, i)] <= i THEN 1 ELSE 0
    BY <1>2, <2>2 DEF LatestArray, Owner, CurrentArray
  <2> QED
    BY <2>1, <2>3, <2>4, <2>5, <2>6
<1> QED
  BY <1>2, <1>3, <1>4, <1>5

\* Until the symbol is through the step of a thread leaves the active states as they
\* are, and where they are.
LEMMA ActiveKept ==
    ASSUME IInv, NEW t \in Thread, ThreadStep(t), NEW d \in Block
    PROVE  /\ PhaseOf(d) # 0 => \A i \in Slot : Latest(d, i)' = Latest(d, i)
           /\ ActiveStates(d)' = ActiveStates(d)
<1>1. /\ PhaseOf(d)' = PhaseOf(d) /\ (Swapping(d)' <=> Swapping(d)) /\ (position[d])' = position[d]
      /\ nfa(d)' = nfa(d) /\ Lead(d) \in Thread /\ Lead(d)[1] = d
      /\ ThreadMoves(t)
  BY PlaceKept, ThreadFacts, ThreadMoving
<1>2. PhaseOf(d) = 0 <=> pc[Lead(d)] \in {"load", "sync0"}
  BY <1>1, PhaseFacts
<1>3. PhaseOf(d) = 0 <=> pc'[Lead(d)] \in {"load", "sync0"}
  BY <1>1 DEF PhaseOf, Phase, Lead
<1>4. ASSUME PhaseOf(d) # 0, NEW i \in Slot PROVE Latest(d, i)' = Latest(d, i)
  <2>1. CASE d # t[1]
    <3>1. Owner(d, i) \in Thread /\ Owner(d, i)[1] = d
      BY SlotFacts
    <3>2. LatestArray(d, i)' = LatestArray(d, i)
      BY <1>1, <2>1, <3>1 DEF LatestArray, ThreadMoves, Owner, CurrentArray
    <3> QED
      BY <1>1, <2>1, <3>2 DEF Latest, ThreadMoves
  <2>2. CASE d = t[1] /\ PhaseOf(d) # 4
    <3>1. LatestArray(d, i) = Cur(d) /\ ~Swapping(d)
      BY <1>1, <2>2, ArrayFacts, PhaseFacts DEF Swapping
    <3>2. LatestArray(d, i)' = Cur(d)
      <4>1. LatestArray(d, i)' = CurrentArray(position[d])
        BY <1>1, <3>1 DEF LatestArray, ThreadMoves, CurrentArray
      <4>2. LatestArray(d, i) = CurrentArray(position[d])
        BY <3>1 DEF LatestArray
      <4> QED
        BY <3>1, <4>1, <4>2
    <3>3. PhaseOf(d) \in {1, 2, 3, 5}
      BY <1>1, <1>4, <2>2 DEF PhaseOf, Phase
    <3> QED
      BY <2>2, <3>1, <3>2, <3>3, SlotsMoved DEF Latest
  <2>3. CASE d = t[1] /\ PhaseOf(d) = 4
    <3>1. CASE Swap(t)
      <4>1. /\ offset[t] < SlotCount =>
                  slots' = [slots EXCEPT ![d][0][offset[t]] = slots[d][1][offset[t]],
                                         ![d][1][offset[t]] = Empty]
            /\ offset[t] >= SlotCount => slots' = slots
            /\ Through(d, i)' <=> Through(d, i) \/ i = offset[t]
            /\ LatestArray(d, i)' = IF Through(d, i)' THEN 0 ELSE 1
        BY <2>3, <3>1, SwapMoves
      <4>2. LatestArray(d, i) = IF Through(d, i) THEN 0 ELSE 1
        BY <2>3, ArrayFacts
      <4>3. /\ DOMAIN slots = Block /\ slots[d] \in [{0, 1} -> [Slot -> Sids(nfa(d)) \cup {Empty}]]
            /\ offset[t] \in Nat /\ SlotCount \in Nat
        BY PhaseFacts, SlotCountAssumption DEF IInv, Shapes, TypeOK
      <4>4. CASE offset[t] >= SlotCount
        <5>1. i # offset[t]
          BY <4>3, <4>4 DEF Slot
        <5> QED
          BY <4>1, <4>2, <4>4, <5>1 DEF Latest
      <4>5. CASE offset[t] < SlotCount /\ i = offset[t]
        <5>1. ~Through(d, i)
          <6>1. ThreadStep(t) /\ pc[t] = "swap"
            BY <3>1 DEF ThreadStep, Swap, Loop
          <6>2. offset[t] < SlotCount => ~Through(t[1], offset[t])
            <7>1. \/ offset[t] < SlotCount /\ offset'[t] = offset[t] + BlockDim /\ pc'[t] = "swap"
                  \/ offset[t] >= SlotCount /\ offset'[t] = t[2] /\ pc'[t] = "sync5"
              BY <3>1, <4>3 DEF Swap, Loop, IInv, TypeOK
            <7> QED
              BY <6>1, <7>1, LoopThrough
          <6> QED
            BY <2>3, <4>5, <6>2
        <5>2. LatestArray(d, i) = 1 /\ LatestArray(d, i)' = 0
          BY <4>1, <4>2, <4>5, <5>1
        <5>3. slots'[d][0][i] = slots[d][1][i]
          BY <4>1, <4>3, <4>5
        <5> QED
          BY <5>2, <5>3 DEF Latest
      <4>6. CASE offset[t] < SlotCount /\ i # offset[t]
        <5>1. LatestArray(d, i)' = LatestArray(d, i) /\ LatestArray(d, i) \in {0, 1}
          BY <4>1, <4>2, <4>6
        <5>2. slots'[d][0][i] = slots[d][0][i] /\ slots'[d][1][i] = slots[d][1][i]
          BY <4>1, <4>3, <4>6
        <5> QED
          BY <5>1, <5>2 DEF Latest
      <4> QED
        BY <4>3, <4>4, <4>5, <4>6
    <3>2. CASE ~Swap(t)
      <4>1. pc[t] \in {"swap", "sync5"}
        BY <2>3, PhaseFacts
      <4> QED
        BY <3>2, <4>1 DEF ThreadStep, Load, ReadChunk, ClearNext, Transit, Store, NextSlot, Output, Loop
    <3> QED
      BY <3>1, <3>2
  <2> QED
    BY <2>1, <2>2, <2>3
<1>5. ActiveStates(d)' = ActiveStates(d)
  <2>1. CASE PhaseOf(d) = 0
    BY <1>1, <1>2, <1>3, <2>1 DEF ActiveStates, Lead
  <2>2. CASE PhaseOf(d) # 0
    <3>1. ActiveStates(d) = { Latest(d, i) : i \in Slot } \ {Empty}
      BY <1>2, <2>2 DEF ActiveStates, Latest
    <3>2. ActiveStates(d)' = { Latest(d, i)' : i \in Slot } \ {Empty}
      BY <1>3, <2>2 DEF ActiveStates, Latest, Lead
    <3> QED
      BY <1>4, <2>2, <3>1, <3>2
  <2> QED
    BY <2>1, <2>2
<1> QED
  BY <1>4, <1>5

\* A symbol wakes the targets of the active states.
LEMMA WokenIs ==
    ASSUME NEW b
    PROVE  /\ Woken(b) = UNION { TargetsOf(b, s) : s \in ActiveStates(b) }
           /\ \A s \in ActiveStates(b) : TargetsOf(b, s) \subseteq Woken(b)
<1>1. ASSUME NEW u \in Woken(b) PROVE \E s \in ActiveStates(b) : u \in TargetsOf(b, s)
  <2>1. CASE u \in Activated(nfa(b), Successors(nfa(b), ActiveStates(b)), input(b)[Pos(b) + 1])
    BY <2>1 DEF Activated, Successors, TargetsOf
  <2>2. CASE u \in ActiveStates(b) \cap nfa(b).always
    BY <2>2 DEF TargetsOf
  <2> QED
    BY <2>1, <2>2 DEF Woken, Activate
<1>2. ASSUME NEW s \in ActiveStates(b), NEW u \in TargetsOf(b, s) PROVE u \in Woken(b)
  BY DEF TargetsOf, Activated, Successors, Woken, Activate
<1> QED
  BY <1>1, <1>2

\* They are pairwise incompatible again.
LEMMA WokenSane ==
    ASSUME IInv, NEW b \in Block, PhaseOf(b) \in {1, 2, 3, 4}
    PROVE  /\ Sane(b, Woken(b))
           /\ \A s, u \in Woken(b) : group(b)[s] = group(b)[u] => s = u
           /\ \A s \in Woken(b) : s \in Sids(nfa(b)) /\ group(b)[s] \in Slot
           /\ input(b)[Pos(b) + 1] \in Symbol
<1>1. job \in Jobs /\ Sane(b, ActiveStates(b)) /\ Pos(b) < Len(input(b))
  BY DEF IInv, TypeOK, BlockInv, Positions
<1>2. input(b) \in Seq(Symbol) /\ Pos(b) \in Nat
  BY <1>1, BlockFacts, ArrayFacts
<1>3. input(b)[Pos(b) + 1] \in Symbol
  BY <1>1, <1>2
<1>4. Sane(b, Woken(b))
  BY <1>1, <1>3, SaneStep DEF Woken
<1> QED
  BY <1>1, <1>3, <1>4, SaneApart

\* The active states and what the symbol makes of them, in the step of a thread.
LEMMA WokenKept ==
    ASSUME IInv, NEW t \in Thread, ThreadStep(t), NEW d \in Block
    PROVE  /\ Woken(d)' = Woken(d)
           /\ \A s : TargetsOf(d, s)' = TargetsOf(d, s)
           /\ Sane(d, ActiveStates(d))'
<1>1. /\ nfa(d)' = nfa(d) /\ input(d)' = input(d) /\ Pos(d)' = Pos(d)
      /\ ActiveStates(d)' = ActiveStates(d) /\ job' = job
  BY PlaceKept, ActiveKept, ThreadMoving DEF ThreadMoves
<1>2. Sane(d, ActiveStates(d))
  BY DEF IInv, BlockInv
<1> QED
  BY <1>1, <1>2 DEF Woken, TargetsOf, Sane

\* What is in a slot of the current array is active.
LEMMA CurrentActive ==
    ASSUME IInv, NEW b \in Block, PhaseOf(b) \in {1, 2, 3, 5}
    PROVE  /\ \A i \in Slot : slots[b][Cur(b)][i] # Empty => slots[b][Cur(b)][i] \in ActiveStates(b)
           /\ \A s \in ActiveStates(b) : \E i \in Slot : slots[b][Cur(b)][i] = s /\ s # Empty
<1>1. /\ ActiveStates(b) = { Latest(b, i) : i \in Slot } \ {Empty}
      /\ \A i \in Slot : Latest(b, i) = slots[b][Cur(b)][i]
  BY ArrayFacts DEF Latest
<1> QED
  BY <1>1

\* A thread's slot and its targets, while it stores them.
LEMMA StoringFacts ==
    ASSUME IInv, NEW t \in Thread, pc[t] = "store"
    PROVE  LET b == t[1]
               s == slots[b][Cur(b)][offset[t]]
           IN  /\ PhaseOf(b) = 2 /\ offset[t] \in Slot /\ s \in ActiveStates(b) /\ s # Empty
               /\ to_store[t] \subseteq TargetsOf(b, s)
               /\ TargetsOf(b, s) \subseteq Woken(b)
               /\ \A u \in TargetsOf(b, s) \ to_store[t] : InNext(b, u)
<1>1. /\ PhaseOf(t[1]) = 2 /\ t[1] \in Block /\ Storing(t) /\ offset[t] \in Nat
  BY PhaseFacts DEF ThreadInv
<1>2. offset[t] \in Slot
  BY <1>1, SlotCountAssumption DEF Storing, Slot
<1>3. slots[t[1]][Cur(t[1])][offset[t]] \in ActiveStates(t[1])
  BY <1>1, <1>2, CurrentActive DEF Storing
<1> QED
  BY <1>1, <1>2, <1>3, WokenIs DEF Storing

\* No step of a thread takes a state that was woken out of its slot of the next array.
LEMMA NextKept ==
    ASSUME IInv, NEW t \in Thread, ThreadStep(t), NEW d \in Block, PhaseOf(d) = 2,
           NEW u \in Woken(d), InNext(d, u)
    PROVE  InNext(d, u)'
<1>1. /\ Nxt(d)' = Nxt(d) /\ group(d)' = group(d) /\ t[1] \in Block
      /\ DOMAIN slots = Block /\ slots[d] \in [{0, 1} -> [Slot -> Sids(nfa(d)) \cup {Empty}]]
      /\ Nxt(d) \in {0, 1} /\ input_position[t] = Pos(t[1])
  BY PlaceKept, PhaseFacts, ArrayFacts DEF IInv, Shapes, TypeOK, ThreadInv, Control
<1>2. CASE d # t[1]
  BY <1>1, <1>2, ThreadMoving DEF ThreadMoves, InNext
<1>3. CASE d = t[1] /\ Store(t)
  <2>1. PICK s \in to_store[t] : slots' = Stored(d, Nxt(d), group(d)[s], s)
    BY <1>1, <1>3 DEF Store, Nxt
  <2>2. s \in Woken(d) /\ group(d)[s] \in Slot /\ group(d)[u] \in Slot
    BY <1>3, StoringFacts, WokenSane DEF Store
  <2>3. u = s \/ group(d)[u] # group(d)[s]
    BY <2>2, WokenSane
  <2> QED
    BY <1>1, <2>1, <2>2, <2>3 DEF InNext, Stored
<1>4. CASE d = t[1] /\ ~Store(t)
  <2>1. ~ClearNext(t)
    BY <1>4, PhaseFacts DEF ClearNext, Loop
  <2>2. slots'[d] = slots[d]
    BY <1>4, <2>1, SlotsMoved
  <2> QED
    BY <1>1, <2>2 DEF InNext
<1> QED
  BY <1>2, <1>3, <1>4

\* The other threads are where they were, with what they had stored.
LEMMA OtherThreads ==
    ASSUME IInv, NEW t \in Thread, ThreadStep(t), NEW u \in Thread, u # t
    PROVE  ThreadInv(u)'
<1> DEFINE d == u[1]
<1>1. /\ ThreadMoves(t) /\ d \in Block /\ ThreadInv(u) /\ u[2] \in Tid /\ u = <<d, u[2]>>
      /\ t[1] \in Block /\ t[2] \in Tid /\ t = <<t[1], t[2]>>
  BY ThreadMoving, PhaseFacts, ThreadFacts
<1>2. /\ PhaseOf(d)' = PhaseOf(d) /\ Pos(d)' = Pos(d) /\ Cur(d)' = Cur(d) /\ Nxt(d)' = Nxt(d)
      /\ input(d)' = input(d)
  BY <1>1, PlaceKept
<1>3. pc'[u] = pc[u] /\ offset'[u] = offset[u] /\ to_store'[u] = to_store[u] /\ job' = job
  BY <1>1 DEF ThreadMoves
<1>4. Control(u)'
  BY <1>1, <1>2, <1>3 DEF ThreadInv, Control, ThreadMoves
<1>5. ASSUME pc[u] = "store" PROVE Storing(u)'
  <2> DEFINE s == slots[d][Cur(d)][offset[u]]
  <2>1. /\ PhaseOf(d) = 2 /\ offset[u] \in Slot /\ s \in ActiveStates(d) /\ s # Empty
        /\ to_store[u] \subseteq TargetsOf(d, s) /\ TargetsOf(d, s) \subseteq Woken(d)
        /\ \A v \in TargetsOf(d, s) \ to_store[u] : InNext(d, v)
        /\ offset[u] < SlotCount
    BY <1>1, <1>5, StoringFacts DEF ThreadInv, Storing
  <2>2. s' = s
    <3>1. slots'[d][Cur(d)][offset[u]] = s
      <4>1. CASE d = t[1]
        BY <2>1, <4>1, SlotsMoved
      <4>2. CASE d # t[1]
        BY <1>1, <4>2 DEF ThreadMoves
      <4> QED
        BY <4>1, <4>2
    <3> QED
      BY <1>2, <1>3, <3>1
  <2>3. TargetsOf(d, s)' = TargetsOf(d, s)
    BY <1>1, <2>2, WokenKept DEF TargetsOf
  <2>4. \A v \in TargetsOf(d, s) \ to_store[u] : InNext(d, v)'
    BY <1>1, <2>1, NextKept
  <2> HIDE DEF s
  <2>5. /\ offset'[u] < SlotCount /\ s' # Empty
        /\ to_store'[u] \subseteq TargetsOf(d, s)'
        /\ \A v \in TargetsOf(d, s)' \ to_store'[u] : InNext(d, v)'
    BY <1>3, <2>1, <2>2, <2>3, <2>4
  <2> QED
    BY <2>5 DEF Storing, s
<1>6. HasRead(u) => HasRead(u)'
  <2>1. shrd_chunk'[d][u[2]] = shrd_chunk[d][u[2]]
    BY <1>1 DEF ThreadMoves
  <2> QED
    BY <1>2, <2>1 DEF HasRead
<1> QED
  BY <1>1, <1>2, <1>3, <1>4, <1>5, <1>6 DEF ThreadInv

-----------------------------------------------------------------------------
(* What the step of a thread does.                                           *)

\* A thread goes from slot to slot of its own.
LEMMA OwnControl ==
    ASSUME IInv, NEW t \in Thread, ThreadStep(t)
    PROVE  Control(t)'
<1>1. /\ ThreadMoves(t) /\ t[1] \in Block /\ t[2] \in Tid /\ Control(t) /\ offset[t] \in Nat
      /\ pc \in [Thread -> PCs] /\ offset \in [Thread -> Nat]
  BY ThreadMoving, PhaseFacts, ThreadFacts DEF ThreadInv, IInv, TypeOK
<1>2. PhaseOf(t[1])' = PhaseOf(t[1]) /\ Pos(t[1])' = Pos(t[1])
  BY <1>1, PlaceKept
<1>3. /\ (offset[t] + BlockDim) % BlockDim = t[2]
      /\ t[2] % BlockDim = t[2]
  BY <1>1, SlotFacts DEF Control
<1>4. /\ Phase(pc'[t]) = PhaseOf(t[1])' /\ input_position'[t] = Pos(t[1])' /\ job' = job
  BY <1>1, <1>2 DEF ThreadMoves, Control
<1>5. /\ offset'[t] % BlockDim = t[2]
      /\ pc'[t] \notin {"load", "clear", "transit", "store", "output", "swap"} => offset'[t] = t[2]
      /\ pc'[t] \in {"clear", "sync2"} => ~job.chunked
      /\ pc'[t] \in {"read", "swap", "sync5"} => job.chunked
  <2>1. CASE Load(t) \/ ClearNext(t) \/ Output(t) \/ Swap(t)
    BY <1>1, <1>3, <2>1 DEF Load, ClearNext, Output, Swap, Loop, Control
  <2>2. CASE Transit(t)
    BY <1>1, <1>3, <2>2 DEF Transit, Loop, Control
  <2>3. CASE ReadChunk(t)
    BY <1>1, <1>3, <2>3 DEF ReadChunk, Control
  <2>4. CASE Store(t) \/ NextSlot(t)
    BY <1>1, <1>3, <2>4 DEF Store, NextSlot, Control
  <2> QED
    BY <2>1, <2>2, <2>3, <2>4 DEF ThreadStep
<1> QED
  BY <1>4, <1>5 DEF Control

\* Types of what the threads of a block share, and of a thread's slot.
LEMMA SharedTypes ==
    ASSUME IInv, NEW b \in Block
    PROVE  /\ DOMAIN slots = Block /\ slots[b] \in [{0, 1} -> [Slot -> Sids(nfa(b)) \cup {Empty}]]
           /\ DOMAIN shrd_chunk = Block /\ shrd_chunk[b] \in [Tid -> Symbol]
           /\ DOMAIN to_store = Thread /\ job \in Jobs
           /\ SlotCount \in Nat /\ BlockDim \in Nat
           /\ \A i \in Nat : i < SlotCount <=> i \in Slot
BY SlotCountAssumption, BlockDimAssumption DEF IInv, TypeOK, Shapes, Slot

\* The initial slots have the start states.
LEMMA InitialTypes ==
    ASSUME job \in Jobs, NEW b \in Block, NEW i \in Slot
    PROVE  InitialSlots(b)[i] \in Sids(nfa(b)) \cup {Empty}
<1>1. nfa(b).start \subseteq Sids(nfa(b))
  BY BlockFacts
<1> QED
  BY <1>1 DEF InitialSlots

\* Loading a slot.
LEMMA LoadKeeps ==
    ASSUME IInv, NEW t \in Thread, Load(t)
    PROVE  /\ PhaseOf(t[1]) = 0 /\ LoadInv(t[1])'
           /\ slots'[t[1]] \in [{0, 1} -> [Slot -> Sids(nfa(t[1])) \cup {Empty}]]
           /\ shrd_chunk' = shrd_chunk /\ to_store' = to_store /\ pc'[t] \in {"load", "sync0"}
<1> DEFINE b == t[1]
<1>1. /\ b \in Block /\ ThreadStep(t) /\ pc[t] = "load" /\ PhaseOf(b) = 0
      /\ offset[t] \in Nat /\ LoadInv(b) /\ job' = job /\ InitialSlots(b)' = InitialSlots(b)
  <2>1. b \in Block /\ ThreadStep(t) /\ pc[t] = "load" /\ offset[t] \in Nat
    BY PhaseFacts DEF ThreadStep, Load, Loop
  <2>2. PhaseOf(b) = 0
    BY <2>1, PhaseFacts
  <2>3. nfa(b)' = nfa(b) /\ group(b)' = group(b) /\ job' = job
    BY <2>1, PlaceKept, ThreadMoving DEF ThreadMoves
  <2> QED
    BY <2>1, <2>2, <2>3 DEF IInv, BlockInv, InitialSlots
<1>2. \A i \in Slot : Through(b, i)' <=> Through(b, i) \/ i = offset[t]
  <2>1. \/ offset[t] < SlotCount /\ offset'[t] = offset[t] + BlockDim /\ pc'[t] = "load"
        \/ offset[t] >= SlotCount /\ offset'[t] = t[2] /\ pc'[t] = "sync0"
    BY <1>1, SharedTypes DEF Load, Loop, IInv, TypeOK
  <2> QED
    BY <1>1, <2>1, LoopThrough
<1>3. /\ offset[t] \in Slot /\ job.chunked => slots' = BothStored(b, offset[t], InitialSlots(b)[offset[t]], Empty)
      /\ offset[t] \in Slot /\ ~job.chunked => slots' = Stored(b, 0, offset[t], InitialSlots(b)[offset[t]])
      /\ offset[t] \notin Slot => slots' = slots
  BY <1>1, SharedTypes DEF Load
<1>4. /\ slots'[b] \in [{0, 1} -> [Slot -> Sids(nfa(b)) \cup {Empty}]]
      /\ \A i \in Slot : i # offset[t] => slots'[b][0][i] = slots[b][0][i] /\ slots'[b][1][i] = slots[b][1][i]
      /\ offset[t] \in Slot => /\ slots'[b][0][offset[t]] = InitialSlots(b)[offset[t]]
                               /\ job.chunked => slots'[b][1][offset[t]] = Empty
  <2>1. /\ DOMAIN slots = Block /\ slots[b] \in [{0, 1} -> [Slot -> Sids(nfa(b)) \cup {Empty}]]
        /\ offset[t] \in Slot => InitialSlots(b)[offset[t]] \in Sids(nfa(b)) \cup {Empty}
        /\ job.chunked \in BOOLEAN
    BY <1>1, SharedTypes, InitialTypes, BlockFacts
  <2>2. CASE offset[t] \notin Slot
    BY <1>3, <2>1, <2>2
  <2>3. CASE offset[t] \in Slot /\ job.chunked
    BY <1>1, <1>3, <2>1, <2>3 DEF BothStored
  <2>4. CASE offset[t] \in Slot /\ ~job.chunked
    BY <1>1, <1>3, <2>1, <2>4 DEF Stored
  <2> QED
    BY <2>1, <2>2, <2>3, <2>4
<1>5. LoadInv(b)'
  BY <1>1, <1>2, <1>4 DEF LoadInv
<1>6. pc'[t] \in {"load", "sync0"}
  BY <1>1 DEF Load, Loop, IInv, TypeOK
<1> QED
  BY <1>1, <1>4, <1>5, <1>6 DEF Load

\* Clearing a slot.
LEMMA ClearKeeps ==
    ASSUME IInv, NEW t \in Thread, ClearNext(t)
    PROVE  /\ PhaseOf(t[1]) = 1 /\ ClearInv(t[1])'
           /\ slots'[t[1]] \in [{0, 1} -> [Slot -> Sids(nfa(t[1])) \cup {Empty}]]
           /\ shrd_chunk' = shrd_chunk /\ to_store' = to_store /\ pc'[t] \in {"clear", "sync2"}
<1> DEFINE b == t[1]
<1>1. /\ b \in Block /\ ThreadStep(t) /\ pc[t] = "clear" /\ PhaseOf(b) = 1
      /\ offset[t] \in Nat /\ ClearInv(b) /\ job' = job /\ Nxt(b)' = Nxt(b)
      /\ input_position[t] = Pos(b) /\ Nxt(b) \in {0, 1}
  <2>1. b \in Block /\ ThreadStep(t) /\ pc[t] = "clear" /\ offset[t] \in Nat
    BY PhaseFacts DEF ThreadStep, ClearNext, Loop
  <2>2. PhaseOf(b) = 1 /\ input_position[t] = Pos(b)
    BY <2>1, PhaseFacts DEF ThreadInv, Control
  <2>3. Nxt(b)' = Nxt(b) /\ job' = job /\ Nxt(b) \in {0, 1}
    BY <2>1, PlaceKept, ThreadMoving, ArrayFacts DEF ThreadMoves
  <2> QED
    BY <2>1, <2>2, <2>3 DEF IInv, BlockInv
<1>2. \A i \in Slot : Through(b, i)' <=> Through(b, i) \/ i = offset[t]
  <2>1. \/ offset[t] < SlotCount /\ offset'[t] = offset[t] + BlockDim /\ pc'[t] = "clear"
        \/ offset[t] >= SlotCount /\ offset'[t] = t[2] /\ pc'[t] = "sync2"
    BY <1>1, SharedTypes DEF ClearNext, Loop, IInv, TypeOK
  <2> QED
    BY <1>1, <2>1, LoopThrough
<1>3. /\ offset[t] \in Slot => slots' = Stored(b, Nxt(b), offset[t], Empty)
      /\ offset[t] \notin Slot => slots' = slots
  BY <1>1, SharedTypes DEF ClearNext, Nxt
<1>4. /\ slots'[b] \in [{0, 1} -> [Slot -> Sids(nfa(b)) \cup {Empty}]]
      /\ \A i \in Slot : i # offset[t] => slots'[b][Nxt(b)][i] = slots[b][Nxt(b)][i]
      /\ offset[t] \in Slot => slots'[b][Nxt(b)][offset[t]] = Empty
  <2>1. DOMAIN slots = Block /\ slots[b] \in [{0, 1} -> [Slot -> Sids(nfa(b)) \cup {Empty}]]
    BY <1>1, SharedTypes
  <2> QED
    BY <1>1, <1>3, <2>1 DEF Stored
<1>5. ClearInv(b)'
  BY <1>1, <1>2, <1>4 DEF ClearInv
<1>6. pc'[t] \in {"clear", "sync2"}
  BY <1>1 DEF ClearNext, Loop, IInv, TypeOK
<1> QED
  BY <1>1, <1>4, <1>5, <1>6 DEF ClearNext

\* Reading a symbol of the chunk.
LEMMA ReadKeeps ==
    ASSUME IInv, NEW t \in Thread, ReadChunk(t)
    PROVE  /\ PhaseOf(t[1]) = 1 /\ ClearInv(t[1])' /\ HasRead(t)' /\ pc'[t] = "sync1"
           /\ shrd_chunk'[t[1]] \in [Tid -> Symbol]
           /\ slots' = slots /\ to_store' = to_store
<1> DEFINE b == t[1]
<1>1. /\ b \in Block /\ ThreadStep(t) /\ pc[t] = "read" /\ PhaseOf(b) = 1 /\ job.chunked
      /\ ClearInv(b) /\ job' = job /\ Nxt(b)' = Nxt(b) /\ Pos(b)' = Pos(b) /\ input(b)' = input(b)
      /\ input_position[t] = Pos(b) /\ t[2] \in Tid /\ t[2] \in Nat /\ Pos(b) \in Nat
  <2>1. b \in Block /\ ThreadStep(t) /\ pc[t] = "read" /\ t[2] \in Tid /\ t[2] \in Nat
    BY PhaseFacts, ThreadFacts DEF ThreadStep, ReadChunk
  <2>2. PhaseOf(b) = 1 /\ input_position[t] = Pos(b) /\ job.chunked
    BY <2>1, PhaseFacts DEF ThreadInv, Control
  <2>3. Nxt(b)' = Nxt(b) /\ job' = job /\ Pos(b) \in Nat /\ Pos(b)' = Pos(b) /\ input(b)' = input(b)
    BY <2>1, PlaceKept, ThreadMoving, ArrayFacts DEF ThreadMoves
  <2> QED
    BY <2>1, <2>2, <2>3 DEF IInv, BlockInv
<1>2. slots' = slots /\ to_store' = to_store /\ pc'[t] = "sync1"
  BY DEF ReadChunk, IInv, TypeOK
<1>3. ClearInv(b)'
  BY <1>1, <1>2 DEF ClearInv
<1> DEFINE p == Base(Pos(b)) + t[2]
<1>4. p \in Nat
  <2>1. Pos(b) \div BlockDim \in Nat
    BY <1>1, BlockDimAssumption, SMTT(30)
  <2>2. BlockDim * (Pos(b) \div BlockDim) \in Nat
    BY <2>1, BlockDimAssumption, SMTT(30)
  <2> QED
    BY <1>1, <2>2 DEF Base
<1>5. shrd_chunk' = IF p < Len(input(b)) THEN [shrd_chunk EXCEPT ![b][t[2]] = input(b)[p + 1]]
                                         ELSE shrd_chunk
  BY <1>1 DEF ReadChunk
<1>6. DOMAIN shrd_chunk = Block /\ shrd_chunk[b] \in [Tid -> Symbol] /\ job \in Jobs
  BY <1>1, SharedTypes
<1>7. input(b) \in Seq(Symbol)
  BY <1>1, <1>6, BlockFacts
<1> HIDE DEF p
<1>8. p < Len(input(b)) => input(b)[p + 1] \in Symbol
  BY <1>4, <1>7
<1>9. shrd_chunk'[b] \in [Tid -> Symbol] /\ (p < Len(input(b)) => shrd_chunk'[b][t[2]] = input(b)[p + 1])
  BY <1>1, <1>5, <1>6, <1>8
<1>10. HasRead(t)'
  BY <1>1, <1>9 DEF HasRead, p, Base
<1> QED
  BY <1>1, <1>2, <1>3, <1>9, <1>10

\* The chunk of a position.
LEMMA BaseFacts ==
    ASSUME NEW p \in Nat
    PROVE  Base(p) \in Nat /\ p - Base(p) \in Tid /\ Base(p) <= p
<1> DEFINE q == p \div BlockDim
           r == p % BlockDim
<1>1. q \in Nat /\ r \in 0 .. BlockDim - 1 /\ p = (BlockDim * q) + r /\ BlockDim * q \in Nat
  BY BlockDimAssumption, SMTT(30)
<1>2. Base(p) = BlockDim * q
  BY DEF Base
<1> HIDE DEF q, r
<1> QED
  BY <1>1, <1>2, BlockDimAssumption DEF Tid

\* A thread reads the symbol of the position, from the stream or the chunk.
LEMMA SymbolRead ==
    ASSUME IInv, NEW t \in Thread, PhaseOf(t[1]) = 2
    PROVE  /\ CurrentSymbol(t) = input(t[1])[Pos(t[1]) + 1]
           /\ \A s : Targets(t, s) = TargetsOf(t[1], s)
<1> DEFINE b == t[1]
           p == Pos(b)
           k == p - Base(p)
<1>1. /\ b \in Block /\ input_position[t] = p /\ p \in Nat /\ p < Len(input(b))
  BY PhaseFacts, ArrayFacts DEF ThreadInv, Control, IInv, BlockInv, Positions
<1>2. k \in Tid /\ Base(p) + k = p
  BY <1>1, BaseFacts, ThreadFacts
<1>3. CurrentSymbol(t) = input(b)[p + 1]
  <2>1. CASE ~job.chunked
    BY <1>1, <2>1 DEF CurrentSymbol
  <2>2. CASE job.chunked
    <3>1. ThreadInv(<<b, k>>)
      BY <1>1, <1>2, ThreadFacts DEF IInv, BlockInv
    <3>2. HasRead(<<b, k>>)
      BY <2>2, <3>1 DEF ThreadInv
    <3>3. shrd_chunk[b][k] = input(b)[p + 1]
      BY <1>1, <1>2, <3>2 DEF HasRead
    <3> QED
      BY <1>1, <2>2, <3>3 DEF CurrentSymbol
  <2> QED
    BY <2>1, <2>2
<1> QED
  BY <1>3 DEF Targets, TargetsOf

\* A block's arrays while it works off a symbol.
LEMMA TransitFacts ==
    ASSUME IInv, NEW t \in Thread, ThreadStep(t), PhaseOf(t[1]) = 2
    PROVE  LET b == t[1]
           IN  /\ b \in Block /\ TransitInv(b) /\ offset[t] \in Nat /\ PhaseOf(b)' = 2
               /\ Cur(b)' = Cur(b) /\ Nxt(b)' = Nxt(b) /\ group(b)' = group(b)
               /\ Woken(b)' = Woken(b) /\ \A s : TargetsOf(b, s)' = TargetsOf(b, s)
               /\ CurrentArray(input_position[t]) = Cur(b) /\ NextArray(input_position[t]) = Nxt(b)
               /\ Cur(b) \in {0, 1} /\ Nxt(b) = 1 - Cur(b)
               /\ pc \in [Thread -> PCs] /\ offset \in [Thread -> Nat]
<1>1. /\ t[1] \in Block /\ offset[t] \in Nat /\ input_position[t] = Pos(t[1])
  BY PhaseFacts DEF ThreadInv, Control
<1>2. TransitInv(t[1]) /\ pc \in [Thread -> PCs] /\ offset \in [Thread -> Nat]
  BY <1>1 DEF IInv, BlockInv, TypeOK
<1>3. /\ PhaseOf(t[1])' = 2 /\ Cur(t[1])' = Cur(t[1]) /\ Nxt(t[1])' = Nxt(t[1])
      /\ group(t[1])' = group(t[1])
  BY <1>1, PlaceKept
<1>4. Woken(t[1])' = Woken(t[1]) /\ \A s : TargetsOf(t[1], s)' = TargetsOf(t[1], s)
  BY <1>1, WokenKept
<1> QED
  BY <1>1, <1>2, <1>3, <1>4, ArrayFacts DEF Cur, Nxt

\* Taking up a slot of the current array.
LEMMA TransitKeeps ==
    ASSUME IInv, NEW t \in Thread, Transit(t)
    PROVE  /\ PhaseOf(t[1]) = 2 /\ TransitInv(t[1])'
           /\ pc'[t] = "store" => Storing(t)'
           /\ to_store'[t] \subseteq Sids(nfa(t[1]))
           /\ slots' = slots /\ shrd_chunk' = shrd_chunk
<1> DEFINE b == t[1]
           s == slots[b][Cur(b)][offset[t]]
           active == offset[t] < SlotCount /\ s # Empty
<1>1. ThreadStep(t) /\ pc[t] = "transit" /\ slots' = slots /\ shrd_chunk' = shrd_chunk
  BY DEF ThreadStep, Transit, Loop
<1>2. PhaseOf(b) = 2
  BY <1>1, PhaseFacts
<1>3. /\ b \in Block /\ TransitInv(b) /\ offset[t] \in Nat /\ PhaseOf(b)' = 2
      /\ Cur(b)' = Cur(b) /\ Nxt(b)' = Nxt(b) /\ group(b)' = group(b)
      /\ Woken(b)' = Woken(b) /\ \A u : TargetsOf(b, u)' = TargetsOf(b, u)
      /\ CurrentArray(input_position[t]) = Cur(b)
      /\ pc \in [Thread -> PCs] /\ offset \in [Thread -> Nat]
  BY <1>1, <1>2, TransitFacts
<1>4. NextSound(b)'
  BY <1>1, <1>3 DEF TransitInv, NextSound
<1>5. \A u : InNext(b, u)' = InNext(b, u)
  BY <1>1, <1>3 DEF InNext
<1>6. DOMAIN to_store = Thread /\ to_store[t] \subseteq Sids(nfa(b)) /\ SlotCount \in Nat
      /\ \A i \in Nat : i < SlotCount <=> i \in Slot
  BY <1>3, SharedTypes DEF IInv, TypeOK
<1>7. CASE active
  <2>1. pc'[t] = "store" /\ offset' = offset /\ to_store'[t] = Targets(t, s)
    BY <1>3, <1>6, <1>7 DEF Transit
  <2>2. Targets(t, s) = TargetsOf(b, s)
    BY <1>2, SymbolRead
  <2>3. s \in ActiveStates(b)
    BY <1>2, <1>3, <1>6, <1>7, CurrentActive
  <2>4. TargetsOf(b, s) \subseteq Sids(nfa(b))
    BY <1>2, <1>3, <2>3, WokenIs, WokenSane
  <2>5. \A i \in Slot : Through(b, i)' <=> Through(b, i)
    BY <1>1, <2>1, StoreThrough
  <2>6. TransitInv(b)'
    BY <1>1, <1>3, <1>4, <1>5, <2>5 DEF TransitInv
  <2>7. slots'[b][Cur(b)'][offset'[t]] = s
    BY <1>1, <1>3, <2>1
  <2> HIDE DEF s
  <2>8. Storing(t)'
    BY <1>3, <1>7, <2>1, <2>2, <2>7 DEF Storing
  <2> QED
    BY <1>1, <1>2, <2>1, <2>2, <2>4, <2>6, <2>8
<1>8. CASE ~active
  <2>1. to_store' = to_store /\ Loop(t, "transit", "sync3")
    BY <1>3, <1>8 DEF Transit
  <2>2. \/ offset[t] < SlotCount /\ offset'[t] = offset[t] + BlockDim /\ pc'[t] = "transit"
        \/ offset[t] >= SlotCount /\ offset'[t] = t[2] /\ pc'[t] = "sync3"
    BY <1>1, <1>3, <1>6, <2>1 DEF Loop
  <2>3. \A i \in Slot : Through(b, i)' <=> Through(b, i) \/ i = offset[t]
    BY <1>1, <2>2, LoopThrough
  <2>4. offset[t] \in Slot => s = Empty
    BY <1>3, <1>6, <1>8
  <2>5. TransitInv(b)'
    BY <1>1, <1>3, <1>4, <1>5, <2>3, <2>4 DEF TransitInv
  <2> QED
    BY <1>1, <1>2, <1>6, <2>1, <2>2, <2>5
<1> QED
  BY <1>7, <1>8

\* Storing a target: its slot of the next array is free, or has it already.
LEMMA StoreKeeps ==
    ASSUME IInv, NEW t \in Thread, Store(t)
    PROVE  /\ PhaseOf(t[1]) = 2 /\ TransitInv(t[1])'
           /\ pc'[t] = "store" /\ Storing(t)'
           /\ to_store'[t] \subseteq Sids(nfa(t[1]))
           /\ slots'[t[1]] \in [{0, 1} -> [Slot -> Sids(nfa(t[1])) \cup {Empty}]]
           /\ shrd_chunk' = shrd_chunk
<1> DEFINE b == t[1]
           s == slots[b][Cur(b)][offset[t]]
<1>1. ThreadStep(t) /\ pc[t] = "store" /\ pc' = pc /\ offset' = offset /\ shrd_chunk' = shrd_chunk
  BY DEF ThreadStep, Store
<1>2. /\ PhaseOf(b) = 2 /\ offset[t] \in Slot /\ s \in ActiveStates(b) /\ s # Empty
      /\ to_store[t] \subseteq TargetsOf(b, s) /\ TargetsOf(b, s) \subseteq Woken(b)
      /\ \A u \in TargetsOf(b, s) \ to_store[t] : InNext(b, u)
  BY <1>1, StoringFacts
<1>3. /\ b \in Block /\ TransitInv(b) /\ offset[t] \in Nat /\ PhaseOf(b)' = 2
      /\ Cur(b)' = Cur(b) /\ Nxt(b)' = Nxt(b) /\ group(b)' = group(b)
      /\ Woken(b)' = Woken(b) /\ \A u : TargetsOf(b, u)' = TargetsOf(b, u)
      /\ NextArray(input_position[t]) = Nxt(b) /\ Cur(b) \in {0, 1} /\ Nxt(b) = 1 - Cur(b)
  BY <1>1, <1>2, TransitFacts
<1>4. PICK e \in to_store[t] : /\ slots' = Stored(b, Nxt(b), group(b)[e], e)
                               /\ to_store' = [to_store EXCEPT ![t] = @ \ {e}]
  BY <1>3 DEF Store
<1>5. /\ DOMAIN slots = Block /\ slots[b] \in [{0, 1} -> [Slot -> Sids(nfa(b)) \cup {Empty}]]
      /\ DOMAIN to_store = Thread /\ to_store[t] \subseteq Sids(nfa(b))
      /\ \A i \in Nat : i < SlotCount <=> i \in Slot
  BY <1>3, SharedTypes DEF IInv, TypeOK
<1>6. e \in Woken(b) /\ e \in Sids(nfa(b)) /\ group(b)[e] \in Slot
  BY <1>2, <1>3, WokenSane
<1>7. /\ slots'[b] \in [{0, 1} -> [Slot -> Sids(nfa(b)) \cup {Empty}]]
      /\ slots'[b][Cur(b)] = slots[b][Cur(b)]
      /\ slots'[b][Nxt(b)] = [slots[b][Nxt(b)] EXCEPT ![group(b)[e]] = e]
  BY <1>3, <1>4, <1>5, <1>6 DEF Stored
<1>8. NextSound(b)'
  BY <1>3, <1>5, <1>6, <1>7 DEF TransitInv, NextSound
<1>9. \A u \in Woken(b) : InNext(b, u) => InNext(b, u)'
  BY <1>1, <1>2, <1>3, NextKept
<1>10. InNext(b, e)'
  BY <1>3, <1>5, <1>6, <1>7 DEF InNext
<1>11. \A i \in Slot : Through(b, i)' <=> Through(b, i)
  BY <1>1, StoreThrough
<1>12. TransitInv(b)'
  <2>1. ASSUME NEW i \in Slot, Through(b, i), slots[b][Cur(b)][i] # Empty,
               NEW u \in TargetsOf(b, slots[b][Cur(b)][i])
        PROVE  InNext(b, u)'
    <3>1. u \in Woken(b)
      BY <1>2, <1>3, <2>1, CurrentActive, WokenIs
    <3>2. InNext(b, u)
      BY <1>3, <2>1 DEF TransitInv
    <3> QED
      BY <1>9, <3>1, <3>2
  <2> QED
    BY <1>3, <1>7, <1>8, <1>11, <2>1 DEF TransitInv
<1>13. slots'[b][Cur(b)'][offset'[t]] = s
  BY <1>1, <1>3, <1>7
<1>14. to_store'[t] = to_store[t] \ {e}
  BY <1>4, <1>5
<1> HIDE DEF s
<1>15. \A u \in TargetsOf(b, s) \ to_store'[t] : InNext(b, u)'
  BY <1>2, <1>9, <1>10, <1>14
<1>16. Storing(t)'
  BY <1>1, <1>2, <1>3, <1>5, <1>13, <1>14, <1>15 DEF Storing
<1> QED
  BY <1>1, <1>2, <1>5, <1>7, <1>12, <1>14, <1>16

\* All targets of a slot are stored.
LEMMA NextSlotKeeps ==
    ASSUME IInv, NEW t \in Thread, NextSlot(t)
    PROVE  /\ PhaseOf(t[1]) = 2 /\ TransitInv(t[1])' /\ pc'[t] = "transit"
           /\ slots' = slots /\ shrd_chunk' = shrd_chunk /\ to_store' = to_store
<1> DEFINE b == t[1]
           s == slots[b][Cur(b)][offset[t]]
<1>1. /\ ThreadStep(t) /\ pc[t] = "store" /\ to_store[t] = {}
      /\ slots' = slots /\ shrd_chunk' = shrd_chunk /\ to_store' = to_store
  BY DEF ThreadStep, NextSlot
<1>2. /\ PhaseOf(b) = 2 /\ offset[t] \in Slot
      /\ \A u \in TargetsOf(b, s) \ to_store[t] : InNext(b, u)
  BY <1>1, StoringFacts
<1>3. /\ b \in Block /\ TransitInv(b) /\ offset[t] \in Nat /\ PhaseOf(b)' = 2
      /\ Cur(b)' = Cur(b) /\ Nxt(b)' = Nxt(b) /\ group(b)' = group(b)
      /\ Woken(b)' = Woken(b) /\ \A u : TargetsOf(b, u)' = TargetsOf(b, u)
      /\ pc \in [Thread -> PCs] /\ offset \in [Thread -> Nat]
  BY <1>1, <1>2, TransitFacts
<1>4. pc'[t] = "transit" /\ offset'[t] = offset[t] + BlockDim
  BY <1>3 DEF NextSlot
<1>5. offset[t] < SlotCount
  BY <1>2, <1>3, SharedTypes
<1>6. \A i \in Slot : Through(b, i)' <=> Through(b, i) \/ i = offset[t]
  BY <1>1, <1>4, <1>5, LoopThrough
<1>7. NextSound(b)' /\ \A u : InNext(b, u)' = InNext(b, u)
  BY <1>1, <1>3 DEF TransitInv, NextSound, InNext
<1>8. TransitInv(b)'
  BY <1>1, <1>2, <1>3, <1>6, <1>7 DEF TransitInv
<1> QED
  BY <1>1, <1>2, <1>4, <1>8

\* Reporting a slot of the next array.
LEMMA OutputKeeps ==
    ASSUME IInv, NEW t \in Thread, Output(t)
    PROVE  /\ PhaseOf(t[1]) = 3 /\ OutputInv(t[1])' /\ pc'[t] \in {"output", "sync4"}
           /\ slots' = slots /\ shrd_chunk' = shrd_chunk /\ to_store' = to_store
           /\ \/ matches' = matches /\ match_count' = match_count
              \/ \E s \in Sids(nfa(t[1])) :
                    /\ <<t[1], Pos(t[1]), s>> \notin matches
                    /\ matches' = matches \cup {<<t[1], Pos(t[1]), s>>}
                    /\ match_count' = match_count + 1
<1> DEFINE b == t[1]
           s == slots[b][Nxt(b)][offset[t]]
           hit == offset[t] < SlotCount /\ s \in nfa(b).report
           new == <<b, Pos(b), s>>
           After(i) == \/ pc'[Owner(b, i)] \in {"sync0", "sync2", "sync3", "sync4", "sync5"}
                       \/ i < offset'[Owner(b, i)]
<1>1. /\ ThreadStep(t) /\ pc[t] = "output"
      /\ slots' = slots /\ shrd_chunk' = shrd_chunk /\ to_store' = to_store
  BY DEF ThreadStep, Output, Loop
<1>2. /\ b \in Block /\ PhaseOf(b) = 3 /\ offset[t] \in Nat /\ input_position[t] = Pos(b)
      /\ pc \in [Thread -> PCs] /\ offset \in [Thread -> Nat]
  BY <1>1, PhaseFacts DEF ThreadInv, Control, IInv, TypeOK
<1>3. /\ OutputInv(b) /\ PhaseOf(b)' = 3 /\ Nxt(b)' = Nxt(b) /\ group(b)' = group(b)
      /\ Woken(b)' = Woken(b) /\ Pos(b)' = Pos(b) /\ nfa(b)' = nfa(b)
      /\ NextArray(input_position[t]) = Nxt(b)
  BY <1>1, <1>2, PlaceKept, WokenKept DEF IInv, BlockInv, Nxt
<1>4. /\ \A i \in Nat : i < SlotCount <=> i \in Slot
      /\ SlotCount \in Nat /\ nfa(b).report \subseteq Sids(nfa(b)) /\ Empty \notin Sids(nfa(b))
      /\ \A u \in Woken(b) : u \in Sids(nfa(b)) /\ group(b)[u] \in Slot
  BY <1>2, SharedTypes, BlockFacts, WokenSane
<1>5. \/ offset[t] < SlotCount /\ offset'[t] = offset[t] + BlockDim /\ pc'[t] = "output"
      \/ offset[t] >= SlotCount /\ offset'[t] = t[2] /\ pc'[t] = "sync4"
  BY <1>2, <1>4 DEF Output, Loop
<1>6. \A i \in Slot : After(i) <=> Through(b, i) \/ i = offset[t]
  <2>1. \A i \in Slot : Through(b, i)' <=> Through(b, i) \/ i = offset[t]
    BY <1>1, <1>5, LoopThrough
  <2> QED
    BY <2>1 DEF Through, Owner
<1>14. \A u : Through(b, group(b)[u])' <=> After(group(b)[u])
  BY <1>3 DEF Through, Owner
<1> HIDE DEF After
<1>7. offset[t] < SlotCount => ~Through(b, offset[t])
  BY <1>1, <1>5, LoopThrough
<1>8. /\ match_count' = IF hit THEN match_count + 1 ELSE match_count
      /\ matches' = IF hit THEN matches \cup {new} ELSE matches
  BY <1>2, <1>3 DEF Output
<1>9. hit => s \in Woken(b) /\ group(b)[s] = offset[t] /\ offset[t] \in Slot /\ s \in Sids(nfa(b))
  BY <1>2, <1>3, <1>4 DEF OutputInv, NextSound
<1>10. hit => new \notin matches
  <2>1. ASSUME hit, new \in matches PROVE FALSE
    <3>1. Through(b, group(b)[new[3]])
      BY <1>3, <2>1 DEF OutputInv
    <3> QED
      BY <1>7, <1>9, <2>1, <3>1
  <2> QED
    BY <2>1
<1>11. NextSound(b)' /\ (\A u \in Woken(b)' : InNext(b, u)')
  BY <1>1, <1>3 DEF OutputInv, NextSound, InNext
<1>12. ASSUME NEW m \in matches', m[1] = b, m[2] = Pos(b)
       PROVE  m[3] \in Woken(b) \cap nfa(b).report /\ Through(b, group(b)[m[3]])'
  <2>1. CASE m \in matches
    BY <1>3, <1>4, <1>6, <1>12, <1>14, <2>1 DEF OutputInv
  <2>2. CASE hit /\ m = new
    BY <1>6, <1>9, <1>14, <2>2
  <2> QED
    BY <1>8, <2>1, <2>2
<1>13. ASSUME NEW u \in Woken(b) \cap nfa(b).report, Through(b, group(b)[u])'
       PROVE  <<b, Pos(b), u>> \in matches'
  <2>1. group(b)[u] \in Slot /\ InNext(b, u)
    BY <1>3, <1>4 DEF OutputInv
  <2>2. CASE Through(b, group(b)[u])
    BY <1>3, <1>8, <2>2 DEF OutputInv
  <2>3. CASE group(b)[u] = offset[t]
    <3>1. hit /\ s = u
      BY <1>2, <1>4, <2>1, <2>3 DEF InNext
    <3> QED
      BY <1>8, <3>1
  <2> QED
    BY <1>6, <1>13, <1>14, <2>1, <2>2, <2>3
<1> HIDE DEF hit, new
<1>15. OutputInv(b)'
  BY <1>3, <1>11, <1>12, <1>13 DEF OutputInv
<1>16. CASE hit
  BY <1>1, <1>2, <1>5, <1>8, <1>9, <1>10, <1>15, <1>16 DEF new
<1>17. CASE ~hit
  BY <1>1, <1>2, <1>5, <1>8, <1>15, <1>17
<1> QED
  BY <1>16, <1>17

\* Moving a slot.
LEMMA SwapKeeps ==
    ASSUME IInv, NEW t \in Thread, Swap(t)
    PROVE  /\ PhaseOf(t[1]) = 4 /\ SwapInv(t[1])' /\ pc'[t] \in {"swap", "sync5"}
           /\ slots'[t[1]] \in [{0, 1} -> [Slot -> Sids(nfa(t[1])) \cup {Empty}]]
           /\ shrd_chunk' = shrd_chunk /\ to_store' = to_store
<1> DEFINE b == t[1]
<1>1. /\ ThreadStep(t) /\ shrd_chunk' = shrd_chunk /\ to_store' = to_store
      /\ b \in Block /\ offset[t] \in Nat
  BY PhaseFacts DEF ThreadStep, Swap
<1>2. /\ PhaseOf(b) = 4
      /\ offset[t] < SlotCount =>
            slots' = [slots EXCEPT ![b][0][offset[t]] = slots[b][1][offset[t]],
                                   ![b][1][offset[t]] = Empty]
      /\ offset[t] >= SlotCount => slots' = slots
      /\ \A i \in Slot : Through(b, i)' <=> Through(b, i) \/ i = offset[t]
  BY SwapMoves
<1>3. SwapInv(b)
  BY <1>1, <1>2 DEF IInv, BlockInv
<1>4. /\ DOMAIN slots = Block /\ slots[b] \in [{0, 1} -> [Slot -> Sids(nfa(b)) \cup {Empty}]]
      /\ SlotCount \in Nat /\ \A i \in Nat : i < SlotCount <=> i \in Slot
  BY <1>1, SharedTypes
<1>5. /\ slots'[b] \in [{0, 1} -> [Slot -> Sids(nfa(b)) \cup {Empty}]]
      /\ \A i \in Slot : slots'[b][1][i] = IF i = offset[t] THEN Empty ELSE slots[b][1][i]
  <2>1. CASE offset[t] < SlotCount
    <3>1. offset[t] \in Slot /\ slots[b][1][offset[t]] \in Sids(nfa(b)) \cup {Empty}
      BY <1>1, <1>4, <2>1
    <3> QED
      BY <1>1, <1>2, <1>4, <2>1, <3>1
  <2>2. CASE offset[t] >= SlotCount
    BY <1>1, <1>2, <1>4, <2>2 DEF Slot
  <2> QED
    BY <1>1, <1>4, <2>1, <2>2
<1>6. SwapInv(b)'
  BY <1>2, <1>3, <1>5 DEF SwapInv
<1>7. pc'[t] \in {"swap", "sync5"}
  BY DEF Swap, Loop, IInv, TypeOK
<1> QED
  BY <1>1, <1>2, <1>5, <1>6, <1>7

\* What a thread's step keeps of its block: its own place, what is in the slots, the
\* types of what it changes.
LEMMA OwnKept ==
    ASSUME IInv, NEW t \in Thread, ThreadStep(t)
    PROVE  /\ ThreadInv(t)'
           /\ PhaseOf(t[1])' = 0 => LoadInv(t[1])'
           /\ PhaseOf(t[1])' = 1 => ClearInv(t[1])'
           /\ PhaseOf(t[1])' = 2 => TransitInv(t[1])'
           /\ PhaseOf(t[1])' = 3 => OutputInv(t[1])'
           /\ PhaseOf(t[1])' = 4 => SwapInv(t[1])'
           /\ to_store'[t] \subseteq Sids(nfa(t[1]))
           /\ slots'[t[1]] \in [{0, 1} -> [Slot -> Sids(nfa(t[1])) \cup {Empty}]]
           /\ shrd_chunk'[t[1]] \in [Tid -> Symbol]
           /\ IF Output(t) THEN \/ matches' = matches /\ match_count' = match_count
                                \/ \E s \in Sids(nfa(t[1])) :
                                      /\ <<t[1], Pos(t[1]), s>> \notin matches
                                      /\ matches' = matches \cup {<<t[1], Pos(t[1]), s>>}
                                      /\ match_count' = match_count + 1
              ELSE matches' = matches /\ match_count' = match_count
<1> DEFINE b == t[1]
<1>1. /\ b \in Block /\ Control(t)' /\ PhaseOf(b)' = PhaseOf(b) /\ job' = job
      /\ to_store[t] \subseteq Sids(nfa(b)) /\ ThreadInv(t)
      /\ slots[b] \in [{0, 1} -> [Slot -> Sids(nfa(b)) \cup {Empty}]]
      /\ shrd_chunk[b] \in [Tid -> Symbol]
      /\ Pos(b)' = Pos(b) /\ input(b)' = input(b)
  BY OwnControl, PhaseFacts, PlaceKept, SharedTypes, ThreadMoving DEF ThreadMoves, IInv, TypeOK
<1>2. HasRead(t) /\ shrd_chunk' = shrd_chunk => HasRead(t)'
  BY <1>1 DEF HasRead
<1>3. pc[t] = "sync1" => FALSE
  BY DEF ThreadStep, Load, ReadChunk, ClearNext, Transit, Store, NextSlot, Output, Swap, Loop
<1>4. ThreadInv(t)' <=> /\ Control(t)'
                        /\ pc'[t] = "store" => Storing(t)'
                        /\ job.chunked /\ (pc'[t] = "sync1" \/ PhaseOf(b) \in {2, 3, 4}) => HasRead(t)'
  BY <1>1 DEF ThreadInv
<1>5. job.chunked /\ PhaseOf(b) \in {2, 3, 4} => HasRead(t)
  BY <1>1 DEF ThreadInv
<1>6. CASE Load(t)
  <2>1. matches' = matches /\ match_count' = match_count /\ ~Output(t)
    BY <1>6 DEF Load, Output, Loop
  <2> QED
    BY <1>1, <1>4, <1>6, <2>1, LoadKeeps
<1>7. CASE ReadChunk(t)
  <2>1. matches' = matches /\ match_count' = match_count /\ ~Output(t)
    BY <1>7 DEF ReadChunk, Output, Loop
  <2> QED
    BY <1>1, <1>4, <1>7, <2>1, ReadKeeps
<1>8. CASE ClearNext(t)
  <2>1. matches' = matches /\ match_count' = match_count /\ ~Output(t)
    BY <1>8 DEF ClearNext, Output, Loop
  <2> QED
    BY <1>1, <1>4, <1>8, <2>1, ClearKeeps
<1>9. CASE Transit(t)
  <2>1. matches' = matches /\ match_count' = match_count /\ ~Output(t)
    BY <1>9 DEF Transit, Output, Loop
  <2>2. /\ PhaseOf(b) = 2 /\ TransitInv(b)' /\ (pc'[t] = "store" => Storing(t)')
        /\ to_store'[t] \subseteq Sids(nfa(b)) /\ slots' = slots /\ shrd_chunk' = shrd_chunk
    BY <1>9, TransitKeeps
  <2> QED
    BY <1>1, <1>2, <1>4, <1>5, <2>1, <2>2
<1>10. CASE Store(t)
  <2>1. matches' = matches /\ match_count' = match_count /\ ~Output(t)
    BY <1>10 DEF Store, Output, Loop
  <2> QED
    BY <1>1, <1>2, <1>4, <1>5, <1>10, <2>1, StoreKeeps
<1>11. CASE NextSlot(t)
  <2>1. matches' = matches /\ match_count' = match_count /\ ~Output(t)
    BY <1>11 DEF NextSlot, Output, Loop
  <2> QED
    BY <1>1, <1>2, <1>4, <1>5, <1>11, <2>1, NextSlotKeeps
<1>12. CASE Output(t)
  BY <1>1, <1>2, <1>4, <1>5, <1>12, OutputKeeps
<1>13. CASE Swap(t)
  <2>1. matches' = matches /\ match_count' = match_count /\ ~Output(t)
    BY <1>13 DEF Swap, Output, Loop
  <2> QED
    BY <1>1, <1>2, <1>4, <1>5, <1>13, <2>1, SwapKeeps
<1> QED
  BY <1>6, <1>7, <1>8, <1>9, <1>10, <1>11, <1>12, <1>13 DEF ThreadStep

\* The other blocks are as they were.
LEMMA ElsewhereKept ==
    ASSUME IInv, NEW t \in Thread, ThreadStep(t), NEW d \in Block, d # t[1]
    PROVE  /\ PhaseOf(d)' = 0 => LoadInv(d)'
           /\ PhaseOf(d)' = 1 => ClearInv(d)'
           /\ PhaseOf(d)' = 2 => TransitInv(d)'
           /\ PhaseOf(d)' = 3 => OutputInv(d)'
           /\ PhaseOf(d)' = 4 => SwapInv(d)'
<1>1. /\ PhaseOf(d)' = PhaseOf(d) /\ Pos(d)' = Pos(d) /\ Cur(d)' = Cur(d) /\ Nxt(d)' = Nxt(d)
      /\ nfa(d)' = nfa(d) /\ group(d)' = group(d)
      /\ slots'[d] = slots[d] /\ job' = job
      /\ Woken(d)' = Woken(d) /\ \A s : TargetsOf(d, s)' = TargetsOf(d, s)
  BY PlaceKept, WokenKept, ThreadMoving DEF ThreadMoves
<1> DEFINE After(i) == \/ pc'[Owner(d, i)] \in {"sync0", "sync2", "sync3", "sync4", "sync5"}
                       \/ i < offset'[Owner(d, i)]
<1>2. \A i \in Slot : After(i) <=> Through(d, i)
  <2>1. \A i \in Slot : Owner(d, i) # t
    BY SlotFacts
  <2>2. \A i \in Slot : Through(d, i)' = Through(d, i)
    BY <2>1, PlaceKept
  <2> QED
    BY <2>2 DEF Through, Owner
<1>3. (\A i : Through(d, i)' <=> After(i)) /\ (\A u : Through(d, group(d)[u])' <=> After(group(d)[u]))
  BY <1>1 DEF Through, Owner
<1> HIDE DEF After
<1>4. \A m : m[1] = d => (m \in matches' <=> m \in matches)
  BY ThreadMoving DEF ThreadMoves
<1>5. /\ PhaseOf(d) = 0 => LoadInv(d)
      /\ PhaseOf(d) = 1 => ClearInv(d)
      /\ PhaseOf(d) = 2 => TransitInv(d)
      /\ PhaseOf(d) = 3 => OutputInv(d)
      /\ PhaseOf(d) = 4 => SwapInv(d)
  BY DEF IInv, BlockInv
<1>6. PhaseOf(d) = 0 => LoadInv(d)'
  <2>1. InitialSlots(d)' = InitialSlots(d)
    BY <1>1 DEF InitialSlots
  <2> QED
    BY <1>1, <1>2, <1>3, <1>5, <2>1 DEF LoadInv
<1>7. PhaseOf(d) = 1 => ClearInv(d)'
  BY <1>1, <1>2, <1>3, <1>5 DEF ClearInv
<1>8. /\ NextSound(d) => NextSound(d)'
      /\ \A u : InNext(d, u)' <=> InNext(d, u)
  BY <1>1 DEF NextSound, InNext
<1>9. PhaseOf(d) = 2 => TransitInv(d)'
  BY <1>1, <1>2, <1>3, <1>5, <1>8 DEF TransitInv
<1>10. ASSUME PhaseOf(d) = 3 PROVE OutputInv(d)'
  <2>1. \A u \in Woken(d) : group(d)[u] \in Slot
    BY <1>10, WokenSane
  <2>2. OutputInv(d)
    BY <1>5, <1>10
  <2>3. ASSUME NEW m \in matches', m[1] = d, m[2] = Pos(d)
        PROVE  m[3] \in Woken(d) \cap nfa(d).report /\ Through(d, group(d)[m[3]])'
    BY <1>2, <1>3, <1>4, <2>1, <2>2, <2>3 DEF OutputInv
  <2>4. ASSUME NEW u \in Woken(d) \cap nfa(d).report, Through(d, group(d)[u])'
        PROVE  <<d, Pos(d), u>> \in matches'
    BY <1>2, <1>3, <1>4, <2>1, <2>2, <2>4 DEF OutputInv
  <2> QED
    BY <1>1, <1>8, <2>2, <2>3, <2>4 DEF OutputInv
<1>11. PhaseOf(d) = 4 => SwapInv(d)'
  BY <1>1, <1>2, <1>3, <1>5 DEF SwapInv
<1> QED
  BY <1>1, <1>6, <1>7, <1>9, <1>10, <1>11

\* A thread's step keeps the invariant of every block.
LEMMA ThreadStepKeeps ==
    ASSUME IInv, NEW t \in Thread, ThreadStep(t), NEW d \in Block
    PROVE  BlockInv(d)'
<1>1. \A u \in ThreadsOf(d) : ThreadInv(u)'
  BY ThreadFacts, OtherThreads, OwnKept
<1>2. Positions(d)'
  <2>1. PhaseOf(d)' = PhaseOf(d) /\ Pos(d)' = Pos(d) /\ input(d)' = input(d)
    BY PlaceKept
  <2>2. Positions(d)
    BY DEF IInv, BlockInv
  <2>3. ASSUME NEW m \in matches', m[1] = d
        PROVE  m[2] < Pos(d) \/ (m[2] = Pos(d) /\ PhaseOf(d) \in {3, 4})
    <3>1. CASE m \in matches
      BY <2>2, <2>3, <3>1 DEF Positions
    <3>2. CASE m \notin matches
      <4>1. d = t[1] /\ m[2] = Pos(d) /\ pc[t] = "output"
        BY <2>3, <3>2, ThreadMoving DEF ThreadMoves
      <4> QED
        BY <4>1, PhaseFacts
    <3> QED
      BY <3>1, <3>2
  <2> QED
    BY <2>1, <2>2, <2>3 DEF Positions
<1>3. Sane(d, ActiveStates(d))'
  BY WokenKept
<1>4. /\ PhaseOf(d)' = 0 => LoadInv(d)'
      /\ PhaseOf(d)' = 1 => ClearInv(d)'
      /\ PhaseOf(d)' = 2 => TransitInv(d)'
      /\ PhaseOf(d)' = 3 => OutputInv(d)'
      /\ PhaseOf(d)' = 4 => SwapInv(d)'
  BY OwnKept, ElsewhereKept
<1> QED
  BY <1>1, <1>2, <1>3, <1>4 DEF BlockInv

\* It keeps the types and the accounts.
LEMMA ThreadStepTypes ==
    ASSUME IInv, NEW t \in Thread, ThreadStep(t)
    PROVE  TypeOK' /\ Shapes' /\ Accounts'
<1>1. /\ ThreadMoves(t) /\ t[1] \in Block /\ \A b \in Block : nfa(b)' = nfa(b) /\ group(b)' = group(b)
      /\ TypeOK /\ Shapes /\ Accounts
  BY ThreadMoving, PlaceKept, PhaseFacts DEF IInv
<1>2. /\ job' \in Jobs /\ pc' \in [Thread -> PCs] /\ input_position' \in [Thread -> Nat]
      /\ offset' \in [Thread -> Nat] /\ host' \in {"waiting", "printed", "aborted"} /\ Shapes'
  BY <1>1 DEF ThreadMoves, TypeOK, Shapes
<1>3. \A u \in Thread : to_store'[u] \subseteq Sids(nfa(u[1])')
  <2>1. ASSUME NEW u \in Thread PROVE to_store'[u] \subseteq Sids(nfa(u[1]))
    <3>1. CASE u = t
      BY <3>1, OwnKept
    <3>2. CASE u # t
      BY <1>1, <3>2 DEF ThreadMoves, TypeOK
    <3> QED
      BY <3>1, <3>2
  <2> QED
    BY <1>1, <2>1, ThreadFacts
<1>4. \A b \in Block : /\ slots'[b] \in [{0, 1} -> [Slot -> Sids(nfa(b)') \cup {Empty}]]
                       /\ shrd_chunk'[b] \in [Tid -> Symbol]
  <2>1. ASSUME NEW b \in Block
        PROVE  /\ slots'[b] \in [{0, 1} -> [Slot -> Sids(nfa(b)) \cup {Empty}]]
               /\ shrd_chunk'[b] \in [Tid -> Symbol]
    <3>1. CASE b = t[1]
      BY <3>1, OwnKept
    <3>2. CASE b # t[1]
      BY <1>1, <3>2 DEF ThreadMoves, TypeOK
    <3> QED
      BY <3>1, <3>2
  <2> QED
    BY <1>1, <2>1
<1>5. ASSUME NEW b \in Block, NEW i \in Slot,
             pc'[Lead(b)] \notin {"load", "sync0"}, Latest(b, i)' # Empty
      PROVE  group(b)[Latest(b, i)'] = i
  <2>1. PhaseOf(b) # 0
    <3>1. PhaseOf(b)' = PhaseOf(b)
      BY PlaceKept
    <3> QED
      BY <1>5, <3>1 DEF PhaseOf, Phase, Lead
  <2>2. Latest(b, i)' = Latest(b, i)
    BY <2>1, ActiveKept
  <2>3. pc[Lead(b)] \notin {"load", "sync0"}
    BY <2>1 DEF PhaseOf, Phase
  <2> QED
    BY <1>1, <1>5, <2>2, <2>3 DEF TypeOK, Latest
<1>6. /\ \A m \in matches' : m[1] \in Block /\ m[2] \in Nat /\ m[3] \in Sids(nfa(m[1])')
      /\ match_count' \in Nat
      /\ matches' \in SUBSET (Block \X Nat \X Int)
      /\ IsFiniteSet(matches') /\ match_count' = Cardinality(matches')
  <2>1. /\ \A m \in matches : m[1] \in Block /\ m[2] \in Nat /\ m[3] \in Sids(nfa(m[1]))
        /\ match_count \in Nat
        /\ matches \in SUBSET (Block \X Nat \X Int)
        /\ IsFiniteSet(matches) /\ match_count = Cardinality(matches)
    BY <1>1 DEF TypeOK, Accounts
  <2>2. CASE matches' = matches /\ match_count' = match_count
    BY <1>1, <2>1, <2>2
  <2>3. CASE \E s \in Sids(nfa(t[1])) : /\ <<t[1], Pos(t[1]), s>> \notin matches
                                        /\ matches' = matches \cup {<<t[1], Pos(t[1]), s>>}
                                        /\ match_count' = match_count + 1
    <3>1. PICK s \in Sids(nfa(t[1])) : /\ <<t[1], Pos(t[1]), s>> \notin matches
                                       /\ matches' = matches \cup {<<t[1], Pos(t[1]), s>>}
                                       /\ match_count' = match_count + 1
      BY <2>3
    <3>2. Pos(t[1]) \in Nat /\ s \in Int /\ t[1] \in Block
      BY <1>1, ArrayFacts, BlockFacts DEF TypeOK
    <3>3. IsFiniteSet(matches') /\ Cardinality(matches') = match_count + 1
      BY <2>1, <3>1, FS_AddElement
    <3> QED
      BY <1>1, <2>1, <3>1, <3>2, <3>3
  <2> QED
    BY <2>2, <2>3, OwnKept
<1>7. TypeOK'
  <2>1. \A b \in Block, i \in Slot :
           LET s == slots[b][LatestArray(b, i)][i]
           IN  (pc[Lead(b)] \notin {"load", "sync0"} /\ s # Empty => group(b)[s] = i)'
    BY <1>1, <1>5 DEF Latest, Lead
  <2> QED
    BY <1>2, <1>3, <1>4, <1>6, <2>1 DEF TypeOK
<1>8. Accounts'
  <2>1. host = "waiting"
    <3>1. pc[t] # "done"
      BY DEF ThreadStep, Load, ReadChunk, ClearNext, Transit, Store, NextSlot, Output, Swap, Loop
    <3> QED
      BY <1>1, <3>1 DEF Accounts
  <2>2. host' = "waiting"
    BY <1>1, <2>1 DEF ThreadMoves
  <2> QED
    BY <1>6, <2>2 DEF Accounts
<1> QED
  BY <1>2, <1>7, <1>8

-----------------------------------------------------------------------------
(* The barriers.                                                             *)

\* The threads of block b are released from a barrier to the symbol at position p; the
\* other blocks are not concerned.
Released(b, at, to, p) ==
    /\ Barrier(b, at, to)
    /\ input_position' = [t \in Thread |-> IF t[1] = b THEN p ELSE input_position[t]]
    /\ at \in {"sync0", "sync1", "sync2", "sync3", "sync4", "sync5"}
    /\ to \in {"sync1", "read", "clear", "transit", "output", "swap", "done"}
    /\ p \in Nat

\* Where no thread, slot or symbol of a block has changed its invariant is kept.
LEMMA BlockSame ==
    ASSUME IInv, NEW d \in Block,
           job' = job, matches' = matches, slots'[d] = slots[d], shrd_chunk'[d] = shrd_chunk[d],
           \A u \in ThreadsOf(d) : /\ pc'[u] = pc[u] /\ offset'[u] = offset[u]
                                   /\ to_store'[u] = to_store[u]
                                   /\ input_position'[u] = input_position[u]
    PROVE  /\ BlockInv(d)' /\ ActiveStates(d)' = ActiveStates(d) /\ (position[d])' = position[d]
           /\ \A i \in Slot : Latest(d, i)' = Latest(d, i)
           /\ PhaseOf(d)' = PhaseOf(d) /\ nfa(d)' = nfa(d) /\ group(d)' = group(d)
<1>1. /\ Lead(d) \in ThreadsOf(d) /\ \A i \in Slot : Owner(d, i) \in ThreadsOf(d)
      /\ \A u \in ThreadsOf(d) : u[1] = d
  BY ThreadFacts, SlotFacts
<1>2. /\ nfa(d)' = nfa(d) /\ group(d)' = group(d) /\ input(d)' = input(d)
      /\ \A p : CurrentArray(p)' = CurrentArray(p)
  BY DEF nfa, group, input, CurrentArray
<1>3. /\ PhaseOf(d)' = PhaseOf(d) /\ Pos(d)' = Pos(d) /\ (Swapping(d)' <=> Swapping(d))
      /\ (position[d])' = position[d]
      /\ Cur(d)' = Cur(d) /\ Nxt(d)' = Nxt(d)
  BY <1>1 DEF PhaseOf, Pos, Swapping, position, Lead, Cur, Nxt, CurrentArray, NextArray
<1>4. \A i \in Slot : LatestArray(d, i)' = LatestArray(d, i)
  BY <1>1, <1>3 DEF LatestArray, Owner, CurrentArray
<1>5. \A i \in Slot : Latest(d, i)' = Latest(d, i)
  BY <1>4 DEF Latest
<1>6. ActiveStates(d)' = ActiveStates(d)
  <2>1. pc'[Lead(d)] = pc[Lead(d)]
    BY <1>1
  <2>2. ActiveStates(d) = IF pc[Lead(d)] \in {"load", "sync0"} THEN nfa(d).start
                          ELSE { Latest(d, i) : i \in Slot } \ {Empty}
    BY DEF ActiveStates, Latest
  <2>3. ActiveStates(d)' = IF pc'[Lead(d)] \in {"load", "sync0"} THEN nfa(d).start
                           ELSE { Latest(d, i)' : i \in Slot } \ {Empty}
    BY <1>2 DEF ActiveStates, Latest, Lead
  <2> QED
    BY <1>5, <2>1, <2>2, <2>3
<1>7. Woken(d)' = Woken(d) /\ \A s : TargetsOf(d, s)' = TargetsOf(d, s)
  BY <1>2, <1>3, <1>6 DEF Woken, TargetsOf
<1>8. BlockInv(d)
  BY DEF IInv
<1> DEFINE After(i) == \/ pc'[Owner(d, i)] \in {"sync0", "sync2", "sync3", "sync4", "sync5"}
                       \/ i < offset'[Owner(d, i)]
<1>9. \A i \in Slot : After(i) <=> Through(d, i)
  BY <1>1 DEF Through
<1>10. (\A i : Through(d, i)' <=> After(i)) /\ (\A u : Through(d, group(d)[u])' <=> After(group(d)[u]))
  BY <1>2 DEF Through, Owner
<1> HIDE DEF After
<1>11. /\ NextSound(d) => NextSound(d)'
       /\ \A u : InNext(d, u)' <=> InNext(d, u)
  BY <1>2, <1>3, <1>7 DEF NextSound, InNext
<1>12. ASSUME NEW u \in ThreadsOf(d) PROVE ThreadInv(u)'
  <2>1. ThreadInv(u) /\ u[1] = d
    BY <1>1, <1>8 DEF BlockInv
  <2>2. Control(u)'
    BY <1>3, <2>1 DEF ThreadInv, Control
  <2>3. pc[u] = "store" => Storing(u)'
    BY <1>3, <1>7, <1>11, <2>1 DEF ThreadInv, Storing
  <2>4. HasRead(u) => HasRead(u)'
    BY <1>2, <1>3, <2>1 DEF HasRead
  <2> QED
    BY <1>3, <2>1, <2>2, <2>3, <2>4 DEF ThreadInv
<1>13. Positions(d)' /\ Sane(d, ActiveStates(d))'
  BY <1>2, <1>3, <1>6, <1>8 DEF BlockInv, Positions, Sane
<1>14. PhaseOf(d) = 0 => LoadInv(d)'
  <2>1. InitialSlots(d)' = InitialSlots(d)
    BY <1>2 DEF InitialSlots
  <2> QED
    BY <1>8, <1>9, <1>10, <2>1 DEF BlockInv, LoadInv
<1>15. PhaseOf(d) = 1 => ClearInv(d)'
  BY <1>3, <1>8, <1>9, <1>10 DEF BlockInv, ClearInv
<1>16. PhaseOf(d) = 2 => TransitInv(d)'
  BY <1>3, <1>7, <1>8, <1>9, <1>10, <1>11 DEF BlockInv, TransitInv
<1>17. ASSUME PhaseOf(d) = 3 PROVE OutputInv(d)'
  <2>1. \A u \in Woken(d) : group(d)[u] \in Slot
    BY <1>17, WokenSane
  <2>2. OutputInv(d)
    BY <1>8, <1>17 DEF BlockInv
  <2>3. ASSUME NEW m \in matches', m[1] = d, m[2] = Pos(d)
        PROVE  m[3] \in Woken(d) \cap nfa(d).report /\ Through(d, group(d)[m[3]])'
    BY <1>9, <1>10, <2>1, <2>2, <2>3 DEF OutputInv
  <2>4. ASSUME NEW u \in Woken(d) \cap nfa(d).report, Through(d, group(d)[u])'
        PROVE  <<d, Pos(d), u>> \in matches'
    BY <1>9, <1>10, <2>1, <2>2, <2>4 DEF OutputInv
  <2> QED
    BY <1>2, <1>3, <1>7, <1>11, <2>2, <2>3, <2>4 DEF OutputInv
<1>18. PhaseOf(d) = 4 => SwapInv(d)'
  BY <1>8, <1>9, <1>10 DEF BlockInv, SwapInv
<1>19. BlockInv(d)'
  BY <1>3, <1>12, <1>13, <1>14, <1>15, <1>16, <1>17, <1>18 DEF BlockInv
<1> QED
  BY <1>2, <1>3, <1>5, <1>6, <1>19

\* Where the threads of a block come from and where they are released to.
LEMMA ReleasedFacts ==
    ASSUME IInv, NEW b \in Block, NEW at, NEW to, NEW p, Released(b, at, to, p)
    PROVE  /\ \A t \in ThreadsOf(b) : pc[t] = at
           /\ PhaseOf(b) = Phase(at)
           /\ at # "sync1" => \A i \in Slot : Through(b, i)
           /\ PhaseOf(b)' = Phase(to) /\ Pos(b)' = p
           /\ job' = job /\ slots' = slots /\ matches' = matches
           /\ nfa(b)' = nfa(b) /\ group(b)' = group(b) /\ input(b)' = input(b)
           /\ Cur(b)' = CurrentArray(p) /\ Nxt(b)' = NextArray(p)
           /\ (position[b])' = p + IF to = "swap" THEN 1 ELSE 0
           /\ \A i \in Slot : ~Through(b, i)'
           /\ \A i \in Slot : Latest(b, i)' = slots[b][IF to = "swap" THEN 1 ELSE CurrentArray(p)][i]
           /\ ActiveStates(b)' = { Latest(b, i)' : i \in Slot } \ {Empty}
<1>1. /\ Lead(b) \in ThreadsOf(b) /\ Lead(b) \in Thread /\ ThreadsOf(b) \subseteq Thread
      /\ Lead(b)[1] = b
  BY ThreadFacts
<1>2. /\ \A t \in ThreadsOf(b) : pc[t] = at
      /\ \A t \in ThreadsOf(b) : pc'[t] = to /\ offset'[t] = offset[t] /\ input_position'[t] = p
      /\ job' = job /\ slots' = slots /\ matches' = matches
  BY ThreadFacts DEF Released, Barrier
<1>3. PhaseOf(b) = Phase(at) /\ PhaseOf(b)' = Phase(to) /\ Pos(b)' = p
  BY <1>1, <1>2 DEF PhaseOf, Pos, Lead
<1>4. /\ nfa(b)' = nfa(b) /\ group(b)' = group(b) /\ input(b)' = input(b)
      /\ Cur(b)' = CurrentArray(p) /\ Nxt(b)' = NextArray(p)
  BY <1>2, <1>3 DEF nfa, group, input, Cur, Nxt, CurrentArray, NextArray
<1>5. ASSUME NEW i \in Slot PROVE Owner(b, i) \in ThreadsOf(b) /\ i \in Nat /\ offset[Owner(b, i)] <= i
                                  /\ offset[Owner(b, i)] \in Nat
  <2>1. /\ Owner(b, i) \in ThreadsOf(b) /\ Owner(b, i) \in Thread /\ Owner(b, i)[2] = i % BlockDim
        /\ i \in Nat /\ i % BlockDim \in Tid
    BY SlotFacts, ThreadFacts
  <2>2. pc[Owner(b, i)] = at
    BY <1>2, <2>1
  <2>3. offset[Owner(b, i)] = i % BlockDim
    BY <2>1, <2>2, PhaseFacts DEF Released, ThreadInv, Control
  <2>4. i % BlockDim <= i /\ i % BlockDim \in Nat
    BY <2>1, SlotFacts, ThreadFacts
  <2> QED
    BY <2>1, <2>3, <2>4
<1>6. at # "sync1" => \A i \in Slot : Through(b, i)
  BY <1>2, <1>5 DEF Through, Released
<1>7. ASSUME NEW i \in Slot PROVE ~Through(b, i)'
  <2>1. pc'[Owner(b, i)] = to /\ ~(i < offset'[Owner(b, i)])
    BY <1>2, <1>5
  <2> QED
    BY <2>1 DEF Through, Owner, Released
<1>8. Swapping(b)' <=> to = "swap"
  BY <1>1, <1>2 DEF Swapping, Lead, Released
<1>9. (position[b])' = p + IF to = "swap" THEN 1 ELSE 0
  BY <1>1, <1>2, <1>8 DEF position, Lead
<1>10. ASSUME NEW i \in Slot
       PROVE  Latest(b, i)' = slots[b][IF to = "swap" THEN 1 ELSE CurrentArray(p)][i]
  <2>1. pc'[Owner(b, i)] = to /\ offset'[Owner(b, i)] <= i
    BY <1>2, <1>5
  <2>2. LatestArray(b, i)' = IF to = "swap" THEN 1 ELSE CurrentArray(p)
    <3>1. CASE to = "swap"
      BY <1>8, <2>1, <3>1 DEF LatestArray, Owner
    <3>2. CASE to # "swap"
      <4>1. LatestArray(b, i)' = CurrentArray(position[b])'
        BY <1>8, <3>2 DEF LatestArray
      <4>2. (position[b])' = p
        BY <1>9, <3>2 DEF Released
      <4> QED
        BY <1>2, <3>2, <4>1, <4>2 DEF CurrentArray
    <3> QED
      BY <3>1, <3>2
  <2> QED
    BY <1>2, <2>2 DEF Latest
<1>11. ActiveStates(b)' = { Latest(b, i)' : i \in Slot } \ {Empty}
  <2>1. pc'[Lead(b)] \notin {"load", "sync0"}
    BY <1>1, <1>2 DEF Released
  <2> QED
    BY <2>1 DEF ActiveStates, Latest, Lead
<1> QED
  BY <1>2, <1>3, <1>4, <1>6, <1>7, <1>9, <1>10, <1>11

\* Each thread is where the barrier releases it to.
LEMMA ReleasedThreads ==
    ASSUME IInv, NEW b \in Block, NEW at, NEW to, NEW p, Released(b, at, to, p),
           to = "clear" => ~job.chunked, to \in {"read", "swap"} => job.chunked,
           job.chunked /\ (to = "sync1" \/ Phase(to) \in {2, 3, 4}) =>
              \A t \in ThreadsOf(b) : HasRead(t)'
    PROVE  \A t \in ThreadsOf(b) : ThreadInv(t)'
<1> SUFFICES ASSUME NEW t \in ThreadsOf(b) PROVE ThreadInv(t)'
  OBVIOUS
<1>1. /\ t \in Thread /\ t[1] = b /\ t[2] \in Tid /\ t[2] % BlockDim = t[2]
  BY ThreadFacts, SlotFacts
<1>2. /\ PhaseOf(b)' = Phase(to) /\ Pos(b)' = p /\ job' = job /\ pc[t] = at
  BY ReleasedFacts
<1>3. pc'[t] = to /\ offset'[t] = offset[t] /\ input_position'[t] = p
  BY <1>1 DEF Released, Barrier
<1>4. offset[t] = t[2]
  BY <1>1, <1>2, PhaseFacts DEF Released, ThreadInv, Control
<1>5. Control(t)'
  BY <1>1, <1>2, <1>3, <1>4 DEF Control, Released
<1>6. pc'[t] # "store"
  BY <1>3 DEF Released
<1> QED
  BY <1>1, <1>2, <1>3, <1>5, <1>6 DEF ThreadInv

\* What has been read of a chunk stays in it.
LEMMA ReadStays ==
    ASSUME IInv, NEW b \in Block, NEW at, NEW to, NEW p, Released(b, at, to, p),
           Base(p) = Base(Pos(b)), NEW t \in ThreadsOf(b), HasRead(t)
    PROVE  HasRead(t)'
<1>1. t[1] = b /\ Pos(b)' = p /\ input(b)' = input(b)
  BY ThreadFacts, ReleasedFacts
<1>2. shrd_chunk' = shrd_chunk
  BY DEF Released, Barrier
<1>3. Base(Pos(b))' = Base(Pos(b))
  BY <1>1 DEF Base
<1> QED
  BY <1>1, <1>2, <1>3 DEF HasRead

\* Where a symbol begins, or the kernel ends.
LEMMA StartFacts ==
    ASSUME IInv, NEW b \in Block, NEW p \in Nat, p <= Len(input(b))
    PROVE  /\ LoopTest(b, p) \in {"sync1", "read", "transit", "done"}
           /\ LoopTest(b, p) = "sync1" => ~job.chunked
           /\ LoopTest(b, p) = "read" => job.chunked
           /\ LoopTest(b, p) = "transit" => job.chunked /\ p # Base(p)
           /\ LoopTest(b, p) = "done" => p = Len(input(b))
           /\ LoopTest(b, p) # "done" => p < Len(input(b))
<1>1. Len(input(b)) \in Nat
  BY BlockFacts DEF IInv, TypeOK
<1>2. SymbolStart(p) \in {"sync1", "read", "transit"}
  BY DEF SymbolStart
<1>3. /\ SymbolStart(p) = "sync1" => ~job.chunked
      /\ SymbolStart(p) = "read" => job.chunked
      /\ SymbolStart(p) = "transit" => job.chunked /\ p # Base(p)
  BY DEF SymbolStart
<1> QED
  BY <1>1, <1>2, <1>3 DEF LoopTest

\* A block released to a symbol, with the states of S in the slots of what is the
\* current array then.
LEMMA SymbolBegins ==
    ASSUME IInv, NEW b \in Block, NEW at, NEW p, p <= Len(input(b)),
           Released(b, at, LoopTest(b, p), p),
           NEW S, Sane(b, S),
           { slots[b][CurrentArray(p)][i] : i \in Slot } \ {Empty} = S,
           \A i \in Slot : slots[b][CurrentArray(p)][i] # Empty =>
                              group(b)[slots[b][CurrentArray(p)][i]] = i,
           job.chunked => \A i \in Slot : slots[b][1][i] = Empty,
           job.chunked /\ p # Base(p) => \A t \in ThreadsOf(b) : HasRead(t)',
           \A m \in matches : m[1] = b => m[2] < p
    PROVE  /\ BlockInv(b)' /\ ActiveStates(b)' = S /\ (position[b])' = p
           /\ \A i \in Slot : Latest(b, i)' # Empty => group(b)[Latest(b, i)'] = i
<1> DEFINE to == LoopTest(b, p)
<1>1. p \in Nat
  BY DEF Released
<1>2. /\ to \in {"sync1", "read", "transit", "done"}
      /\ to = "sync1" => ~job.chunked
      /\ to = "read" => job.chunked
      /\ to = "transit" => job.chunked /\ p # Base(p)
      /\ to = "done" => p = Len(input(b))
      /\ to # "done" => p < Len(input(b))
  BY <1>1, StartFacts
<1> HIDE DEF to
<1>3. Released(b, at, to, p)
  BY DEF to
<1>4. /\ PhaseOf(b)' = Phase(to) /\ Pos(b)' = p
      /\ job' = job /\ slots' = slots /\ matches' = matches
      /\ nfa(b)' = nfa(b) /\ group(b)' = group(b) /\ input(b)' = input(b)
      /\ Nxt(b)' = NextArray(p)
      /\ (position[b])' = p + IF to = "swap" THEN 1 ELSE 0
      /\ \A i \in Slot : ~Through(b, i)'
      /\ \A i \in Slot : Latest(b, i)' = slots[b][IF to = "swap" THEN 1 ELSE CurrentArray(p)][i]
      /\ ActiveStates(b)' = { Latest(b, i)' : i \in Slot } \ {Empty}
  BY <1>3, ReleasedFacts
<1>5. /\ (position[b])' = p
      /\ \A i \in Slot : Latest(b, i)' = slots[b][CurrentArray(p)][i]
  BY <1>1, <1>2, <1>4
<1>6. ActiveStates(b)' = S
  BY <1>4, <1>5
<1>7. Sane(b, ActiveStates(b))'
  BY <1>4, <1>6 DEF Sane
<1>8. Phase(to) \in {1, 2, 5} /\ (Phase(to) = 2 <=> to = "transit") /\ (Phase(to) = 5 <=> to = "done")
  BY <1>2 DEF Phase
<1>9. \A t \in ThreadsOf(b) : ThreadInv(t)'
  BY <1>2, <1>3, <1>8, ReleasedThreads
<1>10. Positions(b)'
  BY <1>2, <1>4, <1>8 DEF Positions
<1>11. job.chunked => NextArray(p) = 1
  BY DEF NextArray, CurrentArray
<1>12. ClearInv(b)'
  BY <1>4, <1>11 DEF ClearInv
<1>13. Phase(to) = 2 => TransitInv(b)'
  BY <1>2, <1>4, <1>8, <1>11 DEF TransitInv, NextSound
<1>14. BlockInv(b)'
  BY <1>4, <1>7, <1>8, <1>9, <1>10, <1>12, <1>13 DEF BlockInv
<1> QED
  BY <1>4, <1>5, <1>6, <1>14

\* The initial slots have the start states, each in the slot of its group.
LEMMA InitialFacts ==
    ASSUME job \in Jobs, NEW b \in Block
    PROVE  /\ { InitialSlots(b)[i] : i \in Slot } \ {Empty} = nfa(b).start
           /\ \A i \in Slot : InitialSlots(b)[i] # Empty => group(b)[InitialSlots(b)[i]] = i
<1>1. /\ \A s, u \in nfa(b).start : group(b)[s] = group(b)[u] => s = u
      /\ \A s \in nfa(b).start : group(b)[s] \in Slot /\ s # Empty
  BY SaneStarts, SaneApart, BlockFacts
<1>2. ASSUME NEW i \in Slot, InitialSlots(b)[i] # Empty
      PROVE  InitialSlots(b)[i] \in nfa(b).start /\ group(b)[InitialSlots(b)[i]] = i
  BY <1>2 DEF InitialSlots
<1>3. ASSUME NEW s \in nfa(b).start PROVE InitialSlots(b)[group(b)[s]] = s
  <2> DEFINE i == group(b)[s]
  <2>1. i \in Slot /\ \E u \in nfa(b).start : group(b)[u] = i
    BY <1>1
  <2>2. InitialSlots(b)[i] = CHOOSE u \in nfa(b).start : group(b)[u] = i
    BY <2>1 DEF InitialSlots
  <2>3. InitialSlots(b)[i] \in nfa(b).start /\ group(b)[InitialSlots(b)[i]] = i
    BY <2>1, <2>2
  <2> QED
    BY <1>1, <2>3
<1> QED
  BY <1>1, <1>2, <1>3

\* Once the initial slots are loaded the first symbol begins.
LEMMA Sync0Keeps ==
    ASSUME IInv, NEW b \in Block, Released(b, "sync0", LoopTest(b, 0), 0)
    PROVE  /\ BlockInv(b)' /\ ActiveStates(b)' = ActiveStates(b)
           /\ (position[b])' = position[b]
           /\ \A i \in Slot : Latest(b, i)' # Empty => group(b)[Latest(b, i)'] = i
<1>1. /\ PhaseOf(b) = 0 /\ \A i \in Slot : Through(b, i)
  BY ReleasedFacts DEF Phase
<1>2. LoadInv(b) /\ Pos(b) = 0 /\ Positions(b) /\ job \in Jobs
  BY <1>1 DEF IInv, BlockInv, Positions, TypeOK
<1>3. \A i \in Slot : slots[b][0][i] = InitialSlots(b)[i] /\ (job.chunked => slots[b][1][i] = Empty)
  BY <1>1, <1>2 DEF LoadInv
<1>4. CurrentArray(0) = 0
  BY DEF CurrentArray
<1>5. Base(0) = 0
  BY BlockDimAssumption, SMTT(30) DEF Base
<1>6. { slots[b][CurrentArray(0)][i] : i \in Slot } \ {Empty} = nfa(b).start
  BY <1>2, <1>3, <1>4, InitialFacts
<1>7. \A i \in Slot : slots[b][CurrentArray(0)][i] # Empty =>
                         group(b)[slots[b][CurrentArray(0)][i]] = i
  BY <1>2, <1>3, <1>4, InitialFacts
<1>8. Sane(b, nfa(b).start) /\ 0 <= Len(input(b))
  BY <1>2, SaneStarts, BlockFacts
<1>9. \A m \in matches : m[1] = b => m[2] < 0
  BY <1>1, <1>2 DEF Positions
<1>10. ActiveStates(b) = nfa(b).start /\ position[b] = 0
  BY <1>1, <1>2, ArrayFacts
<1> QED
  BY <1>3, <1>5, <1>6, <1>7, <1>8, <1>9, <1>10, SymbolBegins

\* A chunk ends where the next begins.
LEMMA BaseNext ==
    ASSUME NEW p \in Nat, p + 1 # Base(p + 1)
    PROVE  Base(p + 1) = Base(p)
<1> DEFINE q == p \div BlockDim
           r == p % BlockDim
           q2 == (p + 1) \div BlockDim
           r2 == (p + 1) % BlockDim
<1>1. /\ q \in Nat /\ r \in 0 .. BlockDim - 1 /\ p = (BlockDim * q) + r
      /\ q2 \in Nat /\ r2 \in 0 .. BlockDim - 1 /\ p + 1 = (BlockDim * q2) + r2
  BY BlockDimAssumption, SMTT(30)
<1>2. Base(p) = BlockDim * q /\ Base(p + 1) = BlockDim * q2
  BY DEF Base
<1> HIDE DEF q, r, q2, r2
<1>3. r2 # 0
  BY <1>1, <1>2, BlockDimAssumption
<1>4. BlockDim * (q2 - q) = r + 1 - r2
  BY <1>1, BlockDimAssumption, SMTT(30)
<1>5. r + 1 - r2 < BlockDim /\ r + 1 - r2 > 0 - BlockDim
  BY <1>1, <1>3, BlockDimAssumption
<1>6. q2 - q < 1 /\ q2 - q > -1
  BY <1>1, <1>4, <1>5, BlockDimAssumption, SMTT(30)
<1> QED
  BY <1>1, <1>2, <1>6

\* Between two barriers of a symbol: what is active stays where it is.
LEMMA SymbolGoesOn ==
    ASSUME IInv, NEW b \in Block, NEW at, NEW to, Released(b, at, to, Pos(b)),
           Phase(at) \in {1, 2}, Phase(to) \in {1, 2, 3}, to # "sync1",
           to = "clear" => ~job.chunked, to # "read",
           job.chunked => at # "sync2"
    PROVE  /\ \A t \in ThreadsOf(b) : ThreadInv(t)'
           /\ Positions(b)' /\ Sane(b, ActiveStates(b))'
           /\ ActiveStates(b)' = ActiveStates(b) /\ (position[b])' = position[b]
           /\ \A i \in Slot : Latest(b, i)' # Empty => group(b)[Latest(b, i)'] = i
           /\ Nxt(b)' = Nxt(b) /\ Cur(b)' = Cur(b) /\ Woken(b)' = Woken(b)
<1> DEFINE p == Pos(b)
<1>1. /\ \A t \in ThreadsOf(b) : pc[t] = at
      /\ PhaseOf(b) = Phase(at) /\ PhaseOf(b)' = Phase(to) /\ Pos(b)' = p
      /\ job' = job /\ slots' = slots /\ matches' = matches
      /\ nfa(b)' = nfa(b) /\ group(b)' = group(b) /\ input(b)' = input(b)
      /\ Cur(b)' = CurrentArray(p) /\ Nxt(b)' = NextArray(p)
      /\ (position[b])' = p + IF to = "swap" THEN 1 ELSE 0
      /\ \A i \in Slot : Latest(b, i)' = slots[b][IF to = "swap" THEN 1 ELSE CurrentArray(p)][i]
      /\ ActiveStates(b)' = { Latest(b, i)' : i \in Slot } \ {Empty}
  BY ReleasedFacts
<1>2. to # "swap" /\ p \in Nat
  BY DEF Phase, Released
<1>3. /\ position[b] = p
      /\ \A i \in Slot : LatestArray(b, i) = Cur(b)
      /\ ActiveStates(b) = { Latest(b, i) : i \in Slot } \ {Empty}
  BY <1>1, <1>2, ArrayFacts
<1>4. \A i \in Slot : Latest(b, i)' = Latest(b, i)
  BY <1>1, <1>2, <1>3 DEF Latest, Cur
<1>5. ActiveStates(b)' = ActiveStates(b) /\ (position[b])' = position[b]
  BY <1>1, <1>2, <1>3, <1>4
<1>6. Sane(b, ActiveStates(b))'
  <2>1. Sane(b, ActiveStates(b))
    BY DEF IInv, BlockInv
  <2> QED
    BY <1>1, <1>5, <2>1 DEF Sane
<1>7. Positions(b)'
  <2>1. Positions(b)
    BY DEF IInv, BlockInv
  <2> QED
    BY <1>1, <2>1 DEF Positions
<1>8. \A i \in Slot : Latest(b, i)' # Empty => group(b)[Latest(b, i)'] = i
  <2>1. pc[Lead(b)] \notin {"load", "sync0"}
    BY <1>1, ThreadFacts DEF Phase
  <2> QED
    BY <1>4, <2>1 DEF IInv, TypeOK, Latest
<1>9. \A t \in ThreadsOf(b) : job.chunked => HasRead(t)'
  <2> SUFFICES ASSUME NEW t \in ThreadsOf(b), job.chunked PROVE HasRead(t)'
    OBVIOUS
  <2>1. ThreadInv(t) /\ t[1] = b /\ pc[t] = at
    BY <1>1, ThreadFacts DEF IInv, BlockInv
  <2>2. at = "sync1" \/ PhaseOf(b) = 2
    BY <1>1 DEF Phase, Released
  <2>3. HasRead(t)
    BY <2>1, <2>2 DEF ThreadInv
  <2> QED
    BY <2>3, ReadStays
<1>10. \A t \in ThreadsOf(b) : ThreadInv(t)'
  BY <1>2, <1>9, ReleasedThreads
<1>11. Nxt(b)' = Nxt(b) /\ Cur(b)' = Cur(b) /\ Woken(b)' = Woken(b)
  BY <1>1, <1>5 DEF Nxt, Cur, Woken
<1> QED
  BY <1>5, <1>6, <1>7, <1>8, <1>10, <1>11

\* The array is cleared next, or the chunk has been read.
LEMMA Sync1Keeps ==
    ASSUME IInv, NEW b \in Block,
           Released(b, "sync1", IF job.chunked THEN "transit" ELSE "clear", Pos(b))
    PROVE  /\ BlockInv(b)' /\ ActiveStates(b)' = ActiveStates(b)
           /\ (position[b])' = position[b]
           /\ \A i \in Slot : Latest(b, i)' # Empty => group(b)[Latest(b, i)'] = i
<1> DEFINE to == IF job.chunked THEN "transit" ELSE "clear"
<1>1. /\ to \in {"transit", "clear"} /\ (to = "clear" => ~job.chunked) /\ (to = "transit" => job.chunked)
      /\ Phase("sync1") = 1 /\ Phase(to) \in {1, 2} /\ (Phase(to) = 2 => job.chunked)
  BY DEF Phase
<1> HIDE DEF to
<1>2. Released(b, "sync1", to, Pos(b))
  BY DEF to
<1>3. /\ \A t \in ThreadsOf(b) : ThreadInv(t)'
      /\ Positions(b)' /\ Sane(b, ActiveStates(b))'
      /\ ActiveStates(b)' = ActiveStates(b) /\ (position[b])' = position[b]
      /\ \A i \in Slot : Latest(b, i)' # Empty => group(b)[Latest(b, i)'] = i
      /\ Nxt(b)' = Nxt(b)
  BY <1>1, <1>2, SymbolGoesOn
<1>4. /\ PhaseOf(b) = 1 /\ PhaseOf(b)' = Phase(to) /\ job' = job /\ slots' = slots
      /\ \A i \in Slot : ~Through(b, i)'
  BY <1>1, <1>2, ReleasedFacts
<1>5. ClearInv(b)
  BY <1>4 DEF IInv, BlockInv
<1>6. ClearInv(b)'
  BY <1>3, <1>4, <1>5 DEF ClearInv
<1>7. Phase(to) = 2 => TransitInv(b)'
  BY <1>1, <1>3, <1>4, <1>5 DEF ClearInv, TransitInv, NextSound
<1>8. BlockInv(b)'
  BY <1>1, <1>3, <1>4, <1>6, <1>7 DEF BlockInv
<1> QED
  BY <1>3, <1>8

\* The next array is clear.
LEMMA Sync2Keeps ==
    ASSUME IInv, NEW b \in Block, Released(b, "sync2", "transit", Pos(b))
    PROVE  /\ BlockInv(b)' /\ ActiveStates(b)' = ActiveStates(b)
           /\ (position[b])' = position[b]
           /\ \A i \in Slot : Latest(b, i)' # Empty => group(b)[Latest(b, i)'] = i
<1>1. Phase("sync2") = 1 /\ Phase("transit") = 2
  BY DEF Phase
<1>2. /\ PhaseOf(b) = 1 /\ PhaseOf(b)' = 2 /\ job' = job /\ slots' = slots
      /\ \A i \in Slot : ~Through(b, i)' /\ Through(b, i)
      /\ pc[Lead(b)] = "sync2"
  BY <1>1, ReleasedFacts, ThreadFacts
<1>3. ~job.chunked
  BY <1>2, ThreadFacts DEF IInv, BlockInv, ThreadInv, Control
<1>4. /\ \A t \in ThreadsOf(b) : ThreadInv(t)'
      /\ Positions(b)' /\ Sane(b, ActiveStates(b))'
      /\ ActiveStates(b)' = ActiveStates(b) /\ (position[b])' = position[b]
      /\ \A i \in Slot : Latest(b, i)' # Empty => group(b)[Latest(b, i)'] = i
      /\ Nxt(b)' = Nxt(b)
  BY <1>1, <1>3, SymbolGoesOn
<1>5. ClearInv(b)
  BY <1>2 DEF IInv, BlockInv
<1>6. TransitInv(b)'
  BY <1>2, <1>4, <1>5 DEF ClearInv, TransitInv, NextSound
<1>7. BlockInv(b)'
  BY <1>2, <1>4, <1>6 DEF BlockInv
<1> QED
  BY <1>4, <1>7

\* All that the symbol wakes is in the next array.
LEMMA Sync3Keeps ==
    ASSUME IInv, NEW b \in Block, Released(b, "sync3", "output", Pos(b))
    PROVE  /\ BlockInv(b)' /\ ActiveStates(b)' = ActiveStates(b)
           /\ (position[b])' = position[b]
           /\ \A i \in Slot : Latest(b, i)' # Empty => group(b)[Latest(b, i)'] = i
<1>1. Phase("sync3") = 2 /\ Phase("output") = 3
  BY DEF Phase
<1>2. /\ PhaseOf(b) = 2 /\ PhaseOf(b)' = 3 /\ job' = job /\ slots' = slots /\ matches' = matches
      /\ \A i \in Slot : ~Through(b, i)' /\ Through(b, i)
      /\ group(b)' = group(b) /\ nfa(b)' = nfa(b) /\ Pos(b)' = Pos(b)
  BY <1>1, ReleasedFacts
<1>3. /\ \A t \in ThreadsOf(b) : ThreadInv(t)'
      /\ Positions(b)' /\ Sane(b, ActiveStates(b))'
      /\ ActiveStates(b)' = ActiveStates(b) /\ (position[b])' = position[b]
      /\ \A i \in Slot : Latest(b, i)' # Empty => group(b)[Latest(b, i)'] = i
      /\ Nxt(b)' = Nxt(b) /\ Woken(b)' = Woken(b)
  BY <1>1, SymbolGoesOn
<1>4. TransitInv(b) /\ Positions(b)
  BY <1>2 DEF IInv, BlockInv
<1>5. ASSUME NEW u \in Woken(b) PROVE InNext(b, u)
  <2>1. PICK s \in ActiveStates(b) : u \in TargetsOf(b, s)
    BY WokenIs
  <2>2. PICK i \in Slot : slots[b][Cur(b)][i] = s /\ s # Empty
    BY <1>2, CurrentActive
  <2> QED
    BY <1>2, <1>4, <2>1, <2>2 DEF TransitInv
<1>6. NextSound(b)' /\ \A u \in Woken(b)' : InNext(b, u)'
  BY <1>2, <1>3, <1>4, <1>5 DEF TransitInv, NextSound, InNext
<1>7. \A m \in matches : m[1] = b => m[2] < Pos(b)
  BY <1>2, <1>4 DEF Positions
<1>8. \A m \in matches : ~(m[1] = b /\ m[2] = Pos(b))
  <2>1. Pos(b) \in Nat /\ \A m \in matches : m[2] \in Nat
    BY ArrayFacts DEF IInv, TypeOK
  <2> QED
    BY <1>7, <2>1
<1>9. \A u \in Woken(b) : ~Through(b, group(b)[u])'
  <2>1. \A u \in Woken(b) : group(b)[u] \in Slot
    BY <1>2, WokenSane
  <2>2. \A i \in Slot : ~(\/ pc'[Owner(b, i)] \in {"sync0", "sync2", "sync3", "sync4", "sync5"}
                          \/ i < offset'[Owner(b, i)])
    BY <1>2 DEF Through, Owner
  <2> QED
    BY <1>2, <2>1, <2>2 DEF Through, Owner
<1>10. OutputInv(b)'
  BY <1>2, <1>3, <1>6, <1>8, <1>9 DEF OutputInv
<1>11. BlockInv(b)'
  BY <1>2, <1>3, <1>10 DEF BlockInv
<1> QED
  BY <1>3, <1>11

\* What the next array holds when all slots have reported, and what they reported.
LEMMA OutputDone ==
    ASSUME IInv, NEW b \in Block, PhaseOf(b) = 3, \A i \in Slot : Through(b, i)
    PROVE  /\ { slots[b][Nxt(b)][i] : i \in Slot } \ {Empty} = Woken(b)
           /\ \A i \in Slot : slots[b][Nxt(b)][i] # Empty => group(b)[slots[b][Nxt(b)][i]] = i
           /\ { m \in matches : m[1] = b /\ m[2] = Pos(b) }
                 = { <<b, Pos(b), s>> : s \in Woken(b) \cap nfa(b).report }
           /\ Pos(b) < Len(input(b)) /\ Sane(b, Woken(b))
           /\ \A m \in matches : m[1] = b => m[2] <= Pos(b)
<1>1. OutputInv(b) /\ Positions(b)
  BY DEF IInv, BlockInv
<1>2. /\ \A s \in Woken(b) : group(b)[s] \in Slot /\ s # Empty
      /\ Sane(b, Woken(b))
  BY WokenSane, BlockFacts DEF IInv, TypeOK
<1>3. { slots[b][Nxt(b)][i] : i \in Slot } \ {Empty} = Woken(b)
  BY <1>1, <1>2 DEF OutputInv, NextSound, InNext
<1>4. \A i \in Slot : slots[b][Nxt(b)][i] # Empty => group(b)[slots[b][Nxt(b)][i]] = i
  BY <1>1 DEF OutputInv, NextSound
<1>5. ASSUME NEW m \in matches, m[1] = b, m[2] = Pos(b)
      PROVE  m \in { <<b, Pos(b), s>> : s \in Woken(b) \cap nfa(b).report }
  <2>1. m = <<m[1], m[2], m[3]>>
    BY DEF IInv, Accounts
  <2>2. m[3] \in Woken(b) \cap nfa(b).report
    BY <1>1, <1>5 DEF OutputInv
  <2> QED
    BY <1>5, <2>1, <2>2
<1>6. ASSUME NEW s \in Woken(b) \cap nfa(b).report PROVE <<b, Pos(b), s>> \in matches
  BY <1>1, <1>2 DEF OutputInv
<1>7. { m \in matches : m[1] = b /\ m[2] = Pos(b) }
         = { <<b, Pos(b), s>> : s \in Woken(b) \cap nfa(b).report }
  BY <1>5, <1>6
<1>8. \A m \in matches : m[1] = b => m[2] <= Pos(b)
  <2>1. Pos(b) \in Nat /\ \A m \in matches : m[2] \in Nat
    BY ArrayFacts DEF IInv, TypeOK
  <2> QED
    BY <1>1, <2>1 DEF Positions
<1> QED
  BY <1>1, <1>2, <1>3, <1>4, <1>7, <1>8 DEF Positions

\* The chunk kernel goes on to move the slots: the symbol is through.
LEMMA Sync4Moves ==
    ASSUME IInv, NEW b \in Block, job.chunked, Released(b, "sync4", "swap", Pos(b))
    PROVE  /\ BlockInv(b)' /\ ActiveStates(b)' = Woken(b)
           /\ (position[b])' = position[b] + 1
           /\ \A i \in Slot : Latest(b, i)' # Empty => group(b)[Latest(b, i)'] = i
<1>1. Phase("sync4") = 3 /\ Phase("swap") = 4
  BY DEF Phase
<1>2. /\ PhaseOf(b) = 3 /\ PhaseOf(b)' = 4 /\ job' = job /\ slots' = slots /\ matches' = matches
      /\ \A i \in Slot : ~Through(b, i)' /\ Through(b, i)
      /\ nfa(b)' = nfa(b) /\ Pos(b)' = Pos(b) /\ input(b)' = input(b)
      /\ (position[b])' = Pos(b) + 1
      /\ \A i \in Slot : Latest(b, i)' = slots[b][1][i]
      /\ ActiveStates(b)' = { Latest(b, i)' : i \in Slot } \ {Empty}
  BY <1>1, ReleasedFacts
<1>3. position[b] = Pos(b) /\ Nxt(b) = 1 /\ Pos(b) \in Nat
  BY <1>2, ArrayFacts
<1>4. /\ { slots[b][1][i] : i \in Slot } \ {Empty} = Woken(b)
      /\ \A i \in Slot : slots[b][1][i] # Empty => group(b)[slots[b][1][i]] = i
      /\ Sane(b, Woken(b))
  BY <1>2, <1>3, OutputDone
<1>5. ActiveStates(b)' = Woken(b)
  BY <1>2, <1>4
<1>6. \A i \in Slot : Latest(b, i)' # Empty => group(b)[Latest(b, i)'] = i
  BY <1>2, <1>4
<1>7. Sane(b, ActiveStates(b))'
  BY <1>2, <1>4, <1>5 DEF Sane
<1>8. Positions(b)'
  BY <1>2 DEF IInv, BlockInv, Positions
<1>9. \A t \in ThreadsOf(b) : HasRead(t)'
  BY <1>2, ReadStays, ThreadFacts DEF IInv, BlockInv, ThreadInv
<1>10. \A t \in ThreadsOf(b) : ThreadInv(t)'
  BY <1>9, ReleasedThreads
<1>11. SwapInv(b)'
  BY <1>2 DEF SwapInv
<1>12. BlockInv(b)'
  BY <1>2, <1>7, <1>8, <1>10, <1>11 DEF BlockInv
<1> QED
  BY <1>2, <1>3, <1>5, <1>6, <1>12

\* In the other kernel the arrays swap roles: the symbol is through, and the next begins.
LEMMA Sync4Loops ==
    ASSUME IInv, NEW b \in Block, ~job.chunked,
           Released(b, "sync4", LoopTest(b, Pos(b) + 1), Pos(b) + 1)
    PROVE  /\ BlockInv(b)' /\ ActiveStates(b)' = Woken(b)
           /\ (position[b])' = position[b] + 1
           /\ \A i \in Slot : Latest(b, i)' # Empty => group(b)[Latest(b, i)'] = i
<1> DEFINE p == Pos(b) + 1
<1>1. /\ PhaseOf(b) = 3 /\ \A i \in Slot : Through(b, i)
  BY ReleasedFacts DEF Phase
<1>2. /\ position[b] = Pos(b) /\ Pos(b) \in Nat
      /\ CurrentArray(p) = Nxt(b)
  BY <1>1, ArrayFacts, SMTT(30) DEF Nxt, CurrentArray, NextArray
<1>3. /\ { slots[b][Nxt(b)][i] : i \in Slot } \ {Empty} = Woken(b)
      /\ \A i \in Slot : slots[b][Nxt(b)][i] # Empty => group(b)[slots[b][Nxt(b)][i]] = i
      /\ Sane(b, Woken(b)) /\ Pos(b) < Len(input(b))
      /\ \A m \in matches : m[1] = b => m[2] <= Pos(b)
  BY <1>1, OutputDone
<1>4. \A m \in matches : m[2] \in Nat
  BY DEF IInv, TypeOK
<1>5. p <= Len(input(b)) /\ \A m \in matches : m[1] = b => m[2] < p
  BY <1>2, <1>3, <1>4, BlockFacts DEF IInv, TypeOK
<1> HIDE DEF p
<1>6. Released(b, "sync4", LoopTest(b, p), p)
  BY DEF p
<1>7. /\ BlockInv(b)' /\ ActiveStates(b)' = Woken(b) /\ (position[b])' = p
      /\ \A i \in Slot : Latest(b, i)' # Empty => group(b)[Latest(b, i)'] = i
  BY <1>2, <1>3, <1>5, <1>6, SymbolBegins
<1> QED
  BY <1>2, <1>7 DEF p

\* The slots are moved, and the chunk kernel's next symbol begins.
LEMMA Sync5Keeps ==
    ASSUME IInv, NEW b \in Block,
           Released(b, "sync5", LoopTest(b, Pos(b) + 1), Pos(b) + 1)
    PROVE  /\ BlockInv(b)' /\ ActiveStates(b)' = ActiveStates(b)
           /\ (position[b])' = position[b]
           /\ \A i \in Slot : Latest(b, i)' # Empty => group(b)[Latest(b, i)'] = i
<1> DEFINE p == Pos(b) + 1
<1>1. /\ PhaseOf(b) = 4 /\ (\A i \in Slot : Through(b, i))
      /\ \A t \in ThreadsOf(b) : pc[t] = "sync5"
  BY ReleasedFacts DEF Phase
<1>2. /\ position[b] = p /\ Pos(b) \in Nat /\ job.chunked
      /\ \A i \in Slot : LatestArray(b, i) = 0
      /\ ActiveStates(b) = { Latest(b, i) : i \in Slot } \ {Empty}
  BY <1>1, ArrayFacts
<1>3. CurrentArray(p) = 0
  BY <1>2 DEF CurrentArray
<1>4. \A i \in Slot : Latest(b, i) = slots[b][CurrentArray(p)][i]
  BY <1>2, <1>3 DEF Latest
<1>5. { slots[b][CurrentArray(p)][i] : i \in Slot } \ {Empty} = ActiveStates(b)
  BY <1>2, <1>4
<1>6. pc[Lead(b)] \notin {"load", "sync0"}
  BY <1>1, ThreadFacts
<1>7. \A i \in Slot : slots[b][CurrentArray(p)][i] # Empty =>
                         group(b)[slots[b][CurrentArray(p)][i]] = i
  BY <1>4, <1>6 DEF IInv, TypeOK, Latest
<1>8. SwapInv(b) /\ Positions(b) /\ Sane(b, ActiveStates(b))
  BY <1>1 DEF IInv, BlockInv
<1>9. \A i \in Slot : slots[b][1][i] = Empty
  BY <1>1, <1>8 DEF SwapInv
<1>10. \A m \in matches : m[2] \in Nat
  BY DEF IInv, TypeOK
<1>11. p <= Len(input(b)) /\ \A m \in matches : m[1] = b => m[2] < p
  <2>1. Pos(b) < Len(input(b)) /\ Len(input(b)) \in Nat
    BY <1>1, <1>8, BlockFacts DEF Positions, IInv, TypeOK
  <2>2. \A m \in matches : m[1] = b => m[2] < Pos(b) \/ m[2] = Pos(b)
    BY <1>8 DEF Positions
  <2> QED
    BY <1>2, <1>10, <2>1, <2>2
<1>12. ASSUME p # Base(p), NEW t \in ThreadsOf(b) PROVE HasRead(t)'
  <2>1. Base(p) = Base(Pos(b))
    BY <1>2, <1>12, BaseNext
  <2>2. HasRead(t)
    BY <1>1, <1>2, ThreadFacts DEF IInv, BlockInv, ThreadInv
  <2> QED
    BY <2>1, <2>2, ReadStays
<1> HIDE DEF p
<1>13. Released(b, "sync5", LoopTest(b, p), p)
  BY DEF p
<1>14. /\ BlockInv(b)' /\ ActiveStates(b)' = ActiveStates(b) /\ (position[b])' = p
       /\ \A i \in Slot : Latest(b, i)' # Empty => group(b)[Latest(b, i)'] = i
  BY <1>5, <1>7, <1>8, <1>9, <1>11, <1>12, <1>13, SymbolBegins
<1> QED
  BY <1>2, <1>14

\* Each barrier is one of these.
LEMMA BlockStepReleases ==
    ASSUME IInv, NEW b \in Block, BlockStep(b)
    PROVE  \/ Released(b, "sync0", LoopTest(b, 0), 0)
           \/ Released(b, "sync1", IF job.chunked THEN "transit" ELSE "clear", Pos(b))
           \/ Released(b, "sync2", "transit", Pos(b))
           \/ Released(b, "sync3", "output", Pos(b))
           \/ job.chunked /\ Released(b, "sync4", "swap", Pos(b))
           \/ ~job.chunked /\ Released(b, "sync4", LoopTest(b, Pos(b) + 1), Pos(b) + 1)
           \/ Released(b, "sync5", LoopTest(b, Pos(b) + 1), Pos(b) + 1)
<1>1. /\ Pos(b) \in Nat /\ Pos(b) + 1 \in Nat /\ Lead(b) \in ThreadsOf(b)
      /\ input_position \in [Thread -> Nat] /\ job.chunked \in BOOLEAN
  BY ArrayFacts, ThreadFacts, BlockFacts DEF IInv, TypeOK
<1>2. \A t \in Thread : t[1] = b => input_position[t] = Pos(b)
  BY ThreadFacts DEF IInv, BlockInv, ThreadInv, Control
<1>3. input_position = [t \in Thread |-> IF t[1] = b THEN Pos(b) ELSE input_position[t]]
  BY <1>1, <1>2
<1>4. \A p : LoopTest(b, p) \in {"sync1", "read", "transit", "done"}
  BY DEF LoopTest, SymbolStart
<1>5. CASE Sync0(b)
  <2>1. \A t \in ThreadsOf(b) : pc[t] = "sync0"
    BY <1>5 DEF Sync0, Barrier
  <2>2. Pos(b) = 0
    <3>1. PhaseOf(b) = 0
      BY <1>1, <2>1 DEF PhaseOf, Phase
    <3> QED
      BY <3>1 DEF IInv, BlockInv, Positions
  <2> QED
    BY <1>3, <1>4, <1>5, <2>2 DEF Sync0, Released
<1>6. CASE Sync1(b)
  BY <1>1, <1>3, <1>6 DEF Sync1, Released
<1>7. CASE Sync2(b)
  BY <1>1, <1>3, <1>7 DEF Sync2, Released
<1>8. CASE Sync3(b)
  BY <1>1, <1>3, <1>8 DEF Sync3, Released
<1>9. CASE Sync4(b)
  <2>1. CASE job.chunked
    BY <1>1, <1>3, <1>9, <2>1 DEF Sync4, Released
  <2>2. CASE ~job.chunked
    BY <1>1, <1>4, <1>9, <2>2 DEF Sync4, LoopBarrier, Released, Pos, Lead
  <2> QED
    BY <2>1, <2>2
<1>10. CASE Sync5(b)
  BY <1>1, <1>4, <1>10 DEF Sync5, LoopBarrier, Released, Pos, Lead
<1> QED
  BY <1>5, <1>6, <1>7, <1>8, <1>9, <1>10 DEF BlockStep

\* A barrier keeps the invariant of its block.  All but the one that ends a symbol leave
\* the active states as they are; that one makes them what the symbol wakes.
LEMMA BlockStepMoves ==
    ASSUME IInv, NEW b \in Block, BlockStep(b)
    PROVE  /\ BlockInv(b)'
           /\ \A i \in Slot : Latest(b, i)' # Empty => group(b)[Latest(b, i)'] = i
           /\ \/ ActiveStates(b)' = ActiveStates(b) /\ (position[b])' = position[b]
              \/ /\ ActiveStates(b)' = Woken(b) /\ (position[b])' = position[b] + 1
                 /\ PhaseOf(b) = 3 /\ \A i \in Slot : Through(b, i)
<1>1. CASE Released(b, "sync0", LoopTest(b, 0), 0)
  BY <1>1, Sync0Keeps
<1>2. CASE Released(b, "sync1", IF job.chunked THEN "transit" ELSE "clear", Pos(b))
  BY <1>2, Sync1Keeps
<1>3. CASE Released(b, "sync2", "transit", Pos(b))
  BY <1>3, Sync2Keeps
<1>4. CASE Released(b, "sync3", "output", Pos(b))
  BY <1>4, Sync3Keeps
<1>5. CASE job.chunked /\ Released(b, "sync4", "swap", Pos(b))
  <2>1. PhaseOf(b) = 3 /\ \A i \in Slot : Through(b, i)
    BY <1>5, ReleasedFacts DEF Phase
  <2> QED
    BY <1>5, <2>1, Sync4Moves
<1>6. CASE ~job.chunked /\ Released(b, "sync4", LoopTest(b, Pos(b) + 1), Pos(b) + 1)
  <2>1. PhaseOf(b) = 3 /\ \A i \in Slot : Through(b, i)
    BY <1>6, ReleasedFacts DEF Phase
  <2> QED
    BY <1>6, <2>1, Sync4Loops
<1>7. CASE Released(b, "sync5", LoopTest(b, Pos(b) + 1), Pos(b) + 1)
  BY <1>7, Sync5Keeps
<1> QED
  BY <1>1, <1>2, <1>3, <1>4, <1>5, <1>6, <1>7, BlockStepReleases

\* It leaves the other blocks, and all memory, alone.
LEMMA BlockStepLeaves ==
    ASSUME IInv, NEW b \in Block, BlockStep(b)
    PROVE  /\ job' = job /\ offset' = offset /\ to_store' = to_store /\ slots' = slots
           /\ shrd_chunk' = shrd_chunk /\ matches' = matches /\ match_count' = match_count
           /\ host' = host /\ report_file' = report_file
           /\ pc' \in [Thread -> PCs] /\ input_position' \in [Thread -> Nat]
           /\ host = "waiting"
           /\ \A d \in Block : d # b =>
                 /\ BlockInv(d)' /\ ActiveStates(d)' = ActiveStates(d)
                 /\ (position[d])' = position[d]
                 /\ \A i \in Slot : Latest(d, i)' = Latest(d, i)
                 /\ PhaseOf(d)' = PhaseOf(d) /\ group(d)' = group(d)
<1>1. PICK at, to, p : Released(b, at, to, p)
  BY BlockStepReleases
<1>2. /\ job' = job /\ offset' = offset /\ to_store' = to_store /\ slots' = slots
      /\ shrd_chunk' = shrd_chunk /\ matches' = matches /\ match_count' = match_count
      /\ host' = host /\ report_file' = report_file
      /\ pc' = [t \in Thread |-> IF t[1] = b THEN to ELSE pc[t]]
      /\ input_position' = [t \in Thread |-> IF t[1] = b THEN p ELSE input_position[t]]
      /\ to \in PCs /\ p \in Nat
      /\ \A t \in ThreadsOf(b) : pc[t] = at
      /\ at # "done"
  BY <1>1 DEF Released, Barrier, PCs
<1>3. pc \in [Thread -> PCs] /\ input_position \in [Thread -> Nat]
  BY DEF IInv, TypeOK
<1>4. pc' \in [Thread -> PCs] /\ input_position' \in [Thread -> Nat]
  BY <1>2, <1>3
<1>5. host = "waiting"
  <2>1. Lead(b) \in Thread /\ pc[Lead(b)] # "done"
    BY <1>2, ThreadFacts
  <2> QED
    BY <2>1 DEF IInv, Accounts
<1>6. ASSUME NEW d \in Block, d # b
      PROVE  /\ BlockInv(d)' /\ ActiveStates(d)' = ActiveStates(d)
             /\ (position[d])' = position[d]
             /\ \A i \in Slot : Latest(d, i)' = Latest(d, i)
             /\ PhaseOf(d)' = PhaseOf(d) /\ group(d)' = group(d)
  <2>1. \A u \in ThreadsOf(d) : /\ pc'[u] = pc[u] /\ offset'[u] = offset[u]
                                /\ to_store'[u] = to_store[u]
                                /\ input_position'[u] = input_position[u]
    BY <1>2, <1>6, ThreadFacts
  <2> QED
    BY <1>2, <2>1, BlockSame
<1> QED
  BY <1>2, <1>4, <1>5, <1>6

\* A step of a block keeps the invariant.
LEMMA BlockStepKeeps ==
    ASSUME IInv, NEW b \in Block, BlockStep(b)
    PROVE  IInv'
<1>1. /\ job' = job /\ offset' = offset /\ to_store' = to_store /\ slots' = slots
      /\ shrd_chunk' = shrd_chunk /\ matches' = matches /\ match_count' = match_count
      /\ host' = host /\ report_file' = report_file
      /\ pc' \in [Thread -> PCs] /\ input_position' \in [Thread -> Nat]
      /\ host = "waiting"
      /\ TypeOK /\ Shapes /\ Accounts
  BY BlockStepLeaves DEF IInv
<1>2. \A d \in Block : BlockInv(d)'
  BY BlockStepMoves, BlockStepLeaves
<1>3. \A d \in Block : nfa(d)' = nfa(d) /\ group(d)' = group(d)
  BY <1>1 DEF nfa, group
<1>4. ASSUME NEW d \in Block, NEW i \in Slot,
             pc'[Lead(d)] \notin {"load", "sync0"}, Latest(d, i)' # Empty
      PROVE  group(d)[Latest(d, i)'] = i
  <2>1. CASE d = b
    BY <1>4, <2>1, BlockStepMoves
  <2>2. CASE d # b
    <3>1. Latest(d, i)' = Latest(d, i) /\ PhaseOf(d)' = PhaseOf(d)
      BY <2>2, BlockStepLeaves
    <3>2. PhaseOf(d)' # 0
      BY <1>4 DEF PhaseOf, Phase, Lead
    <3>3. pc[Lead(d)] \notin {"load", "sync0"}
      BY <3>1, <3>2 DEF PhaseOf, Phase
    <3> QED
      BY <1>1, <1>4, <3>1, <3>3 DEF TypeOK, Latest
  <2> QED
    BY <2>1, <2>2
<1>5. TypeOK'
  <2>1. \A d \in Block, i \in Slot :
           LET s == slots[d][LatestArray(d, i)][i]
           IN  (pc[Lead(d)] \notin {"load", "sync0"} /\ s # Empty => group(d)[s] = i)'
    BY <1>3, <1>4 DEF Latest, Lead
  <2>2. /\ \A t \in Thread : to_store'[t] \subseteq Sids(nfa(t[1])')
        /\ \A d \in Block : slots'[d] \in [{0, 1} -> [Slot -> Sids(nfa(d)') \cup {Empty}]]
        /\ \A m \in matches' : m[1] \in Block /\ m[2] \in Nat /\ m[3] \in Sids(nfa(m[1])')
    BY <1>1, <1>3, ThreadFacts DEF TypeOK
  <2> QED
    BY <1>1, <2>1, <2>2 DEF TypeOK
<1>6. Shapes' /\ Accounts'
  BY <1>1 DEF Shapes, Accounts
<1> QED
  BY <1>2, <1>5, <1>6 DEF IInv

-----------------------------------------------------------------------------
(* The host, and the invariant.                                              *)

\* Where only the host moves nothing else changes.
LEMMA MemorySame ==
    ASSUME IInv, host' \in {"waiting", "printed", "aborted"},
           UNCHANGED <<job, pc, input_position, offset, to_store, slots, shrd_chunk, matches,
                       match_count>>
    PROVE  /\ TypeOK' /\ Shapes' /\ \A d \in Block : BlockInv(d)'
           /\ \A m \in matches : nfa(m[1])' = nfa(m[1])
           /\ \A d \in Block : ActiveStates(d)' = ActiveStates(d) /\ (position[d])' = position[d]
<1>1. /\ job' = job /\ pc' = pc /\ input_position' = input_position /\ offset' = offset
      /\ to_store' = to_store /\ slots' = slots /\ shrd_chunk' = shrd_chunk
      /\ matches' = matches /\ match_count' = match_count
  OBVIOUS
<1>2. \A d \in Block : /\ BlockInv(d)' /\ nfa(d)' = nfa(d) /\ group(d)' = group(d)
                       /\ \A i \in Slot : Latest(d, i)' = Latest(d, i)
                       /\ ActiveStates(d)' = ActiveStates(d) /\ (position[d])' = position[d]
  BY <1>1, BlockSame
<1>3. TypeOK /\ Shapes
  BY DEF IInv
<1>4. \A d \in Block, i \in Slot :
         LET s == slots[d][LatestArray(d, i)][i]
         IN  (pc[Lead(d)] \notin {"load", "sync0"} /\ s # Empty => group(d)[s] = i)'
  BY <1>1, <1>2, <1>3 DEF Latest, Lead, TypeOK
<1>5. /\ \A t \in Thread : to_store'[t] \subseteq Sids(nfa(t[1])')
      /\ \A d \in Block : slots'[d] \in [{0, 1} -> [Slot -> Sids(nfa(d)') \cup {Empty}]]
      /\ \A m \in matches' : m[1] \in Block /\ m[2] \in Nat /\ m[3] \in Sids(nfa(m[1])')
  BY <1>1, <1>2, <1>3, ThreadFacts DEF TypeOK
<1>6. TypeOK'
  BY <1>1, <1>3, <1>4, <1>5 DEF TypeOK
<1>7. Shapes'
  BY <1>1, <1>3 DEF Shapes
<1>8. \A m \in matches : nfa(m[1])' = nfa(m[1])
  BY <1>2, <1>3 DEF TypeOK
<1> QED
  BY <1>2, <1>6, <1>7, <1>8

\* The host reads the matches when all threads are done.
LEMMA FinishKeeps == ASSUME IInv, Finish PROVE IInv'
<1>1. /\ pc' = pc /\ matches' = matches /\ match_count' = match_count
      /\ \A t \in Thread : pc[t] = "done"
      /\ host' = IF match_count > Capacity THEN "aborted" ELSE "printed"
      /\ report_file' = IF match_count > Capacity THEN {}
                        ELSE { <<m[2], nfa(m[1]).original_id[m[3]]>> : m \in matches }
  BY DEF Finish
<1>2. /\ TypeOK' /\ Shapes' /\ \A d \in Block : BlockInv(d)'
      /\ \A m \in matches : nfa(m[1])' = nfa(m[1])
  BY <1>1, MemorySame DEF Finish
<1>3. host' = "printed" =>
         report_file' = { <<m[2], nfa(m[1])'.original_id[m[3]]>> : m \in matches' }
  BY <1>1, <1>2
<1>4. Accounts'
  BY <1>1, <1>3 DEF IInv, Accounts
<1> QED
  BY <1>2, <1>4 DEF IInv

\* Nothing moves.
LEMMA StutterKeeps == ASSUME IInv, UNCHANGED vars PROVE IInv'
<1>1. /\ pc' = pc /\ matches' = matches /\ match_count' = match_count
      /\ host' = host /\ report_file' = report_file
  BY DEF vars
<1>2. /\ TypeOK' /\ Shapes' /\ \A d \in Block : BlockInv(d)'
      /\ \A m \in matches : nfa(m[1])' = nfa(m[1])
  BY <1>1, MemorySame DEF vars, IInv, TypeOK
<1>3. host' = "printed" =>
         report_file' = { <<m[2], nfa(m[1])'.original_id[m[3]]>> : m \in matches' }
  BY <1>1, <1>2 DEF IInv, Accounts
<1>4. Accounts'
  BY <1>1, <1>3 DEF IInv, Accounts
<1> QED
  BY <1>2, <1>4 DEF IInv

\* Nothing has been loaded at the start.
LEMMA IInvInit == ASSUME Init PROVE IInv
<1>1. /\ job \in Jobs
      /\ pc = [t \in Thread |-> "load"] /\ input_position = [t \in Thread |-> 0]
      /\ offset = [t \in Thread |-> t[2]] /\ to_store = [t \in Thread |-> {}]
      /\ matches = {} /\ match_count = 0 /\ host = "waiting" /\ report_file = {}
  BY DEF Init
<1>2. /\ DOMAIN slots = Block /\ DOMAIN shrd_chunk = Block
      /\ \A b \in Block : shrd_chunk[b] \in [Tid -> Symbol]
      /\ \A b \in Block : slots[b] \in [{0, 1} -> [Slot -> {Empty, 0}]]
  BY DEF Init
<1>3. ASSUME NEW b \in Block
      PROVE  /\ PhaseOf(b) = 0 /\ Pos(b) = 0 /\ pc[Lead(b)] = "load"
             /\ ActiveStates(b) = nfa(b).start
  BY <1>1, ThreadFacts DEF PhaseOf, Phase, Pos, ActiveStates
<1>4. ASSUME NEW b \in Block PROVE slots[b] \in [{0, 1} -> [Slot -> Sids(nfa(b)) \cup {Empty}]]
  <2>1. 0 \in Sids(nfa(b))
    BY <1>1, BlockFacts
  <2> QED
    BY <1>2, <2>1
<1>5. TypeOK
  <2>1. input_position \in [Thread -> Nat] /\ offset \in [Thread -> Nat] /\ pc \in [Thread -> PCs]
    BY <1>1, ThreadFacts DEF PCs
  <2>2. \A t \in Thread : to_store[t] \subseteq Sids(nfa(t[1]))
    BY <1>1
  <2> QED
    BY <1>1, <1>2, <1>3, <1>4, <2>1, <2>2 DEF TypeOK
<1>6. ASSUME NEW b \in Block PROVE BlockInv(b)
  <2>1. \A t \in ThreadsOf(b) : ThreadInv(t)
    <3> SUFFICES ASSUME NEW t \in ThreadsOf(b) PROVE ThreadInv(t)
      OBVIOUS
    <3>1. t \in Thread /\ t[1] = b /\ t[2] \in Tid /\ t[2] % BlockDim = t[2]
      BY ThreadFacts, SlotFacts
    <3>2. pc[t] = "load" /\ input_position[t] = 0 /\ offset[t] = t[2]
      BY <1>1, <3>1
    <3> QED
      BY <1>3, <3>1, <3>2 DEF ThreadInv, Control, Phase
  <2>2. Positions(b) /\ Sane(b, ActiveStates(b))
    BY <1>1, <1>3, SaneStarts DEF Positions
  <2>3. LoadInv(b)
    <3>1. \A i \in Slot : ~Through(b, i)
      <4> SUFFICES ASSUME NEW i \in Slot PROVE ~Through(b, i)
        OBVIOUS
      <4>1. /\ Owner(b, i) \in Thread /\ Owner(b, i)[2] = i % BlockDim /\ i \in Nat
            /\ i % BlockDim \in Tid /\ i % BlockDim \in Nat
        BY SlotFacts, ThreadFacts
      <4>2. pc[Owner(b, i)] = "load" /\ offset[Owner(b, i)] = i % BlockDim
        BY <1>1, <4>1
      <4>3. i % BlockDim <= i
        BY <4>1, SlotFacts
      <4> QED
        BY <4>1, <4>2, <4>3 DEF Through
    <3> QED
      BY <3>1 DEF LoadInv
  <2> QED
    BY <1>3, <2>1, <2>2, <2>3 DEF BlockInv
<1>7. Shapes
  BY <1>1, <1>2 DEF Shapes
<1>8. Accounts
  BY <1>1, FS_EmptySet DEF Accounts
<1> QED
  BY <1>5, <1>6, <1>7, <1>8 DEF IInv

\* Every step keeps the invariant.
LEMMA IInvNext == ASSUME IInv, [Next]_vars PROVE IInv'
<1>1. CASE \E t \in Thread : ThreadStep(t)
  BY <1>1, ThreadStepKeeps, ThreadStepTypes DEF IInv
<1>2. CASE \E b \in Block : BlockStep(b)
  BY <1>2, BlockStepKeeps
<1>3. CASE Finish
  BY <1>3, FinishKeeps
<1>4. CASE UNCHANGED vars
  BY <1>4, StutterKeeps
<1> QED
  BY <1>1, <1>2, <1>3, <1>4 DEF Next, Terminated

\* It holds in every state of the engine.
LEMMA IInvAlways == Spec => []IInv
BY IInvInit, IInvNext, PTL DEF Spec

-----------------------------------------------------------------------------
(* Active states do not share slots.                                         *)

\* The states in the current slots are pairwise incompatible, for every set of
\* networks, slots that tell incompatible states apart, streams, block size and kernel,
\* whatever the interleaving of the threads.
THEOREM SlotsAreIncompatible == Spec => []ActiveIncompatible
<1>1. IInv => ActiveIncompatible
  BY DEF IInv, BlockInv, Sane, ActiveIncompatible
<1> QED
  BY <1>1, IInvAlways, PTL

-----------------------------------------------------------------------------
(* A symbol is one step of the network read.                                 *)

\* The matches of the symbols that are through.
ThroughMatches == { m \in matches : m[2] < position[m[1]] }

\* A report of the network read, for every copy of its state.
CopiesOf(r) == { <<r[1], r[2], s>> : s \in Copies(Origin(r[1]), {r[3]}) }

\* A state that was split is active in all its copies, and reports in all.
WholeInv ==
    /\ \A b \in Block : Whole(Origin(b), ActiveStates(b))
    /\ \A r \in abs_matches : CopiesOf(r) \subseteq ThroughMatches

\* The reports of the networks read are those of the symbols that are through.
LEMMA AbsMatches ==
    /\ abs_matches = { <<m[1], m[2], Origin(m[1])[m[3]]>> : m \in ThroughMatches }
    /\ job' = job => abs_matches' = { <<m[1], m[2], Origin(m[1])[m[3]]>> : m \in ThroughMatches' }
BY DEF abs_matches, ThroughMatches, Original, Origin

\* The symbols of a block, and what its active states enable, change together.
LEMMA AbsSame ==
    ASSUME job' = job, NEW d \in Block, ActiveStates(d)' = ActiveStates(d),
           (position[d])' = position[d]
    PROVE  /\ position'[d] = position[d] /\ abs_enabled'[d] = abs_enabled[d]
           /\ Whole(Origin(d), ActiveStates(d))' <=> Whole(Origin(d), ActiveStates(d))
<1>1. Origin(d)' = Origin(d)
  BY DEF Origin
<1>2. Whole(Origin(d), ActiveStates(d))' <=> Whole(Origin(d), ActiveStates(d))
  BY <1>1 DEF Whole, Copies, OriginalsOf
<1> QED
  BY <1>2 DEF position, abs_enabled, nfa

\* Neither the networks read nor what they report moves, and what is whole stays whole.
Silent ==
    /\ job' = job /\ position' = position
    /\ abs_enabled' = abs_enabled /\ abs_matches' = abs_matches
    /\ WholeInv => WholeInv'

\* That is so if the active states, the positions and the matches of the symbols that
\* are through stay.
LEMMA SilentStep ==
    ASSUME job' = job, ThroughMatches' = ThroughMatches,
           \A d \in Block : ActiveStates(d)' = ActiveStates(d) /\ (position[d])' = position[d]
    PROVE  Silent
<1>1. \A d \in Block : /\ position'[d] = position[d] /\ abs_enabled'[d] = abs_enabled[d]
                       /\ Whole(Origin(d), ActiveStates(d))' <=> Whole(Origin(d), ActiveStates(d))
  BY AbsSame
<1>2. position' = position /\ abs_enabled' = abs_enabled
  BY <1>1 DEF position, abs_enabled
<1>3. abs_matches' = abs_matches
  BY AbsMatches
<1>4. \A r : CopiesOf(r)' = CopiesOf(r)
  BY DEF CopiesOf, Origin, Copies
<1>5. WholeInv => WholeInv'
  BY <1>1, <1>3, <1>4 DEF WholeInv
<1> QED
  BY <1>2, <1>3, <1>5 DEF Silent

\* The step of a thread is none of the network: what it reports is of a symbol that is
\* not through.
LEMMA ThreadIsSilent ==
    ASSUME IInv, NEW t \in Thread, ThreadStep(t)
    PROVE  Silent
<1>1. ThreadMoves(t)
  BY ThreadMoving
<1>2. job' = job
  BY <1>1 DEF ThreadMoves
<1>3. \A d \in Block : ActiveStates(d)' = ActiveStates(d) /\ (position[d])' = position[d]
  BY <1>2, ActiveKept, PlaceKept
<1>4. position' = position
  BY <1>3 DEF position
<1>5. ASSUME NEW m \in matches', m \notin matches PROVE ~(m[2] < position[m[1]])
  <2>1. m[1] = t[1] /\ m[2] = Pos(t[1]) /\ pc[t] = "output"
    BY <1>1, <1>5 DEF ThreadMoves
  <2>2. t[1] \in Block /\ PhaseOf(t[1]) # 4
    BY <2>1, PhaseFacts
  <2>3. position[t[1]] = Pos(t[1]) /\ Pos(t[1]) \in Nat
    BY <2>2, ArrayFacts
  <2> QED
    BY <2>1, <2>3
<1>6. matches \subseteq matches'
  BY <1>1 DEF ThreadMoves
<1>7. ThroughMatches' = ThroughMatches
  BY <1>4, <1>5, <1>6 DEF ThroughMatches
<1> QED
  BY <1>2, <1>3, <1>7, SilentStep

\* A block reads its next symbol on the networks read, and what is whole stays whole.
Advances(b) ==
    /\ job' = job
    /\ Consumes(abs_job, Block, b, position, abs_enabled, abs_matches,
                position', abs_enabled', abs_matches')
    /\ WholeInv'

\* What a symbol that is through adds to the matches, if its states are whole.
LEMMA MatchesAdvance ==
    ASSUME NEW b \in Block, NEW p, NEW W, Whole(Origin(b), W), job' = job,
           ThroughMatches' = ThroughMatches \cup { <<b, p, s>> : s \in W },
           \A r \in abs_matches : CopiesOf(r) \subseteq ThroughMatches
    PROVE  /\ abs_matches' = abs_matches \cup { <<b, p, s>> : s \in OriginalsOf(Origin(b), W) }
           /\ \A r \in abs_matches' : (CopiesOf(r) \subseteq ThroughMatches)'
<1> DEFINE New == { <<b, p, s>> : s \in W }
           Abs0(M) == { <<m[1], m[2], Origin(m[1])[m[3]]>> : m \in M }
<1>1. abs_matches = Abs0(ThroughMatches) /\ abs_matches' = Abs0(ThroughMatches')
  BY AbsMatches
<1>2. Abs0(ThroughMatches \cup New) = Abs0(ThroughMatches) \cup Abs0(New)
  OBVIOUS
<1>3. Abs0(New) = { <<b, p, s>> : s \in OriginalsOf(Origin(b), W) }
  <2> DEFINE o == Origin(b)
  <2>1. Abs0(New) = { <<b, p, o[s]>> : s \in W }
    <3>1. ASSUME NEW m \in New
          PROVE  <<m[1], m[2], Origin(m[1])[m[3]]>> \in { <<b, p, o[s]>> : s \in W }
      <4>1. PICK s \in W : m = <<b, p, s>>
        OBVIOUS
      <4> QED
        BY <4>1
    <3>2. ASSUME NEW s \in W PROVE <<b, p, o[s]>> \in Abs0(New)
      <4> DEFINE m == <<b, p, s>>
      <4>1. m \in New /\ m[1] = b /\ m[2] = p /\ m[3] = s
        OBVIOUS
      <4> HIDE DEF m, New
      <4> QED
        BY <4>1
    <3> HIDE DEF New
    <3> QED
      BY <3>1, <3>2
  <2> HIDE DEF o, New, Abs0
  <2> QED
    BY <2>1 DEF OriginalsOf, o
<1> HIDE DEF Abs0
<1>4. abs_matches' = abs_matches \cup { <<b, p, s>> : s \in OriginalsOf(Origin(b), W) }
  BY <1>1, <1>2, <1>3
<1>5. ASSUME NEW s \in OriginalsOf(Origin(b), W) PROVE CopiesOf(<<b, p, s>>) \subseteq New
  <2> SUFFICES ASSUME NEW v \in Copies(Origin(b), {s}) PROVE <<b, p, v>> \in New
    BY DEF CopiesOf
  <2>1. v \in Copies(Origin(b), OriginalsOf(Origin(b), W))
    BY <1>5 DEF Copies
  <2>2. v \in W
    BY <2>1 DEF Whole
  <2> QED
    BY <2>2
<1>6. \A r : CopiesOf(r)' = CopiesOf(r)
  BY DEF CopiesOf, Origin, Copies
<1>7. ASSUME NEW r \in abs_matches' PROVE CopiesOf(r) \subseteq ThroughMatches'
  <2> HIDE DEF New
  <2>1. CASE r \in abs_matches
    BY <2>1 DEF New
  <2>2. CASE r \notin abs_matches
    <3>1. PICK s \in OriginalsOf(Origin(b), W) : r = <<b, p, s>>
      BY <1>4, <1>7, <2>2
    <3> QED
      BY <1>5, <3>1 DEF New
  <2> QED
    BY <2>1, <2>2
<1> QED
  BY <1>4, <1>6, <1>7

\* The barrier that ends a symbol is the step of the network; the others are none.
LEMMA BarrierAdvances ==
    ASSUME IInv, WholeInv, NEW b \in Block, BlockStep(b)
    PROVE  Silent \/ Advances(b)
<1>1. /\ job' = job /\ matches' = matches
      /\ \A d \in Block : d # b => ActiveStates(d)' = ActiveStates(d) /\ (position[d])' = position[d]
  BY BlockStepLeaves
<1>2. CASE ActiveStates(b)' = ActiveStates(b) /\ (position[b])' = position[b]
  <2>1. \A d \in Block : ActiveStates(d)' = ActiveStates(d) /\ (position[d])' = position[d]
    BY <1>1, <1>2
  <2>2. position' = position
    BY <2>1 DEF position
  <2>3. ThroughMatches' = ThroughMatches
    BY <1>1, <2>2 DEF ThroughMatches
  <2> QED
    BY <1>1, <2>1, <2>3, SilentStep
<1>3. CASE /\ ActiveStates(b)' = Woken(b) /\ (position[b])' = position[b] + 1
           /\ PhaseOf(b) = 3 /\ \A i \in Slot : Through(b, i)
  <2> DEFINE n == Read(b)
             p == Pos(b)
             c == input(b)[p + 1]
             S == OriginalsOf(Origin(b), Successors(nfa(b), ActiveStates(b)))
             W == Woken(b) \cap nfa(b).report
  <2>1. position[b] = p /\ p \in Nat
    BY <1>3, ArrayFacts
  <2>2. /\ { m \in matches : m[1] = b /\ m[2] = p } = { <<b, p, s>> : s \in W }
        /\ p < Len(input(b))
    BY <1>3, OutputDone
  <2>3. /\ HasAllCopies(nfa(b), Cloned(n), Origin(b)) /\ HasClones(Cloned(n), n)
        /\ DOMAIN Cloned(n).edges = Sids(Cloned(n))
        /\ ActiveStates(b) \subseteq DOMAIN Origin(b) /\ nfa(b).always \subseteq ActiveStates(b)
        /\ Whole(Origin(b), ActiveStates(b))
    BY BlockFacts DEF IInv, TypeOK, BlockInv, Sane, WholeInv
  <2>4. Woken(b) = Activated(nfa(b), Successors(nfa(b), ActiveStates(b)), c)
                      \cup (ActiveStates(b) \cap nfa(b).always)
    BY DEF Woken, Activate
  <2>5. /\ Whole(Origin(b), Woken(b)) /\ Whole(Origin(b), W)
        /\ OriginalsOf(Origin(b), Successors(nfa(b), Woken(b))) = NextEnabled(n, S, c)
        /\ OriginalsOf(Origin(b), W) = Reporting(n, S, c)
    <3> HIDE DEF n, c
    <3> QED
      BY <2>3, <2>4, WholeStep DEF S, W
  <2>6. abs_enabled[b] = S /\ abs_enabled'[b] = NextEnabled(n, S, c)
    BY <1>1, <1>3, <2>5 DEF abs_enabled, nfa, Origin
  <2>7. position'[b] = p + 1
    BY <1>3, <2>1 DEF position
  <2>8. position' = [position EXCEPT ![b] = @ + 1]
    <3>1. DOMAIN position = Block /\ position = [d \in Block |-> position[d]]
          /\ position' = [d \in Block |-> position'[d]]
      BY DEF position
    <3>2. \A d \in Block : d # b => position'[d] = position[d]
      BY <1>1 DEF position
    <3> QED
      BY <2>1, <2>7, <3>1, <3>2
  <2>9. abs_enabled' = [abs_enabled EXCEPT ![b] = NextEnabled(n, @, c)]
    <3>1. DOMAIN abs_enabled = Block /\ abs_enabled = [d \in Block |-> abs_enabled[d]]
          /\ abs_enabled' = [d \in Block |-> abs_enabled'[d]]
      BY DEF abs_enabled
    <3>2. \A d \in Block : d # b => abs_enabled'[d] = abs_enabled[d]
      BY <1>1, AbsSame
    <3> HIDE DEF S, c, n
    <3> QED
      BY <2>6, <3>1, <3>2
  <2>10. ThroughMatches' = ThroughMatches \cup { <<b, p, s>> : s \in W }
    <3>1. ASSUME NEW m \in matches
          PROVE  m[2] < position'[m[1]] <=> m[2] < position[m[1]] \/ (m[1] = b /\ m[2] = p)
      <4>1. m[1] \in Block /\ m[2] \in Nat
        BY DEF IInv, TypeOK
      <4>2. m[1] # b => position'[m[1]] = position[m[1]]
        BY <1>1, <4>1 DEF position
      <4> QED
        BY <2>1, <2>7, <4>1, <4>2
    <3>2. ThroughMatches' = { m \in matches : m[2] < position'[m[1]] }
      BY <1>1 DEF ThroughMatches
    <3> HIDE DEF p, W
    <3> QED
      BY <2>2, <3>1, <3>2 DEF ThroughMatches
  <2>11. /\ abs_matches' = abs_matches \cup { <<b, p, s>> : s \in OriginalsOf(Origin(b), W) }
         /\ \A r \in abs_matches' : (CopiesOf(r) \subseteq ThroughMatches)'
    <3> HIDE DEF p, W
    <3> QED
      BY <1>1, <2>5, <2>10, MatchesAdvance DEF WholeInv
  <2>12. abs_matches' = abs_matches \cup { <<b, p, s>> : s \in Reporting(n, S, c) }
    BY <2>5, <2>11
  <2>13. /\ DOMAIN position = Block /\ DOMAIN abs_enabled = Block
         /\ abs_job.input[b[2]] = input(b) /\ abs_job.nfa[b[1]] = n
    BY DEF position, abs_enabled, input, abs_job, Read
  <2>14. WholeInv'
    <3>1. Whole(Origin(b), ActiveStates(b))'
      <4>1. Origin(b)' = Origin(b)
        BY <1>1 DEF Origin
      <4> QED
        BY <1>3, <2>5, <4>1 DEF Whole, Copies, OriginalsOf
    <3>2. \A d \in Block : d # b => Whole(Origin(d), ActiveStates(d))'
      BY <1>1, AbsSame DEF WholeInv
    <3> QED
      BY <2>11, <3>1, <3>2 DEF WholeInv
  <2>15. Consumes(abs_job, Block, b, position, abs_enabled, abs_matches,
                  position', abs_enabled', abs_matches')
    <3> HIDE DEF n, S, W
    <3> QED
      BY <2>1, <2>2, <2>6, <2>8, <2>9, <2>12, <2>13 DEF Consumes
  <2> QED
    BY <1>1, <2>14, <2>15 DEF Advances
<1> QED
  BY <1>2, <1>3, BlockStepMoves

\* Each step is none, or a symbol's.
LEMMA StepConsumes ==
    ASSUME IInv, WholeInv, [Next]_vars
    PROVE  Silent \/ \E b \in Block : Advances(b)
<1>1. CASE \E t \in Thread : ThreadStep(t)
  BY <1>1, ThreadIsSilent
<1>2. CASE \E b \in Block : BlockStep(b)
  BY <1>2, BarrierAdvances
<1>3. CASE Finish \/ UNCHANGED vars
  <2>1. UNCHANGED <<job, pc, input_position, offset, to_store, slots, shrd_chunk, matches,
                    match_count>>
    BY <1>3 DEF Finish, vars
  <2>2. host' \in {"waiting", "printed", "aborted"}
    BY <1>3 DEF Finish, vars, IInv, TypeOK
  <2>3. \A d \in Block : ActiveStates(d)' = ActiveStates(d) /\ (position[d])' = position[d]
    BY <2>1, <2>2, MemorySame
  <2>4. position' = position
    BY <2>3 DEF position
  <2>5. ThroughMatches' = ThroughMatches
    BY <2>1, <2>4 DEF ThroughMatches
  <2> QED
    BY <2>1, <2>3, <2>5, SilentStep
<1> QED
  BY <1>1, <1>2, <1>3 DEF Next, Terminated

\* Before the first symbol the clones enable the starts.
LEMMA AbsBegins ==
    ASSUME Init
    PROVE  /\ position = [b \in Block |-> 0]
           /\ abs_enabled = [b \in Block |-> abs_job.nfa[b[1]].start]
           /\ abs_matches = {} /\ WholeInv
<1>1. /\ job \in Jobs /\ matches = {} /\ pc = [t \in Thread |-> "load"]
      /\ input_position = [t \in Thread |-> 0]
  BY DEF Init
<1>2. ASSUME NEW b \in Block
      PROVE  /\ position[b] = 0 /\ abs_enabled[b] = Read(b).start
             /\ Whole(Origin(b), ActiveStates(b))
  <2>1. Lead(b) \in Thread
    BY ThreadFacts
  <2>2. position[b] = 0
    BY <1>1, <2>1 DEF position, Swapping
  <2>3. ActiveStates(b) = nfa(b).start
    BY <1>1, <2>1 DEF ActiveStates
  <2>4. /\ HasAllCopies(nfa(b), Cloned(Read(b)), Origin(b)) /\ HasClones(Cloned(Read(b)), Read(b))
        /\ DOMAIN Cloned(Read(b)).edges = Sids(Cloned(Read(b)))
    BY <1>1, BlockFacts
  <2>5. /\ Whole(Origin(b), nfa(b).start)
        /\ OriginalsOf(Origin(b), Successors(nfa(b), nfa(b).start)) = Read(b).start
    BY <2>4, WholeStarts
  <2> QED
    BY <2>2, <2>3, <2>5 DEF abs_enabled, Origin
<1>3. position = [b \in Block |-> 0]
  BY <1>2 DEF position
<1>4. abs_enabled = [b \in Block |-> abs_job.nfa[b[1]].start]
  BY <1>2 DEF abs_enabled, abs_job, Read
<1>5. abs_matches = {}
  BY <1>1 DEF abs_matches
<1> QED
  BY <1>2, <1>3, <1>4, <1>5 DEF WholeInv

\* All copies of a state are active together in every state of the engine.
LEMMA WholeAlways == Spec => [](IInv /\ WholeInv)
<1>1. Init => WholeInv
  BY AbsBegins
<1>2. IInv /\ WholeInv /\ [Next]_vars => WholeInv'
  <2> SUFFICES ASSUME IInv, WholeInv, [Next]_vars PROVE WholeInv'
    OBVIOUS
  <2> QED
    BY StepConsumes DEF Silent, Advances
<1> QED
  BY <1>1, <1>2, IInvAlways, PTL DEF Spec

\* The engine implements EnableActiveNFA on the networks as they were read, before
\* starts were cloned and states split, for every set of networks and streams, block
\* size and number of slots, for both kernels and whatever the interleaving of the
\* threads: no active state is overwritten.
THEOREM Refinement == Spec => Implements
<1>1. Init => Abs!Init
  <2> SUFFICES ASSUME Init PROVE Abs!Init
    OBVIOUS
  <2>1. abs_job \in { [nfa |-> j.read, input |-> j.input] : j \in Jobs }
    BY DEF Init, abs_job
  <2> QED
    BY <2>1, AbsBegins DEF Abs!Init, Abs!Block, Block, Abs!nfa
<1>2. IInv /\ WholeInv /\ [Next]_vars => [Abs!Next]_(Abs!vars)
  <2> SUFFICES ASSUME IInv, WholeInv, [Next]_vars PROVE [Abs!Next]_(Abs!vars)
    OBVIOUS
  <2>1. job' = job => abs_job' = abs_job
    BY DEF abs_job
  <2>2. CASE Silent
    BY <2>1, <2>2 DEF Silent, Abs!vars
  <2>3. CASE \E b \in Block : Advances(b)
    <3>1. PICK b \in Block : Advances(b)
      BY <2>3
    <3>2. Consumes(abs_job, Block, b, position, abs_enabled, abs_matches,
                   position', abs_enabled', abs_matches') /\ abs_job' = abs_job
      BY <2>1, <3>1 DEF Advances
    <3>3. Abs!Consume(b)
      BY <3>2
         DEF Consumes, Abs!Consume, Abs!nfa, Abs!input, Abs!NextEnabled, NextEnabled,
             Abs!Successors, Successors, Abs!Activated, Activated, Abs!match2, match2,
             Abs!Reporting, Reporting
    <3> QED
      BY <3>3 DEF Abs!Next, Abs!Block, Block
  <2> QED
    BY <2>2, <2>3, StepConsumes
<1> QED
  BY <1>1, <1>2, WholeAlways, PTL DEF Spec, Implements, Abs!Spec

-----------------------------------------------------------------------------
(* The engine counts and prints what the networks report.                    *)

\* The networks read are such that only states are enabled.
LEMMA NetworksSound == ASSUME job \in Jobs PROVE Sound(abs_job, Block)
<1> SUFFICES ASSUME NEW b \in Block
             PROVE  LET n == abs_job.nfa[b[1]]
                    IN  /\ n.start \subseteq Sids(n) /\ n.always \subseteq Sids(n)
                        /\ \A s \in Sids(n) : n.edges[s] \subseteq Sids(n)
                        /\ Len(abs_job.input[b[2]]) \in Nat
  BY DEF Sound
<1>1. HasClones(Cloned(Read(b)), Read(b)) /\ Len(input(b)) \in Nat
  BY BlockFacts
<1>2. abs_job.nfa[b[1]] = Read(b) /\ abs_job.input[b[2]] = input(b)
  BY DEF abs_job, Read, input
<1> QED
  BY <1>1, <1>2 DEF HasClones

\* What the blocks have read so far.
Running == RunOf(abs_job, Block, position, abs_enabled, abs_matches)

\* When the threads are done the matches are the reports of the networks, of every
\* copy.
LEMMA DoneMatches ==
    ASSUME IInv, WholeInv, Running, \A t \in Thread : pc[t] = "done"
    PROVE  abs_matches = Expected /\ matches = ExpectedOfCopies /\ ThroughMatches = matches
<1>1. ASSUME NEW b \in Block PROVE position[b] = Len(input(b)) /\ \A m \in matches : m[1] = b => m[2] < position[b]
  <2>1. PhaseOf(b) = 5
    BY ThreadFacts DEF PhaseOf, Phase
  <2>2. position[b] = Pos(b) /\ Pos(b) \in Nat
    BY <2>1, ArrayFacts
  <2> QED
    BY <2>1, <2>2 DEF IInv, BlockInv, Positions
<1>2. ThroughMatches = matches
  <2>1. \A m \in matches : m[1] \in Block
    BY DEF IInv, TypeOK
  <2> QED
    BY <1>1, <2>1 DEF ThroughMatches
<1>3. Sound(abs_job, Block) /\ \A b \in Block : position[b] = Len(abs_job.input[b[2]])
  BY <1>1, NetworksSound DEF IInv, TypeOK, input, abs_job
<1>4. abs_matches = UNION { { <<b, r[1], r[2]>> : r \in ReportsOf(abs_job.nfa[b[1]], abs_job.input[b[2]]) } :
                            b \in Block }
  BY <1>3, RunEnds DEF Running
<1>5. abs_matches = Expected
  BY <1>4 DEF Expected, input, abs_job
<1>6. ExpectedOfCopies = UNION { CopiesOf(r) : r \in abs_matches }
  BY <1>5 DEF ExpectedOfCopies, CopiesOf, Origin
<1>7. ASSUME NEW m \in matches PROVE \E r \in abs_matches : m \in CopiesOf(r)
  <2> DEFINE r == <<m[1], m[2], Origin(m[1])[m[3]]>>
  <2>1. r \in abs_matches
    BY <1>2, AbsMatches
  <2>2. m[1] \in Block /\ m = <<m[1], m[2], m[3]>> /\ m[3] \in DOMAIN Origin(m[1])
    <3>1. m \in Block \X Nat \X Int /\ m[3] \in Sids(nfa(m[1]))
      BY DEF IInv, TypeOK, Accounts
    <3>2. m[1] \in Block /\ m = <<m[1], m[2], m[3]>>
      BY <3>1
    <3> QED
      BY <3>1, <3>2, BlockFacts DEF IInv, TypeOK
  <2>3. m[3] \in Copies(Origin(m[1]), {r[3]})
    BY <2>2 DEF Copies
  <2>4. m \in CopiesOf(r)
    BY <2>2, <2>3 DEF CopiesOf
  <2> QED
    BY <2>1, <2>4
<1>8. matches = UNION { CopiesOf(r) : r \in abs_matches }
  BY <1>2, <1>7 DEF WholeInv
<1> QED
  BY <1>2, <1>5, <1>6, <1>8

\* A copy has the name of the state of the network read.
LEMMA NamesOfCopies ==
    ASSUME job \in Jobs, NEW b \in Block, NEW v \in DOMAIN Origin(b),
           Origin(b)[v] \in Sids(Read(b))
    PROVE  nfa(b).original_id[v] = Read(b).original_id[Origin(b)[v]]
<1>1. /\ HasAllCopies(nfa(b), Cloned(Read(b)), Origin(b)) /\ HasClones(Cloned(Read(b)), Read(b))
  BY BlockFacts
<1>2. nfa(b).original_id[v] = Cloned(Read(b)).original_id[Origin(b)[v]]
  BY <1>1 DEF HasAllCopies, IsCopyOf, SameAttributes
<1> QED
  BY <1>1, <1>2 DEF HasClones

\* When the engine has printed, its file lists the reports of the networks read and
\* nothing else, although every copy of a state has claimed an entry for each, which
\* is what it has counted; it aborts only if these do not fit in the match array: for
\* every set of networks and streams, block size, number of slots and capacity,
\* whatever the interleaving of the threads.
THEOREM ReportsAreExact == Spec => []ReportsExact
<1>1. Init => Running
  <2> SUFFICES ASSUME Init PROVE Running
    OBVIOUS
  <2>1. Sound(abs_job, Block)
    BY NetworksSound DEF Init
  <2> QED
    BY <2>1, AbsBegins, RunBegins DEF Running
<1>2. IInv /\ WholeInv /\ Running /\ [Next]_vars => Running'
  <2> SUFFICES ASSUME IInv, WholeInv, Running, [Next]_vars PROVE Running'
    OBVIOUS
  <2>1. Sound(abs_job, Block)
    BY NetworksSound DEF IInv, TypeOK
  <2>2. CASE Silent
    <3>1. abs_job' = abs_job
      BY <2>2 DEF Silent, abs_job
    <3> QED
      BY <2>2, <3>1 DEF Silent, Running, RunOf, ReportsOfGrid
  <2>3. CASE \E b \in Block : Advances(b)
    <3>1. PICK b \in Block : Advances(b)
      BY <2>3
    <3>2. abs_job' = abs_job
      BY <3>1 DEF Advances, abs_job
    <3>3. RunOf(abs_job, Block, position', abs_enabled', abs_matches')
      BY <2>1, <3>1, RunGoesOn DEF Running, Advances
    <3> QED
      BY <3>2, <3>3 DEF Running, RunOf, ReportsOfGrid
  <2> QED
    BY <2>2, <2>3, StepConsumes
<1>3. IInv /\ WholeInv /\ Running => ReportsExact
  <2> SUFFICES ASSUME IInv, WholeInv, Running, host # "waiting" PROVE ReportsExact
    BY DEF ReportsExact
  <2>1. /\ \A t \in Thread : pc[t] = "done"
        /\ match_count = Cardinality(matches)
        /\ host = "printed" =>
              report_file = { <<m[2], nfa(m[1]).original_id[m[3]]>> : m \in matches }
        /\ host = "aborted" => match_count > Capacity
    BY DEF IInv, Accounts
  <2>2. abs_matches = Expected /\ matches = ExpectedOfCopies /\ ThroughMatches = matches
    BY <2>1, DoneMatches
  <2> DEFINE Name(r) == Read(r[1]).original_id[r[3]]
  <2>3. ASSUME NEW m \in matches
        PROVE  LET r == <<m[1], m[2], Origin(m[1])[m[3]]>>
               IN  r \in Expected /\ nfa(m[1]).original_id[m[3]] = Name(r)
    <3> DEFINE r == <<m[1], m[2], Origin(m[1])[m[3]]>>
    <3>1. r \in Expected
      BY <2>2, AbsMatches
    <3>2. m[1] \in Block /\ m[3] \in DOMAIN Origin(m[1])
      BY BlockFacts DEF IInv, TypeOK
    <3>3. PICK b \in Block : r \in { <<b, q[1], q[2]>> : q \in ReportsOf(job.read[b[1]], input(b)) }
      BY <3>1 DEF Expected
    <3>4. r[1] = b /\ r[3] \in Sids(Read(b))
      BY <3>3 DEF ReportsOf, Read
    <3>5. Origin(m[1])[m[3]] \in Sids(Read(m[1]))
      BY <3>4
    <3>6. nfa(m[1]).original_id[m[3]] = Read(m[1]).original_id[Origin(m[1])[m[3]]]
      BY <3>2, <3>5, NamesOfCopies DEF IInv, TypeOK
    <3> QED
      BY <3>1, <3>6
  <2>4. ASSUME NEW r \in Expected
        PROVE  \E m \in matches : r = <<m[1], m[2], Origin(m[1])[m[3]]>>
    BY <2>2, AbsMatches
  <2>5. { <<m[2], nfa(m[1]).original_id[m[3]]>> : m \in matches } =
           { <<r[2], job.read[r[1][1]].original_id[r[3]]>> : r \in Expected }
    <3> DEFINE L == { <<m[2], nfa(m[1]).original_id[m[3]]>> : m \in matches }
               R == { <<r[2], Name(r)>> : r \in Expected }
    <3>1. ASSUME NEW m \in matches PROVE <<m[2], nfa(m[1]).original_id[m[3]]>> \in R
      <4> DEFINE r == <<m[1], m[2], Origin(m[1])[m[3]]>>
      <4>1. r \in Expected /\ nfa(m[1]).original_id[m[3]] = Name(r) /\ r[2] = m[2]
        BY <2>3
      <4> HIDE DEF r, Name
      <4> QED
        BY <4>1
    <3>2. ASSUME NEW r \in Expected PROVE <<r[2], Name(r)>> \in L
      <4>1. PICK m \in matches : r = <<m[1], m[2], Origin(m[1])[m[3]]>>
        BY <2>4
      <4>2. nfa(m[1]).original_id[m[3]] = Name(r) /\ r[2] = m[2]
        BY <2>3, <4>1
      <4> HIDE DEF Name
      <4> QED
        BY <4>2
    <3>3. L = R
      <4> HIDE DEF Name
      <4> QED
        BY <3>1, <3>2
    <3> QED
      BY <3>3 DEF Read
  <2> QED
    BY <2>1, <2>2, <2>5 DEF ReportsExact
<1> QED
  BY <1>1, <1>2, <1>3, WholeAlways, PTL DEF Spec
=============================================================================
