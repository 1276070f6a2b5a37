---------------------------- MODULE InfantProofs ----------------------------
(***************************************************************************)
(* iNFAnt, for every set of groups, streams and jobs, every block size, word *)
(* width and capacity, whatever the interleaving of the threads: no bit is   *)
(* lost or stale in the state vectors, the kernel implements EnableActiveNFA *)
(* on the networks as they were loaded, and the reports are the networks',   *)
(* a symbol late and without the last symbol's.                              *)
(***************************************************************************)
EXTENDS Infant, NetworkProofs

\* What the threads of a block do together between two barriers.
Phase(p) == IF p \in {"load", "sync0"} THEN 0
            ELSE IF p \in {"sync1", "clear", "sync2"} THEN 1
            ELSE IF p \in {"transit", "sync3"} THEN 2
            ELSE IF p \in {"output", "sync4"} THEN 3
            ELSE IF p \in {"always", "sync5"} THEN 4
            ELSE 5

PhaseOf(b)  == Phase(pc[Lead(b)])
Pos(b)      == input_position[Lead(b)]
SymbolOf(b) == input(b)[Pos(b) + 1]
Acting(b)   == vec[b][ActiveHalf(Pos(b))]

\* What the block's symbol makes of the states the last one activated.
Moved(b) == Activated(nfa(b), Successors(nfa(b), Activations(b)), SymbolOf(b))
Woken(b) == Moved(b) \cup nfa(b).always

\* The loops, the barrier after each, and how many items the loop of a phase is over.
Loops == {"load", "clear", "transit", "output", "always"}
Syncs == {"sync0", "sync2", "sync3", "sync4", "sync5"}
SyncAfter(at) == IF at = "load" THEN "sync0"
                 ELSE IF at = "clear" THEN "sync2"
                 ELSE IF at = "transit" THEN "sync3"
                 ELSE IF at = "output" THEN "sync4"
                 ELSE "sync5"
LimitOf(b) == IF PhaseOf(b) \in {0, 1} THEN BitvecLength
              ELSE IF PhaseOf(b) = 2 THEN Cardinality(Transitions(nfa(b), SymbolOf(b)))
              ELSE nfa(b).size
Item(b) == 0 .. LimitOf(b) - 1

\* The thread of item i, and whether it is through with it.
Owner(b, i)   == <<b, i % BlockDim>>
Through(b, i) == pc[Owner(b, i)] \in Syncs \/ i < offset[Owner(b, i)]

\* Where a thread is, and which item is its next.
Control(t) ==
    LET b == t[1]
    IN  /\ Phase(pc[t]) = PhaseOf(b)
        /\ input_position[t] = Pos(b)
        /\ offset[t] % BlockDim = t[2]
        /\ pc[t] \notin Loops => offset[t] = t[2]

\* The threads of a block are at one symbol, and no report is of a later one.
Positions(b) ==
    /\ PhaseOf(b) = 0 => Pos(b) = 0
    /\ PhaseOf(b) \in {1, 2, 3, 4} => Pos(b) < Len(input(b))
    /\ PhaseOf(b) = 5 => Pos(b) = Len(input(b))
    /\ \A m \in matches : m[1] = b => \/ m[2] < Pos(b)
                                      \/ m[2] = Pos(b) /\ PhaseOf(b) \in {3, 4}

\* The activated states are states, the all-input starts among them.
Sane(b, A) == A \subseteq Sids(nfa(b)) /\ nfa(b).always \subseteq A

\* The words loaded.
LoadInv(b) ==
    \A w \in Item(b) : Through(b, w) => vec[b][1] \cap Word(w) = nfa(b).start \cap Word(w)

\* The words cleared.
ClearInv(b) == \A w \in Item(b) : Through(b, w) => Acting(b) \cap Word(w) = {}

\* The transitions that are through have fired, and no others.
TransitInv(b) ==
    /\ Acting(b) \subseteq Moved(b)
    /\ \A i \in Item(b) :
          LET trans == TransitionAt(nfa(b), SymbolOf(b), i)
          IN  Through(b, i) /\ trans[1] \in Activations(b) => trans[2] \in Acting(b)

\* The states that are through have reported, and no others.
OutputInv(b) ==
    /\ Acting(b) = Moved(b)
    /\ \A m \in matches : m[1] = b /\ m[2] = Pos(b) =>
          m[3] \in Activations(b) \cap nfa(b).report /\ Through(b, m[3])
    /\ ~trapped => \A s \in Activations(b) \cap nfa(b).report :
                      Through(b, s) => <<b, Pos(b), s>> \in matches

\* All have reported; the all-input starts that are through are set.
AlwaysInv(b) ==
    /\ Moved(b) \subseteq Acting(b) /\ Acting(b) \subseteq Woken(b)
    /\ \A s \in nfa(b).always : Through(b, s) => s \in Acting(b)
    /\ \A m \in matches : m[1] = b /\ m[2] = Pos(b) => m[3] \in Activations(b) \cap nfa(b).report
    /\ \A s \in Activations(b) \cap nfa(b).report : <<b, Pos(b), s>> \in matches

PhaseInv(b) ==
    /\ PhaseOf(b) = 0 => LoadInv(b)
    /\ PhaseOf(b) = 1 => ClearInv(b)
    /\ PhaseOf(b) = 2 => TransitInv(b)
    /\ PhaseOf(b) = 3 => OutputInv(b)
    /\ PhaseOf(b) = 4 => AlwaysInv(b)

BlockInv(b) ==
    /\ \A t \in ThreadsOf(b) : Control(t)
    /\ Positions(b)
    /\ Sane(b, Activations(b))
    /\ PhaseInv(b)

\* The report that failed the device assertion is one more than fit.
Trap ==
    /\ Cardinality(matches) = Capacity
    /\ \E b \in Block : /\ PhaseOf(b) = 3
                        /\ \E s \in Activations(b) \cap nfa(b).report :
                              <<b, Pos(b), s>> \notin matches

\* Every match has been counted once; the host reads them when all is done.
Accounts ==
    /\ matches \in SUBSET (Block \X Nat \X Int)
    /\ IsFiniteSet(matches) /\ Cardinality(matches) <= Capacity
    /\ ~trapped => match_count = Cardinality(matches)
    /\ trapped => Trap
    /\ host = "printed" =>
          /\ ~trapped /\ \A t \in Thread : pc[t] = "done"
          /\ report_file = { <<m[2], nfa(m[1]).original_id[m[3]]>> : m \in matches }
    /\ host = "exited" => trapped

\* The shared memory is there for every block.
IInv ==
    /\ TypeOK
    /\ \A b \in Block : BlockInv(b)
    /\ Accounts

-----------------------------------------------------------------------------
(* Networks, blocks and threads.                                             *)

\* The threads of a block.
LEMMA ThreadFacts ==
    /\ \A t \in Thread : /\ t[1] \in Block /\ t[2] \in Tid /\ t = <<t[1], t[2]>>
                         /\ t \in ThreadsOf(t[1])
    /\ \A b \in Block : /\ ThreadsOf(b) \subseteq Thread
                        /\ Lead(b) \in ThreadsOf(b) /\ Lead(b) \in Thread
                        /\ Lead(b)[1] = b /\ Lead(b)[2] = 0
                        /\ \A t \in ThreadsOf(b) : t[1] = b /\ t[2] \in Tid /\ t = <<b, t[2]>>
                        /\ \A i \in Tid : <<b, i>> \in ThreadsOf(b)
    /\ 0 \in Tid /\ Tid \subseteq Nat
BY BlockDimAssumption DEF Thread, Tid, ThreadsOf, Lead

\* An item belongs to one thread of the block; a thread's loop takes it from item to
\* item of its own.
LEMMA ItemFacts ==
    ASSUME NEW b \in Block
    PROVE  /\ \A i \in Nat : /\ Owner(b, i) \in ThreadsOf(b) /\ Owner(b, i) \in Thread
                             /\ Owner(b, i)[1] = b /\ Owner(b, i)[2] = i % BlockDim
                             /\ i % BlockDim \in Tid
           /\ \A t \in Tid : t % BlockDim = t
           /\ \A o \in Nat : (o + BlockDim) % BlockDim = o % BlockDim
           /\ \A i, o \in Nat :
                 o <= i /\ i < o + BlockDim /\ i % BlockDim = o % BlockDim => i = o
           /\ \A i \in Nat, t \in Tid : i % BlockDim = t => t <= i
<1>1. ASSUME NEW i \in Nat PROVE i % BlockDim \in Tid
  BY BlockDimAssumption, StridesOf DEF Tid
<1>2. \A i \in Nat : /\ Owner(b, i) \in ThreadsOf(b) /\ Owner(b, i) \in Thread
                     /\ Owner(b, i)[1] = b /\ Owner(b, i)[2] = i % BlockDim
  BY <1>1, ThreadFacts DEF Owner
<1>3. \A t \in Tid : t % BlockDim = t
  BY BlockDimAssumption, StridesOf DEF Tid
<1>4. \A o \in Nat : (o + BlockDim) % BlockDim = o % BlockDim
  BY BlockDimAssumption, StridesOf
<1>5. \A i, o \in Nat :
         o <= i /\ i < o + BlockDim /\ i % BlockDim = o % BlockDim => i = o
  BY BlockDimAssumption, StridesOf
<1>6. ASSUME NEW i \in Nat, NEW t \in Tid, i % BlockDim = t, i < t PROVE FALSE
  <2>1. i \in Tid /\ t \in Nat
    BY <1>6, ThreadFacts, BlockDimAssumption DEF Tid
  <2> QED
    BY <1>3, <1>6, <2>1
<1>7. \A i \in Nat, t \in Tid : i % BlockDim = t => t <= i
  BY <1>6, ThreadFacts
<1> QED
  BY <1>1, <1>2, <1>3, <1>4, <1>5, <1>7

\* The network of a block and its stream, from the assumption on Jobs.
LEMMA BlockFacts ==
    ASSUME job \in Jobs, NEW b \in Block
    PROVE  /\ HasClones(nfa(b), job.nfa[b[1]])
           /\ input(b) \in Seq(Symbol) /\ Len(input(b)) \in Nat
           /\ Sids(nfa(b)) \subseteq Nat /\ nfa(b).size \in Nat \ {0} /\ nfa(b).size <= 2 * MaxInt
           /\ nfa(b).start \subseteq Sids(nfa(b)) /\ nfa(b).always \subseteq nfa(b).start
           /\ nfa(b).report \subseteq Sids(nfa(b)) /\ nfa(b).start \cap nfa(b).report = {}
           /\ \A s \in Sids(nfa(b)) : nfa(b).edges[s] \subseteq Sids(nfa(b))
<1> DEFINE n == job.nfa[b[1]]
<1>1. b[1] \in Group /\ b[2] \in Stream
  BY DEF Block
<1>2. IsNetwork(n, MaxInt, Symbol, Id) /\ MaxInt \in Nat
  <2>1. MaxInt \in Nat
    BY SMT DEF MaxInt
  <2> QED
    BY <1>1, <2>1, JobsAssumption
<1>3. input(b) \in Seq(Symbol)
  BY <1>1, JobsAssumption DEF input
<1>4. /\ n.size \in Nat /\ n.size \in 1 .. MaxInt
      /\ n.start \subseteq Sids(n) /\ n.always \subseteq n.start
      /\ n.report \subseteq Sids(n) /\ \A s \in Sids(n) : n.edges[s] \subseteq Sids(n)
  BY <1>2 DEF IsNetwork
<1>5. HasClones(nfa(b), n)
  <2> HIDE DEF n
  <2>1. HasClones(Cloned(n), n)
    BY <1>4, ClonedHasClones
  <2> QED
    BY <2>1 DEF nfa, n
<1>6. nfa(b).size <= 2 * MaxInt
  <2> HIDE DEF n
  <2>1. IsFiniteSet(0 .. n.size - 1) /\ Cardinality(0 .. n.size - 1) = n.size
    BY <1>4, FS_Interval
  <2>2. Cardinality(n.start) <= n.size /\ Cardinality(n.start) \in Nat
    BY <1>4, <2>1, FS_Subset, FS_CardinalityType DEF Sids
  <2>3. Cloned(n).size = n.size + Cardinality(n.start)
    BY DEF Cloned
  <2>4. nfa(b) = Cloned(n)
    BY DEF nfa, n
  <2> QED
    BY <1>2, <1>4, <2>2, <2>3, <2>4
<1> HIDE DEF n
<1>7. /\ Sids(nfa(b)) \subseteq Nat /\ nfa(b).size \in Nat \ {0}
      /\ nfa(b).start \subseteq Sids(nfa(b)) /\ nfa(b).always \subseteq nfa(b).start
      /\ Sids(n) \subseteq Sids(nfa(b))
      /\ nfa(b).report \subseteq Sids(nfa(b)) /\ nfa(b).start \cap nfa(b).report = {}
  BY <1>4, <1>5 DEF HasClones, Sids
<1>8. ASSUME NEW s \in Sids(nfa(b)) PROVE nfa(b).edges[s] \subseteq Sids(nfa(b))
  <2>1. CASE s \in Sids(n)
    BY <1>5, <1>7, <2>1 DEF HasClones
  <2>2. CASE s \notin Sids(n)
    <3>1. s \in nfa(b).start
      BY <1>5, <2>2 DEF HasClones, Sids
    <3>2. \E u \in n.start : nfa(b).edges[s] = {u}
      BY <1>5, <3>1 DEF HasClones
    <3> QED
      BY <1>4, <1>7, <3>2
  <2> QED
    BY <2>1, <2>2
<1>9. Len(input(b)) \in Nat
  BY <1>3
<1> QED
  BY <1>3, <1>5, <1>6, <1>7, <1>8, <1>9 DEF n

\* Number a is in the word numbered by its quotient, which is at most a.
LEMMA QuotientOf ==
    ASSUME NEW d \in Nat \ {0}, NEW a \in Nat
    PROVE  LET q == a \div d
           IN  /\ q \in Nat /\ q <= a /\ d * q \in Nat
               /\ d * q <= a /\ a < (d * q) + d /\ d * (q + 1) = (d * q) + d
<1> DEFINE q == a \div d
           r == a % d
<1>1. q \in Nat /\ r \in 0 .. d - 1 /\ a = (q * d) + r
  BY SMTT(30)
<1> HIDE DEF q, r
<1>2. q * d = d * q /\ d * q \in Nat /\ d * (q + 1) = (d * q) + d
  BY <1>1, SMTT(30)
<1>3. q <= d * q
  BY <1>1, SMTT(30)
<1>4. q <= a /\ d * q <= a /\ a < (d * q) + d
  BY <1>1, <1>2, <1>3
<1> QED
  BY <1>1, <1>2, <1>4 DEF q

\* The vectors are long enough, and each bit of theirs is in a word.
LEMMA VectorFacts ==
    ASSUME job \in Jobs, NEW b \in Block
    PROVE  /\ BitvecLength \in Nat
           /\ Sids(nfa(b)) \subseteq 0 .. WordBits * BitvecLength - 1
           /\ \A s \in 0 .. WordBits * BitvecLength - 1 : \E w \in 0 .. BitvecLength - 1 : s \in Word(w)
<1> DEFINE W(d) == nfa(d).size \div WordBits + 1
           words == { W(d) : d \in Block }
<1>1. ASSUME NEW d \in Block
      PROVE  W(d) \in Nat /\ W(d) <= 2 * MaxInt + 1 /\ nfa(d).size <= WordBits * W(d)
  <2>1. nfa(d).size \in Nat /\ nfa(d).size <= 2 * MaxInt /\ MaxInt \in Nat
    <3>1. MaxInt \in Nat
      BY SMT DEF MaxInt
    <3> QED
      BY <3>1, BlockFacts
  <2> DEFINE size == nfa(d).size
             q == size \div WordBits
  <2>2. /\ q \in Nat /\ q <= size /\ WordBits * q \in Nat
        /\ size < (WordBits * q) + WordBits /\ WordBits * (q + 1) = (WordBits * q) + WordBits
    BY <2>1, WordBitsAssumption, QuotientOf
  <2> HIDE DEF q
  <2>3. size <= WordBits * (q + 1)
    BY <2>1, <2>2, WordBitsAssumption
  <2>4. W(d) = q + 1
    BY DEF q
  <2> QED
    BY <2>1, <2>2, <2>3, <2>4
<1> HIDE DEF W
<1>2. words \subseteq Nat /\ words # {} /\ \A k \in words : k <= 2 * MaxInt + 1
  BY <1>1
<1>3. PICK m \in words : \A k \in words : k <= m
  <2>1. 2 * MaxInt + 1 \in Nat
    BY SMT DEF MaxInt
  <2> HIDE DEF words
  <2> QED
    BY <1>2, <2>1, Greatest
<1>4. BitvecLength = CHOOSE w \in words : \A v \in words : v <= w
  BY DEF BitvecLength, W
<1>5. BitvecLength \in words /\ \A v \in words : v <= BitvecLength
  <2> HIDE DEF words
  <2> QED
    BY <1>3, <1>4
<1>6. BitvecLength \in Nat /\ W(b) \in Nat /\ W(b) <= BitvecLength
  BY <1>1, <1>2, <1>5
<1>7. nfa(b).size <= WordBits * BitvecLength
  <2>1. WordBits * W(b) <= WordBits * BitvecLength
    BY <1>6, WordBitsAssumption, SMTT(30)
  <2>2. WordBits * W(b) \in Nat /\ WordBits * BitvecLength \in Nat /\ nfa(b).size \in Nat
    BY <1>6, WordBitsAssumption, BlockFacts, SMTT(30)
  <2> QED
    BY <1>1, <2>1, <2>2
<1>8. Sids(nfa(b)) \subseteq 0 .. WordBits * BitvecLength - 1
  <2>1. nfa(b).size \in Nat /\ WordBits * BitvecLength \in Nat
    BY <1>6, WordBitsAssumption, BlockFacts, SMTT(30)
  <2> QED
    BY <1>7, <2>1 DEF Sids
<1>9. ASSUME NEW s \in 0 .. WordBits * BitvecLength - 1
      PROVE  \E w \in 0 .. BitvecLength - 1 : s \in Word(w)
  <2> DEFINE q == s \div WordBits
  <2>1. s \in Nat /\ s < WordBits * BitvecLength
    BY <1>6, WordBitsAssumption, SMTT(30)
  <2>2. q \in Nat /\ WordBits * q \in Nat /\ WordBits * q <= s /\ s < (WordBits * q) + WordBits
    BY <2>1, WordBitsAssumption, QuotientOf
  <2> HIDE DEF q
  <2>4. s \in Word(q)
    BY <2>1, <2>2, WordBitsAssumption DEF Word
  <2>3. q < BitvecLength
    <3> SUFFICES ASSUME BitvecLength <= q PROVE FALSE
      BY <1>6, <2>2
    <3>1. WordBits * BitvecLength <= WordBits * q
      BY <1>6, <2>2, WordBitsAssumption, SMTT(30)
    <3>2. WordBits * BitvecLength \in Nat
      BY <1>6, WordBitsAssumption, SMTT(30)
    <3> QED
      BY <2>1, <2>2, <3>1, <3>2
  <2>5. q \in 0 .. BitvecLength - 1
    BY <1>6, <2>2, <2>3
  <2> QED
    BY <2>4, <2>5
<1> QED
  BY <1>6, <1>8, <1>9

\* The table of a symbol has each of its transitions once, and no others.
LEMMA TransitionFacts ==
    ASSUME NEW n, n.size \in Nat, NEW c
    PROVE  /\ Cardinality(Transitions(n, c)) \in Nat
           /\ \A i \in 0 .. Cardinality(Transitions(n, c)) - 1 :
                 TransitionAt(n, c, i) \in Transitions(n, c)
           /\ \A e \in Transitions(n, c) : \E i \in 0 .. Cardinality(Transitions(n, c)) - 1 :
                 TransitionAt(n, c, i) = e
<1> DEFINE S == Transitions(n, c)
           R == { p \in S \X S : p[1][1] < p[2][1] \/ (p[1][1] = p[2][1] /\ p[1][2] < p[2][2]) }
<1>1. \A e \in S : e[1] \in Nat /\ e[2] \in Nat /\ e = <<e[1], e[2]>>
  BY DEF Transitions, Sids
<1>2. IsFiniteSet(S)
  <2>1. IsFiniteSet(Sids(n))
    BY FS_Interval DEF Sids
  <2>2. IsFiniteSet(Sids(n) \X Sids(n))
    BY <2>1, FS_Product
  <2>3. S \subseteq Sids(n) \X Sids(n)
    BY DEF Transitions
  <2> QED
    BY <2>2, <2>3, FS_Subset
<1> HIDE DEF S
<1>3. \A x, y \in S : <<x, y>> \in R <=> x[1] < y[1] \/ (x[1] = y[1] /\ x[2] < y[2])
  OBVIOUS
<1>4. \A i : TransitionAt(n, c, i) = CHOOSE e \in S : RankBy(S, R, e) = i
  <2>1. \A e \in S : RankBy(S, R, e)
                        = Cardinality({ f \in S : f[1] < e[1] \/ (f[1] = e[1] /\ f[2] < e[2]) })
    <3> SUFFICES ASSUME NEW e \in S
                 PROVE  { f \in S : <<f, e>> \in R }
                           = { f \in S : f[1] < e[1] \/ (f[1] = e[1] /\ f[2] < e[2]) }
      BY DEF RankBy
    <3> HIDE DEF R
    <3> QED
      BY <1>3
  <2> HIDE DEF R
  <2>2. \A i : (CHOOSE e \in S : RankBy(S, R, e) = i) =
               CHOOSE e \in S : Cardinality({ f \in S : f[1] < e[1] \/ (f[1] = e[1] /\ f[2] < e[2]) }) = i
    BY <2>1, Zenon
  <2> QED
    BY <2>2 DEF TransitionAt, S
<1> HIDE DEF R
<1>5. \A x \in S : <<x, x>> \notin R
  BY <1>1, <1>3
<1>6. ASSUME NEW x \in S, NEW y \in S, NEW z \in S, <<x, y>> \in R, <<y, z>> \in R
      PROVE  <<x, z>> \in R
  <2>1. x[1] \in Nat /\ x[2] \in Nat /\ y[1] \in Nat /\ y[2] \in Nat /\ z[1] \in Nat /\ z[2] \in Nat
    BY <1>1
  <2>2. /\ x[1] < y[1] \/ (x[1] = y[1] /\ x[2] < y[2])
        /\ y[1] < z[1] \/ (y[1] = z[1] /\ y[2] < z[2])
    BY <1>3, <1>6
  <2>3. x[1] < z[1] \/ (x[1] = z[1] /\ x[2] < z[2])
    BY <2>1, <2>2
  <2> QED
    BY <1>3, <2>3
<1>7. ASSUME NEW x \in S, NEW y \in S, x # y PROVE <<x, y>> \in R \/ <<y, x>> \in R
  <2>1. x[1] \in Nat /\ x[2] \in Nat /\ y[1] \in Nat /\ y[2] \in Nat
    BY <1>1
  <2>2. x[1] # y[1] \/ x[2] # y[2]
    BY <1>1, <1>7
  <2> QED
    BY <1>3, <2>1, <2>2
<1>8. /\ Cardinality(S) \in Nat
      /\ \A k \in 0 .. Cardinality(S) - 1 : \E s \in S : RankBy(S, R, s) = k
      /\ \A s \in S : RankBy(S, R, s) \in 0 .. Cardinality(S) - 1
      /\ \A s, u \in S : RankBy(S, R, s) = RankBy(S, R, u) => s = u
  BY <1>2, <1>5, <1>6, <1>7, OrderRanks
<1>9. ASSUME NEW i \in 0 .. Cardinality(S) - 1
      PROVE  TransitionAt(n, c, i) \in S /\ RankBy(S, R, TransitionAt(n, c, i)) = i
  BY <1>4, <1>8
<1>10. ASSUME NEW e \in S PROVE \E i \in 0 .. Cardinality(S) - 1 : TransitionAt(n, c, i) = e
  BY <1>8, <1>9
<1> QED
  BY <1>8, <1>9, <1>10 DEF S

\* No bit is in two words.
LEMMA WordsApart ==
    ASSUME NEW v \in Nat, NEW w \in Nat, v # w
    PROVE  Word(v) \cap Word(w) = {}
<1> SUFFICES ASSUME NEW s \in Word(v), s \in Word(w) PROVE FALSE
  OBVIOUS
<1>1. WordBits * v \in Nat /\ WordBits * w \in Nat
  BY WordBitsAssumption, SMTT(30)
<1>2. /\ WordBits * v <= s /\ s < (WordBits * v) + WordBits /\ s \in Int
      /\ WordBits * w <= s /\ s < (WordBits * w) + WordBits
  BY <1>1, WordBitsAssumption DEF Word
<1>3. WordBits * (v - w) = (WordBits * v) - (WordBits * w)
  BY WordBitsAssumption, SMTT(30)
<1>4. WordBits * (v - w) < WordBits /\ WordBits * (v - w) > 0 - WordBits
  BY <1>1, <1>2, <1>3, WordBitsAssumption
<1>5. v - w < 1 /\ v - w > -1
  BY <1>4, WordBitsAssumption, SMTT(30)
<1> QED
  BY <1>5

\* What the last symbol activated is the start states, then one of the vectors, and the
\* next is made in the other.
LEMMA VectorsAre ==
    ASSUME NEW b \in Block
    PROVE  /\ Activations(b) = IF PhaseOf(b) = 0 THEN nfa(b).start ELSE vec[b][EnabledHalf(Pos(b))]
           /\ Activations(b)' = IF PhaseOf(b)' = 0 THEN nfa(b).start'
                                ELSE vec'[b][EnabledHalf(Pos(b)')]
           /\ position[b] = Pos(b) /\ (position[b])' = Pos(b)'
           /\ Acting(b) = vec[b][ActiveHalf(Pos(b))] /\ Acting(b)' = vec'[b][ActiveHalf(Pos(b)')]
           /\ \A p \in Nat : /\ EnabledHalf(p) \in {0, 1} /\ ActiveHalf(p) \in {0, 1}
                             /\ EnabledHalf(p) # ActiveHalf(p) /\ EnabledHalf(p + 1) = ActiveHalf(p)
           /\ EnabledHalf(0) = 1
<1>1. position[b] = Pos(b) /\ (position[b])' = Pos(b)'
  BY DEF position, Pos, Lead
<1>2. /\ pc[Lead(b)] \in {"load", "sync0"} <=> PhaseOf(b) = 0
      /\ pc'[Lead(b)] \in {"load", "sync0"} <=> PhaseOf(b)' = 0
  BY DEF PhaseOf, Phase, Lead
<1>3. Activations(b) = IF PhaseOf(b) = 0 THEN nfa(b).start ELSE vec[b][EnabledHalf(Pos(b))]
  BY <1>1, <1>2 DEF Activations
<1>4. Activations(b)' = IF PhaseOf(b)' = 0 THEN nfa(b).start' ELSE vec'[b][EnabledHalf(Pos(b)')]
  <2>1. Activations(b)' = IF pc'[Lead(b)] \in {"load", "sync0"} THEN nfa(b).start'
                          ELSE vec'[b][EnabledHalf((position[b])')]
    BY DEF Activations, Lead, EnabledHalf
  <2> QED
    BY <1>1, <1>2, <2>1
<1>5. Acting(b) = vec[b][ActiveHalf(Pos(b))] /\ Acting(b)' = vec'[b][ActiveHalf(Pos(b)')]
  BY DEF Acting, ActiveHalf
<1>6. ASSUME NEW p \in Nat
      PROVE  /\ EnabledHalf(p) \in {0, 1} /\ ActiveHalf(p) \in {0, 1}
             /\ EnabledHalf(p) # ActiveHalf(p) /\ EnabledHalf(p + 1) = ActiveHalf(p)
  <2>1. p + 2 = (p + 1) + 1 /\ (p + 2) % 2 = p % 2
    BY SMTT(30)
  <2>2. p % 2 \in {0, 1} /\ (p + 1) % 2 \in {0, 1} /\ p % 2 # (p + 1) % 2
    BY SMTT(30)
  <2> QED
    BY <2>1, <2>2 DEF EnabledHalf, ActiveHalf
<1>7. EnabledHalf(0) = 1
  BY SMT DEF EnabledHalf
<1> QED
  BY <1>1, <1>3, <1>4, <1>5, <1>6, <1>7

\* While a block is in one phase of one symbol, what its loop is over stays.
LEMMA PlaceSame ==
    ASSUME NEW d \in Block, job' = job, PhaseOf(d)' = PhaseOf(d), Pos(d)' = Pos(d)
    PROVE  /\ nfa(d)' = nfa(d) /\ input(d)' = input(d) /\ SymbolOf(d)' = SymbolOf(d)
           /\ BitvecLength' = BitvecLength
           /\ LimitOf(d)' = LimitOf(d) /\ Item(d)' = Item(d)
           /\ Activations(d)' = Activations(d) => Moved(d)' = Moved(d) /\ Woken(d)' = Woken(d)
           /\ vec'[d][EnabledHalf(Pos(d))] = vec[d][EnabledHalf(Pos(d))]
                 => Activations(d)' = Activations(d)
<1>1. \A c \in Block : nfa(c)' = nfa(c)
  BY DEF nfa
<1>2. nfa(d)' = nfa(d) /\ input(d)' = input(d)
  BY DEF nfa, input
<1>3. SymbolOf(d)' = SymbolOf(d)
  BY <1>2 DEF SymbolOf
<1>4. BitvecLength' = BitvecLength
  <2>1. { nfa(c).size \div WordBits + 1 : c \in Block }'
           = { nfa(c).size \div WordBits + 1 : c \in Block }
    BY <1>1
  <2> QED
    BY <2>1 DEF BitvecLength
<1>5. LimitOf(d)' = LimitOf(d)
  BY <1>2, <1>3, <1>4 DEF LimitOf
<1>6. Item(d)' = Item(d)
  BY <1>5 DEF Item
<1>7. Activations(d)' = Activations(d) => Moved(d)' = Moved(d)
  BY <1>2, <1>3 DEF Moved
<1>8. Moved(d)' = Moved(d) => Woken(d)' = Woken(d)
  BY <1>2 DEF Woken
<1>9. vec'[d][EnabledHalf(Pos(d))] = vec[d][EnabledHalf(Pos(d))] => Activations(d)' = Activations(d)
  BY <1>2, VectorsAre
<1> QED
  BY <1>2, <1>3, <1>4, <1>5, <1>6, <1>7, <1>8, <1>9

-----------------------------------------------------------------------------
(* The steps of the threads.                                                 *)

\* An iteration of the loop a thread is in, or the end of it.
Iterates(t) ==
    /\ ~trapped /\ UNCHANGED <<job, input_position, host, report_file>>
    /\ pc[t] \in Loops /\ pc' \in [Thread -> PCs] /\ offset' \in [Thread -> Nat]
    /\ \A u \in Thread : u # t => pc'[u] = pc[u] /\ offset'[u] = offset[u]
    /\ IF offset[t] < LimitOf(t[1])
       THEN pc'[t] = pc[t] /\ offset'[t] = offset[t] + BlockDim
       ELSE pc'[t] = SyncAfter(pc[t]) /\ offset'[t] = t[2]

\* The loops differ in what they are over.
LEMMA LimitsAre ==
    ASSUME TypeOK, NEW t \in Thread, BlockInv(t[1])
    PROVE  /\ Control(t) /\ LimitOf(t[1]) \in Nat
           /\ pc[t] \in {"load", "clear"} => LimitOf(t[1]) = BitvecLength
           /\ pc[t] = "transit" =>
                 LimitOf(t[1]) = Cardinality(Transitions(nfa(t[1]), input(t[1])[input_position[t] + 1]))
           /\ pc[t] \in {"output", "always"} => LimitOf(t[1]) = nfa(t[1]).size
<1> DEFINE b == t[1]
<1>1. b \in Block /\ t \in ThreadsOf(b)
  BY ThreadFacts
<1>2. Control(t)
  BY <1>1 DEF BlockInv
<1>3. Phase(pc[t]) = PhaseOf(b) /\ input_position[t] = Pos(b)
  BY <1>2 DEF Control
<1>4. /\ BitvecLength \in Nat /\ nfa(b).size \in Nat
      /\ Cardinality(Transitions(nfa(b), SymbolOf(b))) \in Nat
  BY <1>1, VectorFacts, BlockFacts, TransitionFacts DEF TypeOK
<1>5. LimitOf(b) \in Nat
  BY <1>4 DEF LimitOf
<1>6. pc[t] \in {"load", "clear"} => PhaseOf(b) \in {0, 1}
  BY <1>3 DEF Phase
<1>7. pc[t] = "transit" => PhaseOf(b) = 2
  BY <1>3 DEF Phase
<1>8. pc[t] \in {"output", "always"} => PhaseOf(b) \in {3, 4}
  BY <1>3 DEF Phase
<1>9. SymbolOf(b) = input(b)[input_position[t] + 1]
  BY <1>3 DEF SymbolOf
<1> QED
  BY <1>2, <1>5, <1>6, <1>7, <1>8, <1>9 DEF LimitOf

\* Each step of a thread is an iteration of its loop.
LEMMA StepIterates ==
    ASSUME TypeOK, NEW t \in Thread, BlockInv(t[1]), ThreadStep(t)
    PROVE  /\ Iterates(t)
           /\ pc[t] = "load" => Load(t)
           /\ pc[t] = "clear" => ClearActive(t)
           /\ pc[t] = "transit" => Transit(t)
           /\ pc[t] = "output" => Output(t)
           /\ pc[t] = "always" => AlwaysEnabled(t)
<1>1. /\ pc[t] \in Loops
      /\ pc[t] = "load" => Load(t)
      /\ pc[t] = "clear" => ClearActive(t)
      /\ pc[t] = "transit" => Transit(t)
      /\ pc[t] = "output" => Output(t)
      /\ pc[t] = "always" => AlwaysEnabled(t)
  <2>1. CASE Load(t)
    BY <2>1 DEF Load, Loop, Loops
  <2>2. CASE ClearActive(t)
    BY <2>2 DEF ClearActive, Loop, Loops
  <2>3. CASE Transit(t)
    BY <2>3 DEF Transit, Loop, Loops
  <2>4. CASE Output(t)
    BY <2>4 DEF Output, Loop, Loops
  <2>5. CASE AlwaysEnabled(t)
    BY <2>5 DEF AlwaysEnabled, Loop, Loops
  <2> QED
    BY <2>1, <2>2, <2>3, <2>4, <2>5 DEF ThreadStep
<1>2. Loop(t, pc[t], LimitOf(t[1]), SyncAfter(pc[t]))
  <2>1. CASE pc[t] = "load"
    <3>1. Loop(t, "load", BitvecLength, "sync0")
      BY <1>1, <2>1 DEF Load
    <3> QED
      BY <2>1, <3>1, LimitsAre DEF SyncAfter
  <2>2. CASE pc[t] = "clear"
    <3>1. Loop(t, "clear", BitvecLength, "sync2")
      BY <1>1, <2>2 DEF ClearActive
    <3> QED
      BY <2>2, <3>1, LimitsAre DEF SyncAfter
  <2>3. CASE pc[t] = "transit"
    <3>1. Loop(t, "transit", Cardinality(Transitions(nfa(t[1]), input(t[1])[input_position[t] + 1])),
               "sync3")
      BY <1>1, <2>3 DEF Transit
    <3> QED
      BY <2>3, <3>1, LimitsAre DEF SyncAfter
  <2>4. CASE pc[t] = "output"
    <3>1. Loop(t, "output", nfa(t[1]).size, "sync4")
      BY <1>1, <2>4 DEF Output
    <3> QED
      BY <2>4, <3>1, LimitsAre DEF SyncAfter
  <2>5. CASE pc[t] = "always"
    <3>1. Loop(t, "always", nfa(t[1]).size, "sync5")
      BY <1>1, <2>5 DEF AlwaysEnabled
    <3> QED
      BY <2>5, <3>1, LimitsAre DEF SyncAfter
  <2> QED
    BY <1>1, <2>1, <2>2, <2>3, <2>4, <2>5 DEF Loops
<1>3. SyncAfter(pc[t]) \in PCs
  BY DEF SyncAfter, PCs
<1>4. t[2] \in Nat /\ BlockDim \in Nat
  BY ThreadFacts, BlockDimAssumption
<1>5. /\ pc \in [Thread -> PCs] /\ offset \in [Thread -> Nat]
  BY DEF TypeOK
<1>6. /\ pc' \in [Thread -> PCs] /\ offset' \in [Thread -> Nat]
      /\ \A u \in Thread : u # t => pc'[u] = pc[u] /\ offset'[u] = offset[u]
      /\ IF offset[t] < LimitOf(t[1])
         THEN pc'[t] = pc[t] /\ offset'[t] = offset[t] + BlockDim
         ELSE pc'[t] = SyncAfter(pc[t]) /\ offset'[t] = t[2]
  <2>1. CASE offset[t] < LimitOf(t[1])
    BY <1>2, <1>4, <1>5, <2>1 DEF Loop
  <2>2. CASE ~(offset[t] < LimitOf(t[1]))
    BY <1>2, <1>3, <1>4, <1>5, <2>2 DEF Loop
  <2> QED
    BY <2>1, <2>2
<1> QED
  BY <1>1, <1>2, <1>6 DEF Iterates, Loop

\* The thread and all blocks stay in their phase.
LEMMA IterationPlace ==
    ASSUME TypeOK, NEW t \in Thread, BlockInv(t[1]), Iterates(t)
    PROVE  /\ \A d \in Block : PhaseOf(d)' = PhaseOf(d) /\ Pos(d)' = Pos(d)
           /\ Control(t)'
<1>1. t[1] \in Block /\ Control(t) /\ t[2] \in Tid /\ LimitOf(t[1]) \in Nat
  BY ThreadFacts, LimitsAre
<1>2. Phase(SyncAfter(pc[t])) = Phase(pc[t]) /\ SyncAfter(pc[t]) \notin Loops
  BY DEF Iterates, Loops, SyncAfter, Phase
<1>3. Phase(pc'[t]) = Phase(pc[t]) /\ input_position' = input_position
  BY <1>2 DEF Iterates
<1>4. ASSUME NEW d \in Block PROVE PhaseOf(d)' = PhaseOf(d) /\ Pos(d)' = Pos(d)
  <2>1. Lead(d) \in Thread
    BY ThreadFacts
  <2>2. Phase(pc'[Lead(d)]) = Phase(pc[Lead(d)])
    BY <1>3, <2>1 DEF Iterates
  <2> QED
    BY <1>3, <2>2 DEF PhaseOf, Pos, Lead, Phase
<1>5. offset'[t] % BlockDim = t[2] /\ (pc'[t] \notin Loops => offset'[t] = t[2])
  <2>1. offset[t] \in Nat /\ offset[t] % BlockDim = t[2]
    BY <1>1 DEF TypeOK, Control
  <2>2. CASE offset[t] < LimitOf(t[1])
    BY <1>1, <2>1, <2>2, ItemFacts DEF Iterates
  <2>3. CASE ~(offset[t] < LimitOf(t[1]))
    BY <1>1, <2>3, ItemFacts DEF Iterates
  <2> QED
    BY <2>2, <2>3
<1>6. Control(t)'
  <2>1. Phase(pc'[t]) = PhaseOf(t[1])' /\ input_position'[t] = Pos(t[1])'
    BY <1>1, <1>3, <1>4 DEF Control
  <2> QED
    BY <1>5, <2>1 DEF Control
<1> QED
  BY <1>4, <1>6

\* An iteration gets the thread through its item, and through no other.
LEMMA IterationThrough ==
    ASSUME TypeOK, NEW t \in Thread, BlockInv(t[1]), Iterates(t)
    PROVE  /\ \A i \in Item(t[1]) : Through(t[1], i)' <=> Through(t[1], i) \/ i = offset[t]
           /\ offset[t] < LimitOf(t[1]) => offset[t] \in Item(t[1]) /\ ~Through(t[1], offset[t])
           /\ Item(t[1]) \subseteq Nat /\ offset[t] \in Nat
<1> DEFINE b == t[1]
           o == offset[t]
<1>1. b \in Block /\ t[2] \in Tid /\ t = <<b, t[2]>> /\ LimitOf(b) \in Nat /\ Control(t)
  BY ThreadFacts, LimitsAre
<1>2. o \in Nat /\ o % BlockDim = t[2] /\ BlockDim \in Nat /\ pc[t] \notin Syncs
  BY <1>1, BlockDimAssumption DEF TypeOK, Control, Iterates, Loops, Syncs
<1>3. Owner(b, o) = t
  BY <1>1, <1>2 DEF Owner
<1>4. Item(b) \subseteq Nat /\ \A i \in Item(b) : i < LimitOf(b)
  BY <1>1 DEF Item
<1>5. ASSUME NEW i \in Item(b) PROVE Through(b, i)' <=> Through(b, i) \/ i = o
  <2>1. i \in Nat /\ Owner(b, i) \in Thread /\ Owner(b, i)[2] = i % BlockDim /\ i < LimitOf(b)
    BY <1>1, <1>4, ItemFacts
  <2>2. Through(b, i)' <=> pc'[Owner(b, i)] \in Syncs \/ i < offset'[Owner(b, i)]
    BY DEF Through, Owner
  <2>3. CASE Owner(b, i) # t
    <3>1. i # o
      BY <1>3, <2>3
    <3> QED
      BY <2>1, <2>2, <2>3, <3>1 DEF Iterates, Through
  <2>4. CASE Owner(b, i) = t
    <3>1. i % BlockDim = o % BlockDim
      BY <1>2, <2>1, <2>4
    <3>2. Through(b, i) <=> i < o
      BY <1>2, <2>4 DEF Through
    <3>3. CASE o < LimitOf(b)
      <4>1. pc'[t] = pc[t] /\ offset'[t] = o + BlockDim
        BY <3>3 DEF Iterates
      <4>2. o <= i /\ i < o + BlockDim => i = o
        BY <1>1, <1>2, <2>1, <3>1, ItemFacts
      <4>3. i < o + BlockDim <=> i < o \/ i = o
        BY <1>2, <2>1, <4>2, BlockDimAssumption
      <4> QED
        BY <1>2, <2>2, <2>4, <3>2, <4>1, <4>3
    <3>4. CASE ~(o < LimitOf(b))
      <4>1. pc'[t] \in Syncs
        BY <3>4 DEF Iterates, Loops, SyncAfter, Syncs
      <4>2. i < o
        BY <1>1, <1>2, <2>1, <3>4
      <4> QED
        BY <2>2, <2>4, <3>2, <4>1, <4>2
    <3> QED
      BY <3>3, <3>4
  <2> QED
    BY <2>3, <2>4
<1>6. o < LimitOf(b) => o \in Item(b) /\ ~Through(b, o)
  BY <1>1, <1>2, <1>3 DEF Item, Through
<1> QED
  BY <1>2, <1>4, <1>5, <1>6

\* The bits of a vector.
Bits == 0 .. WordBits * BitvecLength - 1

\* What a step of thread t keeps.
Keeps(t) ==
    /\ vec' \in [Block -> [{0, 1} -> SUBSET Bits]]
    /\ \A d \in Block : d # t[1] => vec'[d] = vec[d]
    /\ Activations(t[1])' = Activations(t[1])
    /\ PhaseInv(t[1])'

\* What the step of a thread is in.
LEMMA StepPlace ==
    ASSUME TypeOK, NEW t \in Thread, BlockInv(t[1]), Iterates(t)
    PROVE  LET b == t[1]
           IN  /\ b \in Block /\ job \in Jobs /\ job' = job
               /\ PhaseOf(b) = Phase(pc[t]) /\ PhaseOf(b)' = PhaseOf(b)
               /\ input_position[t] = Pos(b) /\ Pos(b)' = Pos(b) /\ Pos(b) \in Nat
               /\ nfa(b)' = nfa(b) /\ SymbolOf(b)' = SymbolOf(b) /\ SymbolOf(b) = input(b)[Pos(b) + 1]
               /\ Item(b)' = Item(b) /\ LimitOf(b)' = LimitOf(b)
               /\ Activations(b)' = Activations(b) => Moved(b)' = Moved(b) /\ Woken(b)' = Woken(b)
               /\ vec'[b][EnabledHalf(Pos(b))] = vec[b][EnabledHalf(Pos(b))]
                     => Activations(b)' = Activations(b)
               /\ Acting(b)' = vec'[b][ActiveHalf(Pos(b))]
               /\ Acting(b) = vec[b][ActiveHalf(Pos(b))]
               /\ PhaseOf(b) # 0 => Activations(b) = vec[b][EnabledHalf(Pos(b))]
               /\ PhaseOf(b) = 0 => Activations(b)' = Activations(b)
<1> DEFINE b == t[1]
<1>1. /\ b \in Block /\ Control(t) /\ job' = job /\ job \in Jobs
      /\ PhaseOf(b)' = PhaseOf(b) /\ Pos(b)' = Pos(b)
  BY ThreadFacts, LimitsAre, IterationPlace DEF Iterates, TypeOK
<1>2. PhaseOf(b) = Phase(pc[t]) /\ input_position[t] = Pos(b)
  BY <1>1 DEF Control
<1>3. Pos(b) \in Nat
  BY <1>1, <1>2 DEF TypeOK
<1>4. /\ nfa(b)' = nfa(b) /\ SymbolOf(b)' = SymbolOf(b)
      /\ Item(b)' = Item(b) /\ LimitOf(b)' = LimitOf(b)
      /\ Activations(b)' = Activations(b) => Moved(b)' = Moved(b) /\ Woken(b)' = Woken(b)
      /\ vec'[b][EnabledHalf(Pos(b))] = vec[b][EnabledHalf(Pos(b))]
            => Activations(b)' = Activations(b)
  BY <1>1, PlaceSame
<1>5. SymbolOf(b) = input(b)[Pos(b) + 1]
  BY DEF SymbolOf
<1>6. /\ Acting(b)' = vec'[b][ActiveHalf(Pos(b)')] /\ Acting(b) = vec[b][ActiveHalf(Pos(b))]
      /\ Activations(b) = IF PhaseOf(b) = 0 THEN nfa(b).start ELSE vec[b][EnabledHalf(Pos(b))]
      /\ Activations(b)' = IF PhaseOf(b)' = 0 THEN nfa(b).start'
                           ELSE vec'[b][EnabledHalf(Pos(b)')]
  BY <1>1, VectorsAre
<1>7. PhaseOf(b) = 0 => Activations(b)' = Activations(b)
  BY <1>1, <1>4, <1>6
<1> QED
  BY <1>1, <1>2, <1>3, <1>4, <1>5, <1>6, <1>7

\* A word of start states is loaded.
LEMMA LoadKeeps ==
    ASSUME TypeOK, NEW t \in Thread, BlockInv(t[1]), Iterates(t), pc[t] = "load", Load(t)
    PROVE  Keeps(t)
<1> DEFINE b == t[1]
           o == offset[t]
           f == [h \in {0, 1} |-> (vec[b][h] \ Word(o)) \cup
                                     IF h = 1 THEN nfa(b).start \cap Word(o) ELSE {}]
<1>1. /\ b \in Block /\ job \in Jobs /\ PhaseOf(b) = 0 /\ PhaseOf(b)' = 0 /\ nfa(b)' = nfa(b)
      /\ Item(b)' = Item(b) /\ Activations(b)' = Activations(b)
  BY StepPlace DEF Phase
<1>2. LimitOf(b) = BitvecLength
  BY LimitsAre
<1>3. vec \in [Block -> [{0, 1} -> SUBSET Bits]]
  BY DEF TypeOK, Bits
<1>4. nfa(b).start \subseteq Bits
  BY <1>1, BlockFacts, VectorFacts DEF Bits
<1>5. f \in [{0, 1} -> SUBSET Bits]
  <2> HIDE DEF Bits
  <2> QED
    BY <1>1, <1>3, <1>4
<1>6. vec' = IF o < BitvecLength THEN [vec EXCEPT ![b] = f] ELSE vec
  BY DEF Load
<1>7. /\ vec' \in [Block -> [{0, 1} -> SUBSET Bits]]
      /\ \A d \in Block : d # b => vec'[d] = vec[d]
      /\ o < LimitOf(b) => vec'[b] = f
      /\ ~(o < LimitOf(b)) => vec' = vec
  <2> HIDE DEF f, Bits
  <2> QED
    BY <1>1, <1>2, <1>3, <1>5, <1>6
<1>8. /\ \A i \in Item(b) : Through(b, i)' <=> Through(b, i) \/ i = o
      /\ Item(b) \subseteq Nat /\ o \in Nat
  BY IterationThrough
<1>9. LoadInv(b)
  BY <1>1 DEF BlockInv, PhaseInv
<1>10. ASSUME NEW w \in Item(b), Through(b, w)'
       PROVE  vec'[b][1] \cap Word(w) = nfa(b).start \cap Word(w)
  <2>1. w < LimitOf(b)
    BY <1>1, LimitsAre DEF Item
  <2>2. o < LimitOf(b) => vec'[b][1] = (vec[b][1] \ Word(o)) \cup (nfa(b).start \cap Word(o))
    BY <1>7
  <2>3. CASE w = o
    BY <2>1, <2>2, <2>3
  <2>4. CASE w # o
    <3>1. vec[b][1] \cap Word(w) = nfa(b).start \cap Word(w)
      BY <1>8, <1>9, <1>10, <2>4 DEF LoadInv
    <3>2. Word(w) \cap Word(o) = {}
      BY <1>8, <2>4, WordsApart
    <3>3. CASE o < LimitOf(b)
      BY <2>2, <3>1, <3>2, <3>3
    <3>4. CASE ~(o < LimitOf(b))
      BY <1>7, <3>1, <3>4
    <3> QED
      BY <3>3, <3>4
  <2> QED
    BY <2>3, <2>4
<1>11. LoadInv(b)'
  BY <1>1, <1>10 DEF LoadInv, Word
<1>12. PhaseInv(b)'
  BY <1>1, <1>11 DEF PhaseInv
<1> QED
  BY <1>1, <1>7, <1>12 DEF Keeps

\* A word of the active vector is cleared; what is enabled is in the other.
LEMMA ClearKeeps ==
    ASSUME TypeOK, NEW t \in Thread, BlockInv(t[1]), Iterates(t), pc[t] = "clear", ClearActive(t)
    PROVE  Keeps(t)
<1> DEFINE b == t[1]
           o == offset[t]
           h == ActiveHalf(Pos(b))
<1>1. /\ b \in Block /\ job \in Jobs /\ PhaseOf(b) = 1 /\ PhaseOf(b)' = 1
      /\ input_position[t] = Pos(b) /\ Pos(b) \in Nat
      /\ Item(b)' = Item(b) /\ Acting(b)' = vec'[b][h] /\ Acting(b) = vec[b][h]
      /\ vec'[b][EnabledHalf(Pos(b))] = vec[b][EnabledHalf(Pos(b))]
            => Activations(b)' = Activations(b)
  BY StepPlace DEF Phase
<1>2. /\ LimitOf(b) = BitvecLength /\ h \in {0, 1} /\ EnabledHalf(Pos(b)) \in {0, 1}
      /\ EnabledHalf(Pos(b)) # h
  BY <1>1, LimitsAre, VectorsAre
<1>3. vec \in [Block -> [{0, 1} -> SUBSET Bits]]
  BY DEF TypeOK, Bits
<1> HIDE DEF h
<1>4. vec' = IF o < BitvecLength THEN [vec EXCEPT ![b][h] = @ \ Word(o)] ELSE vec
  BY <1>1 DEF ClearActive, h
<1>5. /\ vec' \in [Block -> [{0, 1} -> SUBSET Bits]]
      /\ vec'[b][EnabledHalf(Pos(b))] = vec[b][EnabledHalf(Pos(b))]
      /\ \A d \in Block : d # b => vec'[d] = vec[d]
      /\ o < LimitOf(b) => Acting(b)' = Acting(b) \ Word(o)
      /\ ~(o < LimitOf(b)) => Acting(b)' = Acting(b)
  <2>1. CASE o < LimitOf(b)
    <3> DEFINE X == vec[b][h] \ Word(o)
    <3>1. X \in SUBSET Bits
      <4> HIDE DEF Bits
      <4> QED
        BY <1>1, <1>2, <1>3
    <3>2. vec' = [vec EXCEPT ![b][h] = X]
      BY <1>2, <1>4, <2>1
    <3> HIDE DEF X
    <3>3. /\ vec' \in [Block -> [{0, 1} -> SUBSET Bits]] /\ vec'[b][h] = X
          /\ \A k \in {0, 1} : k # h => vec'[b][k] = vec[b][k]
          /\ \A d \in Block : d # b => vec'[d] = vec[d]
      BY <1>1, <1>2, <1>3, <3>1, <3>2
    <3>4. X = Acting(b) \ Word(o)
      BY <1>1 DEF X
    <3> HIDE DEF Bits
    <3>5. Acting(b)' = Acting(b) \ Word(o)
      BY <1>1, <3>3, <3>4
    <3>6. vec'[b][EnabledHalf(Pos(b))] = vec[b][EnabledHalf(Pos(b))]
      BY <1>2, <3>3
    <3> QED
      BY <2>1, <3>3, <3>5, <3>6
  <2>2. CASE ~(o < LimitOf(b))
    BY <1>1, <1>2, <1>3, <1>4, <2>2
  <2> QED
    BY <2>1, <2>2
<1>6. /\ \A i \in Item(b) : Through(b, i)' <=> Through(b, i) \/ i = o
      /\ Item(b) \subseteq Nat /\ o \in Nat
  BY IterationThrough
<1>7. ClearInv(b)
  BY <1>1 DEF BlockInv, PhaseInv
<1>8. ASSUME NEW w \in Item(b), Through(b, w)' PROVE Acting(b)' \cap Word(w) = {}
  <2>1. w < LimitOf(b)
    BY <1>1, LimitsAre DEF Item
  <2>2. CASE w = o
    BY <1>5, <2>1, <2>2
  <2>3. CASE w # o
    <3>1. Acting(b) \cap Word(w) = {}
      BY <1>6, <1>7, <1>8, <2>3 DEF ClearInv
    <3> QED
      BY <1>5, <3>1
  <2> QED
    BY <2>2, <2>3
<1>9. ClearInv(b)'
  BY <1>1, <1>8 DEF ClearInv, Word
<1>10. PhaseInv(b)'
  BY <1>1, <1>9 DEF PhaseInv
<1> QED
  BY <1>1, <1>5, <1>10 DEF Keeps

\* A bit set in the active vector adds the state to it and changes nothing else.
LEMMA SetKeeps ==
    ASSUME TypeOK, NEW t \in Thread, BlockInv(t[1]), Iterates(t),
           NEW s \in Sids(nfa(t[1])), SetActive(t, s), PhaseOf(t[1]) # 0
    PROVE  /\ vec' \in [Block -> [{0, 1} -> SUBSET Bits]]
           /\ \A d \in Block : d # t[1] => vec'[d] = vec[d]
           /\ Activations(t[1])' = Activations(t[1])
           /\ Acting(t[1])' = Acting(t[1]) \cup {s}
<1> DEFINE b == t[1]
           h == ActiveHalf(Pos(b))
           X == vec[b][h] \cup {s}
<1>1. /\ b \in Block /\ job \in Jobs /\ input_position[t] = Pos(b) /\ Pos(b) \in Nat
      /\ Acting(b)' = vec'[b][h] /\ Acting(b) = vec[b][h]
      /\ vec'[b][EnabledHalf(Pos(b))] = vec[b][EnabledHalf(Pos(b))]
            => Activations(b)' = Activations(b)
  BY StepPlace
<1>2. h \in {0, 1} /\ EnabledHalf(Pos(b)) \in {0, 1} /\ EnabledHalf(Pos(b)) # h
  BY <1>1, VectorsAre
<1> HIDE DEF h
<1>3. vec \in [Block -> [{0, 1} -> SUBSET Bits]] /\ s \in Bits
  BY <1>1, VectorFacts DEF TypeOK, Bits
<1>4. X \in SUBSET Bits
  <2> HIDE DEF Bits
  <2> QED
    BY <1>1, <1>2, <1>3
<1>5. vec' = [vec EXCEPT ![b][h] = X]
  BY <1>1 DEF SetActive, h
<1>6. X = Acting(b) \cup {s}
  BY <1>1
<1> HIDE DEF X
<1>7. /\ vec' \in [Block -> [{0, 1} -> SUBSET Bits]] /\ vec'[b][h] = X
      /\ \A k \in {0, 1} : k # h => vec'[b][k] = vec[b][k]
      /\ \A d \in Block : d # b => vec'[d] = vec[d]
  BY <1>1, <1>2, <1>3, <1>4, <1>5
<1>8. vec'[b][EnabledHalf(Pos(b))] = vec[b][EnabledHalf(Pos(b))]
  BY <1>2, <1>7
<1> HIDE DEF Bits
<1>9. Acting(b)' = Acting(b) \cup {s}
  BY <1>1, <1>6, <1>7
<1>10. Activations(b)' = Activations(b)
  BY <1>1, <1>8
<1> QED
  BY <1>7, <1>9, <1>10

\* A transition fires if its source was activated.
LEMMA TransitKeeps ==
    ASSUME TypeOK, NEW t \in Thread, BlockInv(t[1]), Iterates(t), pc[t] = "transit", Transit(t)
    PROVE  Keeps(t)
<1> DEFINE b == t[1]
           o == offset[t]
           c == SymbolOf(b)
           T(i) == TransitionAt(nfa(b), c, i)
<1>1. /\ b \in Block /\ job \in Jobs /\ PhaseOf(b) = 2 /\ PhaseOf(b)' = 2 /\ nfa(b)' = nfa(b)
      /\ input_position[t] = Pos(b) /\ Pos(b) \in Nat /\ c = input(b)[Pos(b) + 1] /\ SymbolOf(b)' = c
      /\ Item(b)' = Item(b) /\ Acting(b)' = vec'[b][ActiveHalf(Pos(b))]
      /\ Acting(b) = vec[b][ActiveHalf(Pos(b))]
      /\ Activations(b) = vec[b][EnabledHalf(Pos(b))]
      /\ vec'[b][EnabledHalf(Pos(b))] = vec[b][EnabledHalf(Pos(b))]
            => Activations(b)' = Activations(b)
      /\ Activations(b)' = Activations(b) => Moved(b)' = Moved(b)
  BY StepPlace DEF Phase
<1>2. /\ LimitOf(b) = Cardinality(Transitions(nfa(b), c)) /\ Enabled(t) = Activations(b)
  BY <1>1, LimitsAre DEF Enabled
<1>3. IF o < LimitOf(b) /\ T(o)[1] \in Activations(b) THEN SetActive(t, T(o)[2]) ELSE UNCHANGED vec
  BY <1>1, <1>2 DEF Transit
<1>4. /\ \A i \in Item(b) : Through(b, i)' <=> Through(b, i) \/ i = o
      /\ o < LimitOf(b) => o \in Item(b)
  BY IterationThrough
<1>5. TransitInv(b)
  BY <1>1 DEF BlockInv, PhaseInv
<1>6. ASSUME o < LimitOf(b), T(o)[1] \in Activations(b)
      PROVE  T(o)[2] \in Sids(nfa(b)) /\ T(o)[2] \in Moved(b)
  <2>1. T(o) \in Transitions(nfa(b), c)
    BY <1>1, <1>2, <1>4, <1>6, BlockFacts, TransitionFacts DEF Item
  <2> HIDE DEF T
  <2>2. T(o)[1] \in Sids(nfa(b)) /\ T(o)[2] \in Sids(nfa(b)) /\ T(o)[2] \in nfa(b).edges[T(o)[1]]
        /\ match2(nfa(b), T(o)[2], c)
    BY <2>1 DEF Transitions
  <2>3. T(o)[2] \in Successors(nfa(b), Activations(b))
    BY <1>6, <2>2 DEF Successors
  <2> QED
    BY <2>2, <2>3 DEF Moved, Activated
<1> HIDE DEF T
<1>7. /\ vec' \in [Block -> [{0, 1} -> SUBSET Bits]]
      /\ \A d \in Block : d # b => vec'[d] = vec[d]
      /\ Activations(b)' = Activations(b)
      /\ Acting(b) \subseteq Acting(b)' /\ Acting(b)' \subseteq Moved(b)
      /\ o < LimitOf(b) /\ T(o)[1] \in Activations(b) => T(o)[2] \in Acting(b)'
  <2>1. Acting(b) \subseteq Moved(b)
    BY <1>5 DEF TransitInv
  <2>2. CASE o < LimitOf(b) /\ T(o)[1] \in Activations(b)
    <3>1. /\ vec' \in [Block -> [{0, 1} -> SUBSET Bits]]
          /\ \A d \in Block : d # b => vec'[d] = vec[d]
          /\ Activations(b)' = Activations(b)
          /\ Acting(b)' = Acting(b) \cup {T(o)[2]}
      BY <1>1, <1>3, <1>6, <2>2, SetKeeps
    <3> QED
      BY <1>6, <2>1, <2>2, <3>1
  <2>3. CASE ~(o < LimitOf(b) /\ T(o)[1] \in Activations(b))
    <3>1. vec' = vec
      BY <1>3, <2>3
    <3> QED
      BY <1>1, <2>1, <2>3, <3>1 DEF TypeOK, Bits
  <2> QED
    BY <2>2, <2>3
<1>8. ASSUME NEW i \in Item(b), Through(b, i)', T(i)[1] \in Activations(b)
      PROVE  T(i)[2] \in Acting(b)'
  <2>1. i < LimitOf(b)
    BY LimitsAre DEF Item
  <2>2. CASE i = o
    BY <1>7, <1>8, <2>1, <2>2
  <2>3. CASE i # o
    <3>1. Through(b, i)
      BY <1>4, <1>8, <2>3
    <3>2. T(i)[2] \in Acting(b)
      BY <1>5, <1>8, <3>1 DEF TransitInv, T
    <3> QED
      BY <1>7, <3>2
  <2> QED
    BY <2>2, <2>3
<1>9. TransitInv(b)'
  <2>1. Acting(b)' \subseteq Moved(b)'
    BY <1>1, <1>7
  <2>2. \A i : TransitionAt(nfa(b)', SymbolOf(b)', i) = T(i)
    BY <1>1 DEF T
  <2>3. \A i : TransitionAt(nfa(b), SymbolOf(b), i)' = T(i)
    BY <2>2, Zenon DEF TransitionAt, Transitions, match2, Sids
  <2> QED
    BY <1>1, <1>7, <1>8, <2>1, <2>3 DEF TransitInv
<1>10. PhaseInv(b)'
  BY <1>1, <1>9 DEF PhaseInv
<1> QED
  BY <1>7, <1>10 DEF Keeps

\* State s of block b is activated and reports, and its report of the symbol is not
\* among the matches.
Untold(b, s) == s \in Activations(b) \cap nfa(b).report /\ <<b, Pos(b), s>> \notin matches

\* What a step of thread t adds to the matches: nothing, a new report, or a device
\* assertion failed by one that does not fit.
Tells(t) ==
    \/ matches' = matches /\ match_count' = match_count /\ ~trapped'
    \/ /\ ~trapped' /\ match_count < Capacity /\ match_count' = match_count + 1
       /\ PhaseOf(t[1]) = 3
       /\ \E s : Untold(t[1], s) /\ matches' = matches \cup {<<t[1], Pos(t[1]), s>>}
    \/ /\ trapped' /\ match_count >= Capacity /\ match_count' = match_count + 1
       /\ PhaseOf(t[1]) = 3
       /\ matches' = matches /\ \E s : Untold(t[1], s)

\* An activated state that reports does so once, unless it does not fit.
LEMMA OutputKeeps ==
    ASSUME TypeOK, NEW t \in Thread, BlockInv(t[1]), Iterates(t), pc[t] = "output", Output(t)
    PROVE  Keeps(t) /\ Tells(t)
<1> DEFINE b == t[1]
           o == offset[t]
           r == <<b, Pos(b), o>>
           hit == o < nfa(b).size /\ o \in Activations(b) \cap nfa(b).report
<1>1. /\ b \in Block /\ job \in Jobs /\ PhaseOf(b) = 3 /\ PhaseOf(b)' = 3 /\ nfa(b)' = nfa(b)
      /\ input_position[t] = Pos(b) /\ Pos(b)' = Pos(b) /\ Pos(b) \in Nat
      /\ Item(b)' = Item(b) /\ Acting(b)' = vec'[b][ActiveHalf(Pos(b))]
      /\ Acting(b) = vec[b][ActiveHalf(Pos(b))]
      /\ Activations(b) = vec[b][EnabledHalf(Pos(b))]
      /\ vec'[b][EnabledHalf(Pos(b))] = vec[b][EnabledHalf(Pos(b))]
            => Activations(b)' = Activations(b)
      /\ Activations(b)' = Activations(b) => Moved(b)' = Moved(b)
  BY StepPlace DEF Phase
<1>2. vec' = vec
  BY DEF Output
<1>3. /\ Activations(b)' = Activations(b) /\ Acting(b)' = Acting(b) /\ Moved(b)' = Moved(b)
      /\ vec' \in [Block -> [{0, 1} -> SUBSET Bits]]
      /\ \A d \in Block : d # b => vec'[d] = vec[d]
  BY <1>1, <1>2 DEF TypeOK, Bits
<1>4. LimitOf(b) = nfa(b).size /\ nfa(b).size \in Nat /\ Item(b) = Sids(nfa(b))
  <2>1. LimitOf(b) = nfa(b).size
    BY LimitsAre
  <2> QED
    BY <1>1, <2>1, BlockFacts DEF Item, Sids
<1>5. Enabled(t) = Activations(b)
  BY <1>1 DEF Enabled
<1>6. /\ match_count' = IF hit THEN match_count + 1 ELSE match_count
      /\ trapped' <=> hit /\ match_count >= Capacity
      /\ matches' = IF hit /\ match_count < Capacity THEN matches \cup {r} ELSE matches
  <2>1. /\ match_count' = IF hit THEN match_count + 1 ELSE match_count
        /\ trapped' = (hit /\ match_count >= Capacity)
        /\ matches' = IF hit /\ match_count < Capacity THEN matches \cup {r} ELSE matches
    BY <1>1, <1>5 DEF Output
  <2> HIDE DEF hit
  <2>2. trapped' <=> hit /\ match_count >= Capacity
    BY <2>1, Zenon
  <2> QED
    BY <2>1, <2>2
<1>7. /\ \A i \in Item(b) : Through(b, i)' <=> Through(b, i) \/ i = o
      /\ o < LimitOf(b) => o \in Item(b) /\ ~Through(b, o)
  BY IterationThrough
<1>8. OutputInv(b) /\ ~trapped /\ match_count \in Nat /\ Capacity \in Nat
  BY <1>1, CapacityAssumption DEF BlockInv, PhaseInv, Iterates, TypeOK
<1>9. hit => Untold(b, o)
  <2>1. hit => ~Through(b, o)
    BY <1>4, <1>7
  <2>2. \A m \in matches : m[1] = b /\ m[2] = Pos(b) => Through(b, m[3])
    BY <1>8 DEF OutputInv
  <2>3. hit => r \notin matches
    BY <2>1, <2>2
  <2> QED
    BY <2>3 DEF Untold
<1> HIDE DEF hit
<1>10. Tells(t)
  <2>1. CASE ~hit
    BY <1>6, <2>1 DEF Tells
  <2>2. CASE hit /\ match_count < Capacity
    BY <1>1, <1>6, <1>8, <1>9, <2>2 DEF Tells
  <2>3. CASE hit /\ ~(match_count < Capacity)
    BY <1>1, <1>6, <1>8, <1>9, <2>3 DEF Tells
  <2> QED
    BY <2>1, <2>2, <2>3
<1>11. ASSUME NEW m \in matches', m[1] = b, m[2] = Pos(b)
       PROVE  m[3] \in Activations(b) \cap nfa(b).report /\ Through(b, m[3])'
  <2>1. Activations(b) \cap nfa(b).report \subseteq Item(b)
    BY <1>1, <1>4, BlockFacts
  <2>2. CASE m \in matches
    <3>1. m[3] \in Activations(b) \cap nfa(b).report /\ Through(b, m[3])
      BY <1>8, <1>11, <2>2 DEF OutputInv
    <3> QED
      BY <1>7, <2>1, <3>1
  <2>3. CASE m \notin matches
    <3>1. hit /\ m = r
      BY <1>6, <1>11, <2>3
    <3>2. o \in Activations(b) \cap nfa(b).report /\ m[3] = o
      BY <3>1 DEF hit
    <3> QED
      BY <1>7, <2>1, <3>2
  <2> QED
    BY <2>2, <2>3
<1>12. ASSUME ~trapped', NEW s \in Activations(b) \cap nfa(b).report, Through(b, s)'
       PROVE  <<b, Pos(b), s>> \in matches'
  <2>1. s \in Item(b)
    BY <1>1, <1>4, BlockFacts
  <2>2. matches \subseteq matches'
    BY <1>6
  <2>3. CASE s = o
    <3>1. hit
      BY <1>4, <2>1, <2>3 DEF hit, Sids
    <3>2. match_count < Capacity
      BY <1>6, <1>8, <1>12, <3>1
    <3> QED
      BY <1>6, <2>3, <3>1, <3>2
  <2>4. CASE s # o
    <3>1. Through(b, s)
      BY <1>7, <1>12, <2>1, <2>4
    <3>2. <<b, Pos(b), s>> \in matches
      BY <1>8, <3>1 DEF OutputInv
    <3> QED
      BY <2>2, <3>2
  <2> QED
    BY <2>3, <2>4
<1>13. OutputInv(b)'
  <2>1. Acting(b) = Moved(b)
    BY <1>8 DEF OutputInv
  <2> QED
    BY <1>1, <1>3, <1>11, <1>12, <2>1 DEF OutputInv
<1>14. PhaseInv(b)'
  BY <1>1, <1>13 DEF PhaseInv
<1> QED
  BY <1>3, <1>10, <1>14 DEF Keeps

\* A state that is always enabled is set.
LEMMA AlwaysKeeps ==
    ASSUME TypeOK, NEW t \in Thread, BlockInv(t[1]), Iterates(t), pc[t] = "always", AlwaysEnabled(t)
    PROVE  Keeps(t)
<1> DEFINE b == t[1]
           o == offset[t]
           set == o < nfa(b).size /\ o \in nfa(b).always
<1>1. /\ b \in Block /\ job \in Jobs /\ PhaseOf(b) = 4 /\ PhaseOf(b)' = 4 /\ nfa(b)' = nfa(b)
      /\ Pos(b)' = Pos(b)
      /\ Item(b)' = Item(b) /\ Acting(b)' = vec'[b][ActiveHalf(Pos(b))]
      /\ Acting(b) = vec[b][ActiveHalf(Pos(b))]
      /\ vec'[b][EnabledHalf(Pos(b))] = vec[b][EnabledHalf(Pos(b))]
            => Activations(b)' = Activations(b)
      /\ Activations(b)' = Activations(b) => Moved(b)' = Moved(b) /\ Woken(b)' = Woken(b)
  BY StepPlace DEF Phase
<1>2. nfa(b).size \in Nat /\ nfa(b).always \subseteq Sids(nfa(b)) /\ LimitOf(b) = nfa(b).size
  BY <1>1, BlockFacts, LimitsAre
<1>3. IF set THEN SetActive(t, o) ELSE UNCHANGED vec
  BY DEF AlwaysEnabled
<1>4. AlwaysInv(b) /\ matches' = matches
  BY <1>1 DEF BlockInv, PhaseInv, AlwaysEnabled
<1>5. \A i \in Item(b) : Through(b, i)' <=> Through(b, i) \/ i = o
  BY IterationThrough
<1>6. Moved(b) \subseteq Acting(b) /\ Acting(b) \subseteq Woken(b) /\ nfa(b).always \subseteq Woken(b)
  BY <1>4 DEF AlwaysInv, Woken
<1>7. /\ vec' \in [Block -> [{0, 1} -> SUBSET Bits]]
      /\ \A d \in Block : d # b => vec'[d] = vec[d]
      /\ Activations(b)' = Activations(b)
      /\ Acting(b) \subseteq Acting(b)' /\ Acting(b)' \subseteq Woken(b)
      /\ set => o \in Acting(b)'
  <2>1. CASE set
    <3>1. o \in Sids(nfa(b)) /\ PhaseOf(b) # 0
      BY <1>1, <1>2, <2>1
    <3>2. /\ vec' \in [Block -> [{0, 1} -> SUBSET Bits]]
          /\ \A d \in Block : d # b => vec'[d] = vec[d]
          /\ Activations(b)' = Activations(b)
          /\ Acting(b)' = Acting(b) \cup {o}
      BY <1>3, <2>1, <3>1, SetKeeps
    <3> QED
      BY <1>6, <2>1, <3>2
  <2>2. CASE ~set
    <3>1. vec' = vec
      BY <1>3, <2>2
    <3> QED
      BY <1>1, <1>6, <2>2, <3>1 DEF TypeOK, Bits
  <2> QED
    BY <2>1, <2>2
<1>8. ASSUME NEW s \in nfa(b).always, Through(b, s)' PROVE s \in Acting(b)'
  <2>1. s \in Item(b) /\ s < nfa(b).size
    BY <1>2 DEF Item, Sids
  <2>2. CASE s = o
    BY <1>7, <2>1, <2>2
  <2>3. CASE s # o
    BY <1>4, <1>5, <1>7, <1>8, <2>1, <2>3 DEF AlwaysInv
  <2> QED
    BY <2>2, <2>3
<1>9. AlwaysInv(b)'
  <2>1. /\ Moved(b)' \subseteq Acting(b)' /\ Acting(b)' \subseteq Woken(b)'
    BY <1>1, <1>6, <1>7
  <2>2. /\ \A m \in matches : m[1] = b /\ m[2] = Pos(b) => m[3] \in Activations(b) \cap nfa(b).report
        /\ \A s \in Activations(b) \cap nfa(b).report : <<b, Pos(b), s>> \in matches
    BY <1>4 DEF AlwaysInv
  <2>3. /\ \A m \in matches' : m[1] = b /\ m[2] = Pos(b)' =>
                                  m[3] \in Activations(b)' \cap nfa(b)'.report
        /\ \A s \in Activations(b)' \cap nfa(b)'.report : <<b, Pos(b)', s>> \in matches'
    BY <1>1, <1>4, <1>7, <2>2
  <2> QED
    BY <1>1, <1>8, <2>1, <2>3 DEF AlwaysInv
<1>10. PhaseInv(b)'
  BY <1>1, <1>9 DEF PhaseInv
<1> QED
  BY <1>7, <1>10 DEF Keeps

\* Every step of a thread keeps its block's invariant.
LEMMA StepKeeps ==
    ASSUME TypeOK, NEW t \in Thread, BlockInv(t[1]), ThreadStep(t)
    PROVE  Iterates(t) /\ Keeps(t) /\ Tells(t)
<1>1. Iterates(t)
  BY StepIterates
<1>2. ~trapped
  BY <1>1 DEF Iterates
<1>3. CASE pc[t] = "load"
  <2>1. Load(t)
    BY <1>3, StepIterates
  <2> QED
    BY <1>1, <1>2, <1>3, <2>1, LoadKeeps DEF Load, Tells
<1>4. CASE pc[t] = "clear"
  <2>1. ClearActive(t)
    BY <1>4, StepIterates
  <2> QED
    BY <1>1, <1>2, <1>4, <2>1, ClearKeeps DEF ClearActive, Tells
<1>5. CASE pc[t] = "transit"
  <2>1. Transit(t)
    BY <1>5, StepIterates
  <2>2. Tells(t)
    BY <1>2, <2>1 DEF Transit, Tells
  <2> QED
    BY <1>1, <1>5, <2>1, <2>2, TransitKeeps
<1>6. CASE pc[t] = "output"
  <2>1. Output(t)
    BY <1>6, StepIterates
  <2> QED
    BY <1>1, <1>6, <2>1, OutputKeeps
<1>7. CASE pc[t] = "always"
  <2>1. AlwaysEnabled(t)
    BY <1>7, StepIterates
  <2>2. Tells(t)
    BY <1>2, <2>1 DEF AlwaysEnabled, Tells
  <2> QED
    BY <1>1, <1>7, <2>1, <2>2, AlwaysKeeps
<1> QED
  BY <1>1, <1>3, <1>4, <1>5, <1>6, <1>7 DEF Iterates, Loops

-----------------------------------------------------------------------------
(* What a step leaves alone.                                                 *)

\* Where neither the threads, the vectors nor the reports of a block have changed its
\* invariant is kept.
LEMMA BlockSame ==
    ASSUME NEW d \in Block, BlockInv(d), job' = job, vec'[d] = vec[d], trapped => trapped',
           \A m : m[1] = d => (m \in matches' <=> m \in matches),
           \A u \in ThreadsOf(d) : /\ pc'[u] = pc[u] /\ offset'[u] = offset[u]
                                   /\ input_position'[u] = input_position[u]
    PROVE  /\ BlockInv(d)' /\ Activations(d)' = Activations(d)
           /\ PhaseOf(d)' = PhaseOf(d) /\ Pos(d)' = Pos(d) /\ nfa(d)' = nfa(d)
<1>1. Lead(d) \in ThreadsOf(d) /\ \A u \in ThreadsOf(d) : u[1] = d
  BY ThreadFacts
<1>2. PhaseOf(d)' = PhaseOf(d) /\ Pos(d)' = Pos(d)
  BY <1>1 DEF PhaseOf, Pos, Lead
<1>3. /\ nfa(d)' = nfa(d) /\ input(d)' = input(d) /\ SymbolOf(d)' = SymbolOf(d)
      /\ Item(d)' = Item(d) /\ Activations(d)' = Activations(d)
  BY <1>2, PlaceSame
<1>4. Moved(d)' = Moved(d) /\ Woken(d)' = Woken(d)
  BY <1>2, <1>3, PlaceSame
<1>5. Acting(d)' = Acting(d)
  BY <1>2 DEF Acting, ActiveHalf
<1>6. ASSUME NEW i \in Nat PROVE Through(d, i)' <=> Through(d, i)
  <2>1. Owner(d, i) \in ThreadsOf(d)
    BY ItemFacts
  <2> QED
    BY <2>1 DEF Through, Owner
<1>7. Item(d) \subseteq Nat
  BY DEF Item
<1>8. \A u \in ThreadsOf(d) : Control(u)'
  BY <1>1, <1>2 DEF BlockInv, Control
<1>9. Positions(d)'
  BY <1>2, <1>3 DEF BlockInv, Positions
<1>10. Sane(d, Activations(d))'
  BY <1>3 DEF BlockInv, Sane
<1>11. PhaseOf(d) = 0 => LoadInv(d)'
  BY <1>3, <1>6, <1>7 DEF BlockInv, PhaseInv, LoadInv, Word
<1>12. PhaseOf(d) = 1 => ClearInv(d)'
  BY <1>3, <1>5, <1>6, <1>7 DEF BlockInv, PhaseInv, ClearInv, Word
<1>13. PhaseOf(d) = 2 => TransitInv(d)'
  <2>1. \A i : TransitionAt(nfa(d), SymbolOf(d), i)' = TransitionAt(nfa(d), SymbolOf(d), i)
    BY <1>3 DEF TransitionAt, Transitions, match2, Sids
  <2> QED
    BY <1>3, <1>4, <1>5, <1>6, <1>7, <2>1 DEF BlockInv, PhaseInv, TransitInv
<1>14. ASSUME PhaseOf(d) = 3 PROVE OutputInv(d)'
  <2>1. OutputInv(d)
    BY <1>14 DEF BlockInv, PhaseInv
  <2>2. Activations(d) \subseteq Nat
    BY DEF BlockInv, Sane, Sids
  <2>3. /\ \A m \in matches : m[1] = d /\ m[2] = Pos(d) =>
              m[3] \in Activations(d) \cap nfa(d).report /\ Through(d, m[3])
        /\ ~trapped => \A s \in Activations(d) \cap nfa(d).report :
                          Through(d, s) => <<d, Pos(d), s>> \in matches
    BY <2>1 DEF OutputInv
  <2>4. \A m \in matches' : m[1] = d /\ m[2] = Pos(d) =>
           m[3] \in Activations(d) \cap nfa(d).report /\ Through(d, m[3])'
    BY <1>6, <2>2, <2>3
  <2>5. ~trapped' => \A s \in Activations(d) \cap nfa(d).report :
                        Through(d, s)' => <<d, Pos(d), s>> \in matches'
    BY <1>6, <2>2, <2>3
  <2> QED
    BY <1>2, <1>3, <1>4, <1>5, <2>1, <2>4, <2>5 DEF OutputInv
<1>15. ASSUME PhaseOf(d) = 4 PROVE AlwaysInv(d)'
  <2>1. AlwaysInv(d)
    BY <1>15 DEF BlockInv, PhaseInv
  <2>2. \A m \in matches' : m[1] = d /\ m[2] = Pos(d) => m[3] \in Activations(d) \cap nfa(d).report
    BY <2>1 DEF AlwaysInv
  <2>3. \A s \in Activations(d) \cap nfa(d).report : <<d, Pos(d), s>> \in matches'
    BY <2>1 DEF AlwaysInv
  <2>4. \A s \in nfa(d).always : Through(d, s)' => s \in Acting(d)
    <3>1. nfa(d).always \subseteq Nat
      BY DEF BlockInv, Sane, Sids
    <3> QED
      BY <1>6, <2>1, <3>1 DEF AlwaysInv
  <2> QED
    BY <1>2, <1>3, <1>4, <1>5, <2>1, <2>2, <2>3, <2>4 DEF AlwaysInv
<1>16. PhaseInv(d)'
  BY <1>2, <1>11, <1>12, <1>13, <1>14, <1>15 DEF PhaseInv
<1>17. BlockInv(d)'
  BY <1>8, <1>9, <1>10, <1>16 DEF BlockInv
<1> QED
  BY <1>2, <1>3, <1>17

\* What the step of a thread leaves of its block and of the others.
LEMMA ThreadStepBlocks ==
    ASSUME IInv, NEW t \in Thread, ThreadStep(t)
    PROVE  \A d \in Block : /\ BlockInv(d)' /\ Activations(d)' = Activations(d)
                            /\ PhaseOf(d)' = PhaseOf(d) /\ Pos(d)' = Pos(d) /\ nfa(d)' = nfa(d)
<1> DEFINE b == t[1]
<1>1. /\ b \in Block /\ TypeOK /\ BlockInv(b) /\ t \in ThreadsOf(b)
  BY ThreadFacts DEF IInv
<1>2. Iterates(t) /\ Keeps(t) /\ Tells(t)
  BY <1>1, StepKeeps
<1>3. /\ ~trapped /\ job' = job /\ input_position' = input_position
      /\ \A u \in Thread : u # t => pc'[u] = pc[u] /\ offset'[u] = offset[u]
      /\ \A d \in Block : d # b => vec'[d] = vec[d]
      /\ Activations(b)' = Activations(b) /\ PhaseInv(b)'
  BY <1>2 DEF Iterates, Keeps
<1>4. \A m : m \in matches' /\ m \notin matches => m[1] = b /\ m[2] = Pos(b) /\ PhaseOf(b) = 3
  BY <1>2 DEF Tells
<1>5. matches \subseteq matches'
  BY <1>2 DEF Tells
<1>6. ASSUME NEW d \in Block, d # b
      PROVE  /\ BlockInv(d)' /\ Activations(d)' = Activations(d)
             /\ PhaseOf(d)' = PhaseOf(d) /\ Pos(d)' = Pos(d) /\ nfa(d)' = nfa(d)
  <2>1. \A u \in ThreadsOf(d) : u \in Thread /\ u # t
    BY <1>6, ThreadFacts
  <2>2. \A m : m[1] = d => (m \in matches' <=> m \in matches)
    BY <1>4, <1>5, <1>6
  <2>3. BlockInv(d)
    BY DEF IInv
  <2> QED
    BY <1>3, <1>6, <2>1, <2>2, <2>3, BlockSame
<1>7. PhaseOf(b)' = PhaseOf(b) /\ Pos(b)' = Pos(b) /\ Control(t)'
  BY <1>1, <1>2, IterationPlace
<1>8. nfa(b)' = nfa(b) /\ input(b)' = input(b)
  BY <1>3 DEF nfa, input
<1>9. \A u \in ThreadsOf(b) : Control(u)'
  <2> SUFFICES ASSUME NEW u \in ThreadsOf(b), u # t PROVE Control(u)'
    BY <1>7
  <2>1. u \in Thread /\ u[1] = b /\ Control(u)
    BY <1>1, ThreadFacts DEF BlockInv
  <2>2. pc'[u] = pc[u] /\ offset'[u] = offset[u] /\ input_position'[u] = input_position[u]
    BY <1>3, <2>1
  <2>3. PhaseOf(u[1])' = PhaseOf(u[1]) /\ Pos(u[1])' = Pos(u[1])
    BY <1>7, <2>1
  <2> QED
    BY <2>1, <2>2, <2>3 DEF Control
<1>10. Positions(b)'
  <2>1. Positions(b)
    BY <1>1 DEF BlockInv
  <2>2. \A m \in matches' : m[1] = b => \/ m[2] < Pos(b)
                                        \/ m[2] = Pos(b) /\ PhaseOf(b) \in {3, 4}
    BY <1>4, <2>1 DEF Positions
  <2> QED
    BY <1>7, <1>8, <2>1, <2>2 DEF Positions
<1>11. Sane(b, Activations(b))'
  BY <1>1, <1>3, <1>8 DEF BlockInv, Sane
<1>12. BlockInv(b)'
  BY <1>3, <1>9, <1>10, <1>11 DEF BlockInv
<1> QED
  BY <1>3, <1>6, <1>7, <1>8, <1>12

\* The step of a thread keeps the invariant.
LEMMA ThreadStepKeeps ==
    ASSUME IInv, NEW t \in Thread, ThreadStep(t)
    PROVE  IInv'
<1> DEFINE b == t[1]
<1>1. /\ b \in Block /\ TypeOK /\ Accounts /\ BlockInv(b)
  BY ThreadFacts DEF IInv
<1>2. Iterates(t) /\ Keeps(t) /\ Tells(t)
  BY <1>1, StepKeeps
<1>3. \A d \in Block : /\ BlockInv(d)' /\ Activations(d)' = Activations(d)
                       /\ PhaseOf(d)' = PhaseOf(d) /\ Pos(d)' = Pos(d) /\ nfa(d)' = nfa(d)
  BY ThreadStepBlocks
<1>4. /\ ~trapped /\ job' = job /\ job \in Jobs /\ input_position' = input_position
      /\ pc[t] \in Loops /\ pc' \in [Thread -> PCs] /\ offset' \in [Thread -> Nat]
      /\ host' = host /\ report_file' = report_file
  BY <1>1, <1>2 DEF Iterates, TypeOK
<1>5. host = "waiting"
  <2>1. pc[t] # "done"
    BY <1>4 DEF Loops
  <2> QED
    BY <1>1, <1>4, <2>1 DEF Accounts, TypeOK
<1>6. /\ matches \in SUBSET (Block \X Nat \X Int) /\ IsFiniteSet(matches)
      /\ match_count = Cardinality(matches) /\ Cardinality(matches) <= Capacity
      /\ Cardinality(matches) \in Nat /\ Capacity \in Nat
      /\ \A m \in matches : m[1] \in Block /\ m[2] \in Nat /\ m[3] \in Sids(nfa(m[1]))
  BY <1>1, <1>4, FS_CardinalityType, CapacityAssumption DEF Accounts, TypeOK
<1>7. /\ matches' \in SUBSET (Block \X Nat \X Int) /\ IsFiniteSet(matches')
      /\ Cardinality(matches') <= Capacity /\ match_count' \in Nat
      /\ ~trapped' => match_count' = Cardinality(matches')
      /\ trapped' => /\ Cardinality(matches') = Capacity /\ matches' = matches
                     /\ PhaseOf(b) = 3 /\ \E s : Untold(b, s)
      /\ \A m \in matches' : m[1] \in Block /\ m[2] \in Nat /\ m[3] \in Sids(nfa(m[1]))
  <2>1. CASE matches' = matches /\ match_count' = match_count /\ ~trapped'
    BY <1>6, <2>1
  <2>2. CASE /\ ~trapped' /\ match_count < Capacity /\ match_count' = match_count + 1
             /\ \E s : Untold(b, s) /\ matches' = matches \cup {<<b, Pos(b), s>>}
    <3>1. PICK s : Untold(b, s) /\ matches' = matches \cup {<<b, Pos(b), s>>}
      BY <2>2
    <3>2. s \in Sids(nfa(b)) /\ s \in Int /\ <<b, Pos(b), s>> \notin matches
      <4>1. s \in nfa(b).report /\ <<b, Pos(b), s>> \notin matches
        BY <3>1 DEF Untold
      <4>2. nfa(b).report \subseteq Sids(nfa(b)) /\ Sids(nfa(b)) \subseteq Nat
        BY <1>1, <1>4, BlockFacts
      <4> QED
        BY <4>1, <4>2
    <3>3. Pos(b) \in Nat
      BY <1>1, ThreadFacts DEF TypeOK, Pos
    <3>4. IsFiniteSet(matches') /\ Cardinality(matches') = Cardinality(matches) + 1
      BY <1>6, <3>1, <3>2, FS_AddElement
    <3>5. matches' \in SUBSET (Block \X Nat \X Int)
      BY <1>1, <1>6, <3>1, <3>2, <3>3
    <3>6. \A m \in matches' : m[1] \in Block /\ m[2] \in Nat /\ m[3] \in Sids(nfa(m[1]))
      BY <1>1, <1>6, <3>1, <3>2, <3>3
    <3> QED
      BY <1>6, <2>2, <3>4, <3>5, <3>6
  <2>3. CASE /\ trapped' /\ match_count >= Capacity /\ match_count' = match_count + 1
             /\ PhaseOf(b) = 3 /\ matches' = matches /\ \E s : Untold(b, s)
    BY <1>6, <2>3
  <2> QED
    BY <1>2, <2>1, <2>2, <2>3 DEF Tells
<1>8. TypeOK'
  <2>1. BitvecLength' = BitvecLength
    BY <1>1, <1>3, <1>4, PlaceSame
  <2>2. vec' \in [Block -> [{0, 1} -> SUBSET (0 .. WordBits * BitvecLength' - 1)]]
    BY <1>2, <2>1 DEF Keeps, Bits
  <2>3. \A m \in matches' : m[1] \in Block /\ m[2] \in Nat /\ m[3] \in Sids(nfa(m[1]))'
    <3>1. \A d \in Block : Sids(nfa(d))' = Sids(nfa(d))
      BY <1>3 DEF Sids
    <3>2. ASSUME NEW m \in matches' PROVE m[3] \in Sids(nfa(m[1]))'
      <4>1. m[1] \in Block /\ m[3] \in Sids(nfa(m[1]))
        BY <1>7
      <4>2. nfa(m[1])' = nfa(m[1])
        BY <1>3, <4>1
      <4> QED
        BY <4>1, <4>2 DEF Sids
    <3> QED
      BY <1>7, <3>2
  <2>4. trapped' \in BOOLEAN
    <3>1. trapped \in BOOLEAN
      BY <1>1 DEF TypeOK
    <3>2. CASE Output(t)
      <4> DEFINE hit == /\ offset[t] < nfa(t[1]).size
                        /\ offset[t] \in Enabled(t) \cap nfa(t[1]).report
      <4>1. trapped' = (hit /\ match_count >= Capacity)
        BY <3>2 DEF Output
      <4> HIDE DEF hit
      <4> QED
        BY <4>1, Zenon
    <3>3. CASE Load(t) \/ ClearActive(t) \/ Transit(t) \/ AlwaysEnabled(t)
      <4>1. trapped' = trapped
        BY <3>3 DEF Load, ClearActive, Transit, AlwaysEnabled
      <4> QED
        BY <3>1, <4>1
    <3> QED
      BY <3>2, <3>3 DEF ThreadStep
  <2> QED
    BY <1>1, <1>4, <1>7, <2>2, <2>3, <2>4 DEF TypeOK
<1>9. trapped' => Trap'
  <2> SUFFICES ASSUME trapped' PROVE Trap'
    OBVIOUS
  <2>1. PICK s : Untold(b, s)
    BY <1>7
  <2>2. /\ PhaseOf(b)' = 3 /\ s \in Activations(b)' \cap nfa(b)'.report
        /\ <<b, Pos(b)', s>> \notin matches'
    BY <1>1, <1>3, <1>7, <2>1 DEF Untold
  <2> QED
    BY <1>1, <1>7, <2>2 DEF Trap
<1>10. Accounts'
  BY <1>4, <1>5, <1>7, <1>9 DEF Accounts
<1> QED
  BY <1>3, <1>8, <1>10 DEF IInv

-----------------------------------------------------------------------------
(* The barriers.                                                             *)

\* The threads of block b are released from a barrier to the symbol at position p; the
\* other blocks are not concerned.
Released(b, at, to, p) ==
    /\ Barrier(b, at, to)
    /\ input_position' = [t \in Thread |-> IF t[1] = b THEN p ELSE input_position[t]]
    /\ at \in Syncs \cup {"sync1"}
    /\ to \in {"sync1", "clear", "transit", "output", "always", "done"}
    /\ p \in Nat

\* Where the threads of a block come from and where they are released to.
LEMMA ReleasedFacts ==
    ASSUME IInv, NEW b \in Block, NEW at, NEW to, NEW p, Released(b, at, to, p)
    PROVE  /\ PhaseOf(b) = Phase(at) /\ PhaseOf(b)' = Phase(to) /\ Pos(b)' = p
           /\ job \in Jobs /\ job' = job /\ vec' = vec /\ matches' = matches /\ ~trapped
           /\ nfa(b)' = nfa(b) /\ input(b)' = input(b)
           /\ at \in Syncs => \A i \in Nat : Through(b, i)
           /\ \A i \in Nat : ~Through(b, i)'
           /\ Acting(b)' = vec[b][ActiveHalf(p)] /\ Activations(b)' = vec[b][EnabledHalf(p)]
           /\ \A t \in ThreadsOf(b) : Control(t)'
<1>1. /\ Lead(b) \in ThreadsOf(b) /\ Lead(b) \in Thread /\ ThreadsOf(b) \subseteq Thread
      /\ Lead(b)[1] = b /\ \A t \in ThreadsOf(b) : t[1] = b /\ t[2] \in Tid
  BY ThreadFacts
<1>2. /\ \A t \in ThreadsOf(b) : pc[t] = at
      /\ \A t \in ThreadsOf(b) : pc'[t] = to /\ offset'[t] = offset[t] /\ input_position'[t] = p
      /\ job' = job /\ vec' = vec /\ matches' = matches /\ ~trapped
  BY <1>1 DEF Released, Barrier
<1>3. PhaseOf(b) = Phase(at) /\ PhaseOf(b)' = Phase(to) /\ Pos(b)' = p
  BY <1>1, <1>2 DEF PhaseOf, Pos, Lead
<1>4. nfa(b)' = nfa(b) /\ input(b)' = input(b) /\ job \in Jobs
  BY <1>2 DEF nfa, input, IInv, TypeOK
<1>5. ASSUME NEW t \in ThreadsOf(b) PROVE offset[t] = t[2] /\ offset'[t] = t[2]
  <2>1. Control(t) /\ pc[t] = at
    BY <1>2 DEF IInv, BlockInv
  <2>2. at \notin Loops
    BY DEF Released, Syncs, Loops
  <2> QED
    BY <1>2, <2>1, <2>2 DEF Control
<1>6. at \in Syncs => \A i \in Nat : Through(b, i)
  BY <1>2, ItemFacts DEF Through
<1>7. ASSUME NEW i \in Nat PROVE ~Through(b, i)'
  <2>1. /\ Owner(b, i) \in ThreadsOf(b) /\ Owner(b, i)[2] = i % BlockDim /\ i % BlockDim \in Tid
    BY ItemFacts
  <2>2. pc'[Owner(b, i)] = to /\ offset'[Owner(b, i)] = i % BlockDim
    BY <1>2, <1>5, <2>1
  <2>3. i % BlockDim <= i /\ i % BlockDim \in Nat
    BY <2>1, ItemFacts, ThreadFacts
  <2>4. to \notin Syncs
    BY DEF Released, Syncs
  <2> QED
    BY <2>2, <2>3, <2>4 DEF Through, Owner
<1>8. Phase(to) # 0
  BY DEF Released, Phase
<1>9. Acting(b)' = vec[b][ActiveHalf(p)] /\ Activations(b)' = vec[b][EnabledHalf(p)]
  BY <1>2, <1>3, <1>8, VectorsAre
<1>10. ASSUME NEW t \in ThreadsOf(b) PROVE Control(t)'
  <2>1. t[1] = b /\ t[2] % BlockDim = t[2]
    BY <1>1, ItemFacts
  <2> QED
    BY <1>2, <1>3, <1>5, <2>1 DEF Control
<1> QED
  BY <1>2, <1>3, <1>4, <1>6, <1>7, <1>9, <1>10

\* A block released to a symbol, or to the end of the stream, with the states of S in
\* what is the enabled vector then.
LEMMA SymbolBegins ==
    ASSUME IInv, NEW b \in Block, NEW at, NEW p, Released(b, at, LoopTest(b, p), p),
           p <= Len(input(b)), Sane(b, vec[b][EnabledHalf(p)]),
           \A m \in matches : m[1] = b => m[2] < p
    PROVE  BlockInv(b)' /\ Activations(b)' = vec[b][EnabledHalf(p)] /\ Pos(b)' = p
<1> DEFINE to == LoopTest(b, p)
<1>1. p \in Nat /\ Len(input(b)) \in Nat
  BY BlockFacts DEF Released, IInv, TypeOK
<1>2. /\ to \in {"sync1", "done"}
      /\ to = "done" => p = Len(input(b))
      /\ to = "sync1" => p < Len(input(b))
  BY <1>1 DEF LoopTest
<1> HIDE DEF to
<1>3. Released(b, at, to, p)
  BY DEF to
<1>4. /\ PhaseOf(b)' = Phase(to) /\ Pos(b)' = p /\ job \in Jobs
      /\ vec' = vec /\ matches' = matches /\ nfa(b)' = nfa(b) /\ input(b)' = input(b) /\ job' = job
      /\ \A i \in Nat : ~Through(b, i)'
      /\ Activations(b)' = vec[b][EnabledHalf(p)]
      /\ \A t \in ThreadsOf(b) : Control(t)'
  BY <1>3, ReleasedFacts
<1>5. Phase(to) \in {1, 5} /\ (Phase(to) = 5 <=> to = "done")
  BY <1>2 DEF Phase
<1>6. Positions(b)'
  BY <1>2, <1>4, <1>5 DEF Positions
<1>7. Sane(b, Activations(b))'
  BY <1>4 DEF Sane
<1>8. PhaseInv(b)'
  <2>1. Item(b)' \subseteq Nat
    BY DEF Item
  <2>2. ClearInv(b)'
    BY <1>4, <2>1 DEF ClearInv
  <2> QED
    BY <1>4, <1>5, <2>2 DEF PhaseInv
<1>9. BlockInv(b)'
  BY <1>4, <1>6, <1>7, <1>8 DEF BlockInv
<1> QED
  BY <1>4, <1>9

\* Between two barriers of a symbol the activated states stay where they are.
LEMMA SymbolGoesOn ==
    ASSUME IInv, NEW b \in Block, NEW at, NEW to, Released(b, at, to, Pos(b)),
           Phase(at) \in {1, 2, 3}, Phase(to) \in {1, 2, 3, 4}, Phase(at) = 3 => Phase(to) = 4,
           PhaseInv(b)'
    PROVE  BlockInv(b)' /\ Activations(b)' = Activations(b) /\ Pos(b)' = Pos(b)
<1>1. /\ PhaseOf(b) = Phase(at) /\ PhaseOf(b)' = Phase(to) /\ Pos(b)' = Pos(b)
      /\ matches' = matches /\ nfa(b)' = nfa(b) /\ input(b)' = input(b)
      /\ Activations(b)' = vec[b][EnabledHalf(Pos(b))]
      /\ \A t \in ThreadsOf(b) : Control(t)'
  BY ReleasedFacts
<1>2. Activations(b)' = Activations(b)
  BY <1>1, VectorsAre
<1>3. Positions(b) /\ Sane(b, Activations(b))
  BY DEF IInv, BlockInv
<1>4. Positions(b)'
  BY <1>1, <1>3 DEF Positions
<1>5. Sane(b, Activations(b))'
  BY <1>1, <1>2, <1>3 DEF Sane
<1>6. BlockInv(b)'
  BY <1>1, <1>4, <1>5 DEF BlockInv
<1> QED
  BY <1>1, <1>2, <1>6

\* What stays while a symbol goes on.
LEMMA SymbolStays ==
    ASSUME IInv, NEW b \in Block, NEW at, NEW to, Released(b, at, to, Pos(b)),
           Phase(at) \in {1, 2, 3}
    PROVE  /\ Activations(b)' = Activations(b) /\ Acting(b)' = Acting(b)
           /\ Moved(b)' = Moved(b) /\ Woken(b)' = Woken(b) /\ nfa(b)' = nfa(b) /\ Pos(b)' = Pos(b)
<1>1. /\ PhaseOf(b) = Phase(at) /\ Pos(b)' = Pos(b) /\ nfa(b)' = nfa(b) /\ input(b)' = input(b)
      /\ Activations(b)' = vec[b][EnabledHalf(Pos(b))] /\ Acting(b)' = vec[b][ActiveHalf(Pos(b))]
  BY ReleasedFacts
<1>2. Activations(b)' = Activations(b) /\ Acting(b)' = Acting(b)
  BY <1>1, VectorsAre
<1>3. SymbolOf(b)' = SymbolOf(b)
  BY <1>1 DEF SymbolOf
<1>4. Moved(b)' = Moved(b)
  BY <1>1, <1>2, <1>3 DEF Moved
<1> QED
  BY <1>1, <1>2, <1>4 DEF Woken

\* Once the words are loaded the second half has the start states.
LEMMA Sync0Keeps ==
    ASSUME IInv, NEW b \in Block, Released(b, "sync0", LoopTest(b, 0), 0)
    PROVE  BlockInv(b)' /\ Activations(b)' = Activations(b) /\ Pos(b)' = Pos(b)
<1>1. PhaseOf(b) = 0 /\ job \in Jobs /\ \A i \in Nat : Through(b, i)
  BY ReleasedFacts DEF Phase, Syncs
<1>2. LoadInv(b) /\ Positions(b) /\ Pos(b) = 0
  BY <1>1 DEF IInv, BlockInv, PhaseInv, Positions
<1>3. Item(b) = 0 .. BitvecLength - 1 /\ Item(b) \subseteq Nat
  BY <1>1 DEF Item, LimitOf
<1>4. vec[b][1] \subseteq Bits /\ nfa(b).start \subseteq Bits
  <2>1. nfa(b).start \subseteq Bits
    BY <1>1, BlockFacts, VectorFacts DEF Bits
  <2>2. vec \in [Block -> [{0, 1} -> SUBSET Bits]]
    BY DEF IInv, TypeOK, Bits
  <2> HIDE DEF Bits
  <2> QED
    BY <2>1, <2>2
<1>5. vec[b][1] = nfa(b).start
  <2>1. ASSUME NEW s \in Bits PROVE s \in vec[b][1] <=> s \in nfa(b).start
    <3>1. PICK w \in Item(b) : s \in Word(w)
      BY <1>1, <1>3, VectorFacts DEF Bits
    <3>2. vec[b][1] \cap Word(w) = nfa(b).start \cap Word(w)
      BY <1>1, <1>2, <1>3, <3>1 DEF LoadInv
    <3> QED
      BY <3>1, <3>2
  <2> QED
    BY <1>4, <2>1
<1>6. EnabledHalf(0) = 1 /\ Activations(b) = nfa(b).start
  BY <1>1, VectorsAre
<1>7. Sane(b, vec[b][EnabledHalf(0)]) /\ 0 <= Len(input(b))
  BY <1>1, <1>5, <1>6, BlockFacts DEF Sane
<1>8. \A m \in matches : m[1] = b => m[2] < 0
  BY <1>1, <1>2 DEF Positions
<1> QED
  BY <1>2, <1>5, <1>6, <1>7, <1>8, SymbolBegins

\* The active vector is cleared next.
LEMMA Sync1Keeps ==
    ASSUME IInv, NEW b \in Block, Released(b, "sync1", "clear", Pos(b))
    PROVE  BlockInv(b)' /\ Activations(b)' = Activations(b) /\ Pos(b)' = Pos(b)
<1>1. PhaseOf(b)' = 1 /\ \A i \in Nat : ~Through(b, i)'
  BY ReleasedFacts DEF Phase
<1>2. Item(b)' \subseteq Nat
  BY DEF Item
<1>3. ClearInv(b)'
  BY <1>1, <1>2 DEF ClearInv
<1>4. PhaseInv(b)'
  BY <1>1, <1>3 DEF PhaseInv
<1>5. Phase("sync1") = 1 /\ Phase("clear") = 1
  BY DEF Phase
<1> QED
  BY <1>4, <1>5, SymbolGoesOn

\* The active vector is clear.
LEMMA Sync2Keeps ==
    ASSUME IInv, NEW b \in Block, Released(b, "sync2", "transit", Pos(b))
    PROVE  BlockInv(b)' /\ Activations(b)' = Activations(b) /\ Pos(b)' = Pos(b)
<1>1. Phase("sync2") = 1 /\ Phase("transit") = 2 /\ "sync2" \in Syncs
  BY DEF Phase, Syncs
<1>2. /\ PhaseOf(b) = 1 /\ PhaseOf(b)' = 2 /\ job \in Jobs
      /\ \A i \in Nat : Through(b, i)
      /\ \A i \in Nat : ~Through(b, i)'
  BY <1>1, ReleasedFacts
<1>3. ClearInv(b)
  BY <1>2 DEF IInv, BlockInv, PhaseInv
<1>4. Item(b) = 0 .. BitvecLength - 1 /\ Item(b) \subseteq Nat
  BY <1>2 DEF Item, LimitOf
<1>5. Acting(b) \subseteq Bits
  <2>1. vec \in [Block -> [{0, 1} -> SUBSET Bits]]
    BY DEF IInv, TypeOK, Bits
  <2>2. Pos(b) \in Nat
    BY ThreadFacts DEF IInv, TypeOK, Pos
  <2>3. Acting(b) = vec[b][ActiveHalf(Pos(b))] /\ ActiveHalf(Pos(b)) \in {0, 1}
    BY <2>2, VectorsAre
  <2> HIDE DEF Bits
  <2> QED
    BY <2>1, <2>3
<1>6. Acting(b) = {}
  <2> SUFFICES ASSUME NEW s \in Acting(b) PROVE FALSE
    OBVIOUS
  <2>1. PICK w \in Item(b) : s \in Word(w)
    BY <1>2, <1>4, <1>5, VectorFacts DEF Bits
  <2>2. Acting(b) \cap Word(w) = {}
    BY <1>2, <1>3, <1>4, <2>1 DEF ClearInv
  <2> QED
    BY <2>1, <2>2
<1>7. Acting(b)' = {}
  BY <1>1, <1>6, SymbolStays
<1>8. TransitInv(b)'
  <2>1. Item(b)' \subseteq Nat
    BY DEF Item
  <2> QED
    BY <1>2, <1>7, <2>1 DEF TransitInv
<1>9. PhaseInv(b)'
  BY <1>2, <1>8 DEF PhaseInv
<1> QED
  BY <1>1, <1>9, SymbolGoesOn

\* Every state the symbol moves to is the destination of a transition in its table.
LEMMA MovedByTable ==
    ASSUME job \in Jobs, NEW b \in Block, PhaseOf(b) = 2, Sane(b, Activations(b)), NEW s \in Moved(b)
    PROVE  \E i \in Item(b) : /\ TransitionAt(nfa(b), SymbolOf(b), i)[1] \in Activations(b)
                              /\ TransitionAt(nfa(b), SymbolOf(b), i)[2] = s
<1> DEFINE n == nfa(b)
           c == SymbolOf(b)
<1>1. s \in Successors(n, Activations(b)) /\ match2(n, s, c)
  BY DEF Moved, Activated
<1>2. PICK a \in Activations(b) : s \in n.edges[a]
  BY <1>1 DEF Successors
<1>3. a \in Sids(n) /\ s \in Sids(n)
  BY <1>2, BlockFacts DEF Sane
<1>4. <<a, s>> \in Transitions(n, c)
  BY <1>1, <1>2, <1>3 DEF Transitions
<1>5. n.size \in Nat /\ Item(b) = 0 .. Cardinality(Transitions(n, c)) - 1
  BY BlockFacts DEF Item, LimitOf
<1> HIDE DEF n, c
<1>6. PICK i \in 0 .. Cardinality(Transitions(n, c)) - 1 : TransitionAt(n, c, i) = <<a, s>>
  BY <1>4, <1>5, TransitionFacts
<1>7. TransitionAt(n, c, i)[1] = a /\ TransitionAt(n, c, i)[2] = s
  BY <1>6
<1> QED
  BY <1>2, <1>5, <1>6, <1>7 DEF n, c

\* All transitions of the symbol have fired.
LEMMA Sync3Keeps ==
    ASSUME IInv, NEW b \in Block, Released(b, "sync3", "output", Pos(b))
    PROVE  BlockInv(b)' /\ Activations(b)' = Activations(b) /\ Pos(b)' = Pos(b)
<1>1. Phase("sync3") = 2 /\ Phase("output") = 3 /\ "sync3" \in Syncs
  BY DEF Phase, Syncs
<1>2. /\ PhaseOf(b) = 2 /\ PhaseOf(b)' = 3 /\ job \in Jobs /\ matches' = matches
      /\ \A i \in Nat : Through(b, i)
      /\ \A i \in Nat : ~Through(b, i)'
  BY <1>1, ReleasedFacts
<1>3. TransitInv(b) /\ Positions(b) /\ Sane(b, Activations(b))
  BY <1>2 DEF IInv, BlockInv, PhaseInv
<1>4. Acting(b) = Moved(b)
  <2>1. ASSUME NEW s \in Moved(b) PROVE s \in Acting(b)
    <3>1. PICK i \in Item(b) : /\ TransitionAt(nfa(b), SymbolOf(b), i)[1] \in Activations(b)
                               /\ TransitionAt(nfa(b), SymbolOf(b), i)[2] = s
      BY <1>2, <1>3, MovedByTable
    <3>2. i \in Nat
      BY DEF Item
    <3> QED
      BY <1>2, <1>3, <3>1, <3>2 DEF TransitInv
  <2> QED
    BY <1>3, <2>1 DEF TransitInv
<1>5. /\ Activations(b)' = Activations(b) /\ Acting(b)' = Moved(b)'
      /\ nfa(b)' = nfa(b) /\ Pos(b)' = Pos(b)
  BY <1>1, <1>4, SymbolStays
<1>6. \A m \in matches' : ~(m[1] = b /\ m[2] = Pos(b)')
  <2>1. \A m \in matches : m[2] \in Nat
    BY DEF IInv, TypeOK
  <2>2. Pos(b) \in Nat
    BY ThreadFacts DEF IInv, TypeOK, Pos
  <2>3. \A m \in matches : m[1] = b => m[2] < Pos(b)
    BY <1>2, <1>3 DEF Positions
  <2> QED
    BY <1>2, <1>5, <2>1, <2>2, <2>3
<1>7. \A s \in Activations(b)' : ~Through(b, s)'
  BY <1>2, <1>3, <1>5 DEF Sane, Sids
<1>8. OutputInv(b)'
  BY <1>5, <1>6, <1>7 DEF OutputInv
<1>9. PhaseInv(b)'
  BY <1>2, <1>8 DEF PhaseInv
<1> QED
  BY <1>1, <1>9, SymbolGoesOn

\* All activated states that report have reported.
LEMMA Sync4Keeps ==
    ASSUME IInv, NEW b \in Block, Released(b, "sync4", "always", Pos(b))
    PROVE  BlockInv(b)' /\ Activations(b)' = Activations(b) /\ Pos(b)' = Pos(b)
<1>1. Phase("sync4") = 3 /\ Phase("always") = 4 /\ "sync4" \in Syncs
  BY DEF Phase, Syncs
<1>2. /\ PhaseOf(b) = 3 /\ PhaseOf(b)' = 4 /\ matches' = matches /\ ~trapped
      /\ \A i \in Nat : Through(b, i)
      /\ \A i \in Nat : ~Through(b, i)'
      /\ job \in Jobs
  BY <1>1, ReleasedFacts
<1>3. OutputInv(b) /\ Sane(b, Activations(b))
  BY <1>2 DEF IInv, BlockInv, PhaseInv
<1>4. /\ Activations(b)' = Activations(b) /\ Acting(b)' = Acting(b) /\ Moved(b)' = Moved(b)
      /\ Woken(b)' = Woken(b) /\ nfa(b)' = nfa(b) /\ Pos(b)' = Pos(b)
  BY <1>1, SymbolStays
<1>5. \A m \in matches' : m[1] = b /\ m[2] = Pos(b)' => m[3] \in Activations(b)' \cap nfa(b)'.report
  BY <1>2, <1>3, <1>4 DEF OutputInv
<1>6. \A s \in Activations(b)' \cap nfa(b)'.report : <<b, Pos(b)', s>> \in matches'
  <2>1. \A s \in Activations(b) : Through(b, s)
    BY <1>2, <1>3 DEF Sane, Sids
  <2> QED
    BY <1>2, <1>3, <1>4, <2>1 DEF OutputInv
<1>7. \A s \in nfa(b)'.always : ~Through(b, s)'
  BY <1>2, <1>4, BlockFacts
<1>8. Moved(b)' \subseteq Acting(b)' /\ Acting(b)' \subseteq Woken(b)'
  BY <1>3, <1>4 DEF OutputInv, Woken
<1>9. AlwaysInv(b)'
  BY <1>5, <1>6, <1>7, <1>8 DEF AlwaysInv
<1>10. PhaseInv(b)'
  BY <1>2, <1>9 DEF PhaseInv
<1> QED
  BY <1>1, <1>10, SymbolGoesOn

\* The symbol is through: what it woke is what the next one finds enabled, and what the
\* one before it activated has reported.
LEMMA Sync5Keeps ==
    ASSUME IInv, NEW b \in Block, Released(b, "sync5", LoopTest(b, Pos(b) + 1), Pos(b) + 1)
    PROVE  /\ BlockInv(b)' /\ Activations(b)' = Woken(b) /\ Pos(b)' = Pos(b) + 1
           /\ PhaseOf(b) = 4 /\ Pos(b) \in Nat /\ Pos(b) < Len(input(b))
           /\ \A s \in Activations(b) \cap nfa(b).report : <<b, Pos(b), s>> \in matches
<1>1. PhaseOf(b) = 4 /\ job \in Jobs /\ \A i \in Nat : Through(b, i)
  BY ReleasedFacts DEF Phase, Syncs
<1>2. AlwaysInv(b) /\ Positions(b) /\ Sane(b, Activations(b))
  BY <1>1 DEF IInv, BlockInv, PhaseInv
<1>3. Pos(b) \in Nat /\ Pos(b) < Len(input(b)) /\ Len(input(b)) \in Nat
  BY <1>1, <1>2, ThreadFacts, BlockFacts DEF IInv, TypeOK, Pos, Positions
<1>4. Acting(b) = Woken(b)
  <2>1. nfa(b).always \subseteq Acting(b)
    BY <1>1, <1>2, BlockFacts DEF AlwaysInv
  <2> QED
    BY <1>2, <2>1 DEF AlwaysInv, Woken
<1>5. vec[b][EnabledHalf(Pos(b) + 1)] = Woken(b)
  BY <1>3, <1>4, VectorsAre
<1>6. Sane(b, Woken(b))
  <2>1. Moved(b) \subseteq Sids(nfa(b))
    BY <1>1, <1>2, BlockFacts DEF Moved, Activated, Successors, Sane
  <2> QED
    BY <1>1, <2>1, BlockFacts DEF Sane, Woken
<1>7. \A m \in matches : m[1] = b => m[2] < Pos(b) + 1
  <2>1. \A m \in matches : m[2] \in Nat
    BY DEF IInv, TypeOK
  <2> QED
    BY <1>2, <1>3, <2>1 DEF Positions
<1>8. Pos(b) + 1 <= Len(input(b))
  BY <1>3
<1>9. BlockInv(b)' /\ Activations(b)' = Woken(b) /\ Pos(b)' = Pos(b) + 1
  BY <1>5, <1>6, <1>7, <1>8, SymbolBegins
<1> QED
  BY <1>1, <1>2, <1>3, <1>9 DEF AlwaysInv

\* Each barrier is one of these.
LEMMA BlockStepReleases ==
    ASSUME IInv, NEW b \in Block, BlockStep(b)
    PROVE  \/ Released(b, "sync0", LoopTest(b, 0), 0)
           \/ Released(b, "sync1", "clear", Pos(b))
           \/ Released(b, "sync2", "transit", Pos(b))
           \/ Released(b, "sync3", "output", Pos(b))
           \/ Released(b, "sync4", "always", Pos(b))
           \/ Released(b, "sync5", LoopTest(b, Pos(b) + 1), Pos(b) + 1)
<1>1. /\ Lead(b) \in ThreadsOf(b) /\ Lead(b) \in Thread
      /\ input_position \in [Thread -> Nat]
  BY ThreadFacts DEF IInv, TypeOK
<1>2. Pos(b) \in Nat /\ Pos(b) + 1 \in Nat
  BY <1>1 DEF Pos
<1>3. \A t \in Thread : t[1] = b => input_position[t] = Pos(b)
  BY ThreadFacts DEF IInv, BlockInv, Control
<1>4. input_position = [t \in Thread |-> IF t[1] = b THEN Pos(b) ELSE input_position[t]]
  BY <1>1, <1>3
<1>5. \A p : LoopTest(b, p) \in {"sync1", "done"}
  BY DEF LoopTest
<1>6. CASE Sync0(b)
  <2>1. \A t \in ThreadsOf(b) : pc[t] = "sync0"
    BY <1>6 DEF Sync0, Barrier
  <2>2. Pos(b) = 0
    <3>1. PhaseOf(b) = 0
      BY <1>1, <2>1 DEF PhaseOf, Phase
    <3> QED
      BY <3>1 DEF IInv, BlockInv, Positions
  <2> QED
    BY <1>4, <1>5, <1>6, <2>2 DEF Sync0, Released, Syncs
<1>7. CASE Sync1(b)
  BY <1>2, <1>4, <1>7 DEF Sync1, Released
<1>8. CASE Sync2(b)
  BY <1>2, <1>4, <1>8 DEF Sync2, Released, Syncs
<1>9. CASE Sync3(b)
  BY <1>2, <1>4, <1>9 DEF Sync3, Released, Syncs
<1>10. CASE Sync4(b)
  BY <1>2, <1>4, <1>10 DEF Sync4, Released, Syncs
<1>11. CASE Sync5(b)
  BY <1>2, <1>5, <1>11 DEF Sync5, Released, Syncs, Pos, Lead
<1> QED
  BY <1>6, <1>7, <1>8, <1>9, <1>10, <1>11 DEF BlockStep

\* A barrier keeps the invariant of its block.  All but the one that ends a symbol leave
\* the activated states as they are; that one makes them what the symbol wakes, and all
\* reports of the symbol before have been made.
LEMMA BlockStepMoves ==
    ASSUME IInv, NEW b \in Block, BlockStep(b)
    PROVE  /\ BlockInv(b)'
           /\ \/ Activations(b)' = Activations(b) /\ Pos(b)' = Pos(b)
              \/ /\ Activations(b)' = Woken(b) /\ Pos(b)' = Pos(b) + 1
                 /\ Pos(b) \in Nat /\ Pos(b) < Len(input(b))
                 /\ \A s \in Activations(b) \cap nfa(b).report : <<b, Pos(b), s>> \in matches
BY BlockStepReleases, Sync0Keeps, Sync1Keeps, Sync2Keeps, Sync3Keeps, Sync4Keeps, Sync5Keeps

\* It leaves the other blocks, and all memory, alone.
LEMMA BlockStepLeaves ==
    ASSUME IInv, NEW b \in Block, BlockStep(b)
    PROVE  /\ job' = job /\ offset' = offset /\ vec' = vec /\ matches' = matches
           /\ match_count' = match_count /\ trapped' = trapped /\ ~trapped
           /\ host' = host /\ report_file' = report_file
           /\ pc' \in [Thread -> PCs] /\ input_position' \in [Thread -> Nat]
           /\ host = "waiting"
           /\ \A d \in Block : d # b =>
                 BlockInv(d)' /\ Activations(d)' = Activations(d) /\ Pos(d)' = Pos(d)
<1>1. PICK at, to, p : Released(b, at, to, p)
  BY BlockStepReleases
<1>2. /\ job' = job /\ offset' = offset /\ vec' = vec /\ matches' = matches
      /\ match_count' = match_count /\ trapped' = trapped /\ ~trapped
      /\ host' = host /\ report_file' = report_file
      /\ pc' = [t \in Thread |-> IF t[1] = b THEN to ELSE pc[t]]
      /\ input_position' = [t \in Thread |-> IF t[1] = b THEN p ELSE input_position[t]]
      /\ to \in PCs /\ p \in Nat
      /\ \A t \in ThreadsOf(b) : pc[t] = at
      /\ at # "done"
  BY <1>1 DEF Released, Barrier, PCs, Syncs
<1>3. pc \in [Thread -> PCs] /\ input_position \in [Thread -> Nat]
  BY DEF IInv, TypeOK
<1>4. pc' \in [Thread -> PCs] /\ input_position' \in [Thread -> Nat]
  BY <1>2, <1>3
<1>5. host = "waiting"
  <2>1. Lead(b) \in Thread /\ pc[Lead(b)] # "done"
    BY <1>2, ThreadFacts
  <2> QED
    BY <1>2, <2>1 DEF IInv, Accounts, TypeOK
<1>6. ASSUME NEW d \in Block, d # b
      PROVE  BlockInv(d)' /\ Activations(d)' = Activations(d) /\ Pos(d)' = Pos(d)
  <2>1. \A u \in ThreadsOf(d) : /\ pc'[u] = pc[u] /\ offset'[u] = offset[u]
                                /\ input_position'[u] = input_position[u]
    BY <1>2, <1>6, ThreadFacts
  <2>2. BlockInv(d)
    BY DEF IInv
  <2> QED
    BY <1>2, <2>1, <2>2, BlockSame
<1> QED
  BY <1>2, <1>4, <1>5, <1>6

\* What depends on the job alone is the same where the job is.
LEMMA JobSame ==
    ASSUME job' = job
    PROVE  (\A d \in Block : nfa(d)' = nfa(d) /\ Sids(nfa(d))' = Sids(nfa(d))) /\ BitvecLength' = BitvecLength
<1>1. \A d \in Block : nfa(d)' = nfa(d)
  BY DEF nfa
<1>2. \A d \in Block : Sids(nfa(d))' = Sids(nfa(d))
  BY <1>1 DEF Sids
<1>3. { nfa(c).size \div WordBits + 1 : c \in Block }'
         = { nfa(c).size \div WordBits + 1 : c \in Block }
  BY <1>1
<1> QED
  BY <1>1, <1>2, <1>3 DEF BitvecLength

\* The types where memory is as it was.
LEMMA TypesSame ==
    ASSUME TypeOK, UNCHANGED <<job, offset, vec, matches, match_count, trapped>>,
           pc' \in [Thread -> PCs], input_position' \in [Thread -> Nat],
           host' \in {"waiting", "printed", "exited"}
    PROVE  TypeOK'
<1>1. \A m \in matches : m[1] \in Block /\ m[2] \in Nat /\ m[3] \in Sids(nfa(m[1]))'
  BY JobSame DEF TypeOK
<1>2. vec' \in [Block -> [{0, 1} -> SUBSET (0 .. WordBits * BitvecLength' - 1)]]
  BY JobSame DEF TypeOK
<1> QED
  BY <1>1, <1>2 DEF TypeOK

\* A step of a block keeps the invariant.
LEMMA BlockStepKeeps ==
    ASSUME IInv, NEW b \in Block, BlockStep(b)
    PROVE  IInv'
<1>1. /\ job' = job /\ offset' = offset /\ vec' = vec /\ matches' = matches
      /\ match_count' = match_count /\ trapped' = trapped /\ ~trapped
      /\ host' = host /\ report_file' = report_file
      /\ pc' \in [Thread -> PCs] /\ input_position' \in [Thread -> Nat]
      /\ host = "waiting" /\ TypeOK /\ Accounts
  BY BlockStepLeaves DEF IInv
<1>2. \A d \in Block : BlockInv(d)'
  BY BlockStepMoves, BlockStepLeaves
<1>3. TypeOK'
  BY <1>1, TypesSame
<1>4. Accounts'
  BY <1>1 DEF Accounts
<1> QED
  BY <1>2, <1>3, <1>4 DEF IInv

-----------------------------------------------------------------------------
(* The host, and the invariant.                                              *)

\* Where only the host moves nothing else changes.
LEMMA MemorySame ==
    ASSUME IInv, host' \in {"waiting", "printed", "exited"},
           UNCHANGED <<job, pc, input_position, offset, vec, matches, match_count, trapped>>
    PROVE  /\ TypeOK' /\ (trapped => Trap')
           /\ \A d \in Block : /\ BlockInv(d)' /\ Activations(d)' = Activations(d)
                               /\ Pos(d)' = Pos(d) /\ nfa(d)' = nfa(d)
<1>1. /\ job' = job /\ pc' = pc /\ input_position' = input_position /\ offset' = offset
      /\ vec' = vec /\ matches' = matches /\ trapped' = trapped
  OBVIOUS
<1>2. \A d \in Block : /\ BlockInv(d)' /\ Activations(d)' = Activations(d)
                       /\ PhaseOf(d)' = PhaseOf(d) /\ Pos(d)' = Pos(d) /\ nfa(d)' = nfa(d)
  BY <1>1, BlockSame DEF IInv
<1>3. TypeOK'
  BY <1>1, TypesSame DEF IInv, TypeOK
<1>4. trapped => Trap'
  <2> SUFFICES ASSUME trapped PROVE Trap'
    OBVIOUS
  <2>1. Trap
    BY DEF IInv, Accounts
  <2>2. PICK b \in Block : PhaseOf(b) = 3 /\ \E s \in Activations(b) \cap nfa(b).report :
                                                 <<b, Pos(b), s>> \notin matches
    BY <2>1 DEF Trap
  <2>3. PhaseOf(b)' = 3 /\ \E s \in Activations(b)' \cap nfa(b)'.report :
                              <<b, Pos(b)', s>> \notin matches'
    BY <1>1, <1>2, <2>2
  <2> QED
    BY <1>1, <2>1, <2>3 DEF Trap
<1> QED
  BY <1>2, <1>3, <1>4

\* What the host has read is what the matches are named.
LEMMA NamesSame ==
    ASSUME IInv, \A d \in Block : nfa(d)' = nfa(d), matches' = matches
    PROVE  { <<m[2], nfa(m[1])'.original_id[m[3]]>> : m \in matches' } =
              { <<m[2], nfa(m[1]).original_id[m[3]]>> : m \in matches }
<1>1. \A m \in matches : m[1] \in Block
  BY DEF IInv, TypeOK
<1> QED
  BY <1>1

\* The host reads the matches when all threads are done, or finds the kernel trapped.
LEMMA FinishKeeps == ASSUME IInv, Finish PROVE IInv'
<1>1. /\ pc' = pc /\ matches' = matches /\ match_count' = match_count /\ trapped' = trapped
      /\ trapped \/ \A t \in Thread : pc[t] = "done"
      /\ host' = IF trapped THEN "exited" ELSE "printed"
      /\ report_file' = IF trapped THEN {}
                        ELSE { <<m[2], nfa(m[1]).original_id[m[3]]>> : m \in matches }
  BY DEF Finish
<1>2. /\ TypeOK' /\ (trapped => Trap') /\ \A d \in Block : BlockInv(d)' /\ nfa(d)' = nfa(d)
  BY <1>1, MemorySame DEF Finish
<1>3. { <<m[2], nfa(m[1])'.original_id[m[3]]>> : m \in matches' } =
         { <<m[2], nfa(m[1]).original_id[m[3]]>> : m \in matches }
  BY <1>1, <1>2, NamesSame
<1>4. Accounts'
  BY <1>1, <1>2, <1>3 DEF IInv, Accounts
<1> QED
  BY <1>2, <1>4 DEF IInv

\* Nothing moves.
LEMMA StutterKeeps == ASSUME IInv, UNCHANGED vars PROVE IInv'
<1>1. /\ pc' = pc /\ matches' = matches /\ match_count' = match_count /\ trapped' = trapped
      /\ host' = host /\ report_file' = report_file
  BY DEF vars
<1>2. /\ TypeOK' /\ (trapped => Trap') /\ \A d \in Block : BlockInv(d)' /\ nfa(d)' = nfa(d)
  BY <1>1, MemorySame DEF vars, IInv, TypeOK
<1>3. { <<m[2], nfa(m[1])'.original_id[m[3]]>> : m \in matches' } =
         { <<m[2], nfa(m[1]).original_id[m[3]]>> : m \in matches }
  BY <1>1, <1>2, NamesSame
<1>4. Accounts'
  BY <1>1, <1>2, <1>3 DEF IInv, Accounts
<1> QED
  BY <1>2, <1>4 DEF IInv

\* Nothing has been loaded at the start, whatever the vectors hold.
LEMMA IInvInit == ASSUME Init PROVE IInv
<1>1. /\ job \in Jobs
      /\ pc = [t \in Thread |-> "load"] /\ input_position = [t \in Thread |-> 0]
      /\ offset = [t \in Thread |-> t[2]]
      /\ matches = {} /\ match_count = 0 /\ trapped = FALSE /\ host = "waiting"
  BY DEF Init
<1>2. vec \in [Block -> [{0, 1} -> SUBSET Bits]]
  <2>1. PICK garbage \in {0, 1} :
           vec = [b \in Block |-> [h \in {0, 1} |-> 0 .. garbage * WordBits * BitvecLength - 1]]
    BY DEF Init
  <2>2. CASE Block = {}
    BY <2>1, <2>2
  <2>3. CASE Block # {}
    <3>1. BitvecLength \in Nat
      BY <1>1, <2>3, VectorFacts
    <3>2. WordBits * BitvecLength \in Nat
      BY <3>1, WordBitsAssumption, SMTT(30)
    <3>3. garbage * WordBits * BitvecLength \in {0, WordBits * BitvecLength}
      <4>1. CASE garbage = 0
        <5>1. 0 * WordBits = 0 /\ 0 * BitvecLength = 0
          BY <3>1, WordBitsAssumption, SMTT(30)
        <5> QED
          BY <4>1, <5>1
      <4>2. CASE garbage = 1
        <5>1. 1 * WordBits = WordBits
          BY WordBitsAssumption, SMTT(30)
        <5> QED
          BY <4>2, <5>1
      <4> QED
        BY <4>1, <4>2
    <3>4. 0 .. garbage * WordBits * BitvecLength - 1 \subseteq Bits
      BY <3>2, <3>3 DEF Bits
    <3> HIDE DEF Bits
    <3> QED
      BY <2>1, <3>4
  <2> QED
    BY <2>2, <2>3
<1>3. ASSUME NEW b \in Block
      PROVE  PhaseOf(b) = 0 /\ Pos(b) = 0 /\ Activations(b) = nfa(b).start
  <2>1. Lead(b) \in Thread
    BY ThreadFacts
  <2> QED
    BY <1>1, <2>1 DEF PhaseOf, Phase, Pos, Activations
<1>4. Cardinality(matches) = 0 /\ IsFiniteSet(matches)
  BY <1>1, FS_EmptySet
<1>5. TypeOK
  <2>1. input_position \in [Thread -> Nat] /\ offset \in [Thread -> Nat] /\ pc \in [Thread -> PCs]
    BY <1>1, ThreadFacts DEF PCs
  <2>2. trapped \in BOOLEAN /\ host \in {"waiting", "printed", "exited"} /\ match_count \in Nat
    BY <1>1
  <2>3. \A m \in matches : m[1] \in Block /\ m[2] \in Nat /\ m[3] \in Sids(nfa(m[1]))
    BY <1>1
  <2>4. vec \in [Block -> [{0, 1} -> SUBSET (0 .. WordBits * BitvecLength - 1)]]
    BY <1>2 DEF Bits
  <2>5. Cardinality(matches) <= Capacity /\ job \in Jobs
    BY <1>1, <1>4, CapacityAssumption
  <2> QED
    BY <2>1, <2>2, <2>3, <2>4, <2>5 DEF TypeOK
<1>6. ASSUME NEW b \in Block PROVE BlockInv(b)
  <2>1. \A t \in ThreadsOf(b) : Control(t)
    <3> SUFFICES ASSUME NEW t \in ThreadsOf(b) PROVE Control(t)
      OBVIOUS
    <3>1. t \in Thread /\ t[1] = b /\ t[2] \in Tid /\ t[2] % BlockDim = t[2]
      BY ThreadFacts, ItemFacts
    <3>2. pc[t] = "load" /\ input_position[t] = 0 /\ offset[t] = t[2]
      BY <1>1, <3>1
    <3> QED
      BY <1>3, <3>1, <3>2 DEF Control, Phase
  <2>2. Positions(b) /\ Sane(b, Activations(b))
    BY <1>1, <1>3, BlockFacts DEF Positions, Sane
  <2>3. LoadInv(b)
    <3>1. Item(b) \subseteq Nat
      BY DEF Item
    <3>2. ASSUME NEW i \in Nat PROVE ~Through(b, i)
      <4>1. /\ Owner(b, i) \in Thread /\ Owner(b, i)[2] = i % BlockDim
            /\ i % BlockDim \in Tid /\ i % BlockDim \in Nat
        BY ItemFacts, ThreadFacts
      <4>2. pc[Owner(b, i)] = "load" /\ offset[Owner(b, i)] = i % BlockDim
        BY <1>1, <4>1
      <4>3. i % BlockDim <= i
        BY <4>1, ItemFacts
      <4> QED
        BY <4>1, <4>2, <4>3 DEF Through, Syncs
    <3> QED
      BY <3>1, <3>2 DEF LoadInv
  <2> QED
    BY <1>3, <2>1, <2>2, <2>3 DEF BlockInv, PhaseInv
<1>7. Accounts
  BY <1>1, <1>4, CapacityAssumption DEF Accounts
<1> QED
  BY <1>5, <1>6, <1>7 DEF IInv

\* Every step keeps the invariant.
LEMMA IInvNext == ASSUME IInv, [Next]_vars PROVE IInv'
<1>1. CASE \E t \in Thread : ThreadStep(t)
  BY <1>1, ThreadStepKeeps
<1>2. CASE \E b \in Block : BlockStep(b)
  BY <1>2, BlockStepKeeps
<1>3. CASE Finish
  BY <1>3, FinishKeeps
<1>4. CASE UNCHANGED vars
  BY <1>4, StutterKeeps
<1> QED
  BY <1>1, <1>2, <1>3, <1>4 DEF Next, Terminated

\* It holds in every state of the engine.
LEMMA IInvAlways == Spec => []IInv
BY IInvInit, IInvNext, PTL DEF Spec

\* The shared memory and the registers keep their types, and no more matches are stored
\* than the array has room for, for every set of networks and streams, block size, word
\* width and capacity, whatever the interleaving of the threads.
THEOREM Types == Spec => []TypeOK
<1>1. IInv => TypeOK
  BY DEF IInv
<1> QED
  BY <1>1, IInvAlways, PTL

-----------------------------------------------------------------------------
(* A symbol is one step of the network loaded.                               *)

\* The reports made, at the symbols that made them, and those that wait for the next.
Made == { <<m[1], m[2] - 1, m[3]>> : m \in matches }
Waiting(b) == { <<b, Pos(b) - 1, s>> : s \in Activations(b) \cap nfa(b).report }

\* These are the reports of the networks.
LEMMA AbsReports ==
    /\ abs_reports = Made \cup UNION { Waiting(b) : b \in Block }
    /\ abs_reports' = Made' \cup UNION { Waiting(b)' : b \in Block }
<1>1. \A b \in Block : position[b] = Pos(b) /\ (position[b])' = Pos(b)'
  BY VectorsAre
<1>2. \A b \in Block : position'[b] = Pos(b)'
  BY <1>1
<1>3. \A b \in Block :
         { <<b, position[b] - 1, s>> : s \in Activations(b) \cap nfa(b).report } = Waiting(b)
  BY <1>1 DEF Waiting
<1>4. \A b \in Block :
         { <<b, position'[b] - 1, s>> : s \in Activations(b)' \cap nfa(b)'.report } = Waiting(b)'
  BY <1>2 DEF Waiting
<1>5. abs_reports = Made \cup UNION { Waiting(b) : b \in Block }
  BY <1>3 DEF abs_reports, Made
<1>6. abs_reports' = Made' \cup
         UNION { { <<b, position'[b] - 1, s>> : s \in Activations(b)' \cap nfa(b)'.report } : b \in Block }
  BY DEF abs_reports, Made
<1>7. UNION { { <<b, position'[b] - 1, s>> : s \in Activations(b)' \cap nfa(b)'.report } : b \in Block }
         = UNION { Waiting(b)' : b \in Block }
  BY <1>4
<1> QED
  BY <1>5, <1>6, <1>7

\* The symbols of a block, and what its activated states enable, change together.
LEMMA AbsSame ==
    ASSUME job' = job, NEW d \in Block, Activations(d)' = Activations(d), Pos(d)' = Pos(d)
    PROVE  position'[d] = position[d] /\ abs_enabled'[d] = abs_enabled[d] /\ Waiting(d)' = Waiting(d)
<1>1. nfa(d)' = nfa(d)
  BY DEF nfa
<1>2. position'[d] = position[d]
  BY DEF position, Pos, Lead
<1>3. abs_enabled'[d] = abs_enabled[d]
  BY <1>1 DEF abs_enabled
<1> QED
  BY <1>1, <1>2, <1>3 DEF Waiting

\* Where no block has moved and no report is new the network stays.
LEMMA AbsStays ==
    ASSUME job' = job, Made' \subseteq Made \cup UNION { Waiting(b) : b \in Block }, Made \subseteq Made',
           \A d \in Block : Activations(d)' = Activations(d) /\ Pos(d)' = Pos(d)
    PROVE  position' = position /\ abs_enabled' = abs_enabled /\ abs_reports' = abs_reports
<1>1. \A d \in Block : /\ position'[d] = position[d] /\ abs_enabled'[d] = abs_enabled[d]
                       /\ Waiting(d)' = Waiting(d)
  BY AbsSame
<1>2. position' = position /\ abs_enabled' = abs_enabled
  BY <1>1 DEF position, abs_enabled
<1>3. UNION { Waiting(b)' : b \in Block } = UNION { Waiting(b) : b \in Block }
  BY <1>1
<1>4. abs_reports' = abs_reports
  BY <1>3, AbsReports
<1> QED
  BY <1>2, <1>4

\* The step of a thread is none of the network: what it reports was waiting.
LEMMA ThreadIsSilent ==
    ASSUME IInv, NEW t \in Thread, ThreadStep(t)
    PROVE  /\ job' = job
           /\ position' = position /\ abs_enabled' = abs_enabled /\ abs_reports' = abs_reports
<1> DEFINE b == t[1]
<1>1. b \in Block /\ Iterates(t) /\ Tells(t)
  BY ThreadFacts, StepKeeps DEF IInv
<1>2. job' = job /\ \A d \in Block : Activations(d)' = Activations(d) /\ Pos(d)' = Pos(d)
  BY <1>1, ThreadStepBlocks DEF Iterates
<1>3. Made \subseteq Made'
  <2>1. matches \subseteq matches'
    BY <1>1 DEF Tells
  <2> QED
    BY <2>1 DEF Made
<1>4. ASSUME NEW m \in matches'
      PROVE  <<m[1], m[2] - 1, m[3]>> \in Made \cup UNION { Waiting(d) : d \in Block }
  <2>1. CASE m \in matches
    BY <2>1 DEF Made
  <2>2. CASE m \notin matches
    <3>1. PICK s : Untold(b, s) /\ m = <<b, Pos(b), s>>
      BY <1>1, <1>4, <2>2 DEF Tells
    <3>2. <<m[1], m[2] - 1, m[3]>> = <<b, Pos(b) - 1, s>>
      BY <3>1
    <3>3. s \in Activations(b) \cap nfa(b).report
      BY <3>1 DEF Untold
    <3>4. <<b, Pos(b) - 1, s>> \in Waiting(b)
      BY <3>3 DEF Waiting
    <3> QED
      BY <1>1, <3>2, <3>4
  <2> QED
    BY <2>1, <2>2
<1>5. Made' \subseteq Made \cup UNION { Waiting(d) : d \in Block }
  BY <1>4 DEF Made
<1> QED
  BY <1>2, <1>3, <1>5, AbsStays

\* The barrier that ends a symbol is the step of the network; the others are none.
LEMMA BarrierConsumes ==
    ASSUME IInv, NEW b \in Block, BlockStep(b)
    PROVE  \/ position' = position /\ abs_enabled' = abs_enabled /\ abs_reports' = abs_reports
           \/ Consumes(job, Block, b, position, abs_enabled, abs_reports,
                       position', abs_enabled', abs_reports')
<1>1. /\ job' = job /\ job \in Jobs /\ matches' = matches
      /\ \A d \in Block : d # b => Activations(d)' = Activations(d) /\ Pos(d)' = Pos(d)
  BY BlockStepLeaves DEF IInv, TypeOK
<1>2. Made' = Made
  BY <1>1 DEF Made
<1>3. CASE Activations(b)' = Activations(b) /\ Pos(b)' = Pos(b)
  BY <1>1, <1>2, <1>3, AbsStays
<1>4. CASE /\ Activations(b)' = Woken(b) /\ Pos(b)' = Pos(b) + 1
           /\ Pos(b) \in Nat /\ Pos(b) < Len(input(b))
           /\ \A s \in Activations(b) \cap nfa(b).report : <<b, Pos(b), s>> \in matches
  <2> DEFINE n == job.nfa[b[1]]
             p == Pos(b)
             c == SymbolOf(b)
             S == Successors(nfa(b), Activations(b))
  <2>1. position[b] = p /\ p \in Nat /\ position'[b] = p + 1
    BY <1>4, VectorsAre
  <2>2. \A d \in Block : d # b => /\ position'[d] = position[d] /\ abs_enabled'[d] = abs_enabled[d]
                                  /\ Waiting(d)' = Waiting(d)
    BY <1>1, AbsSame
  <2>3. /\ HasClones(nfa(b), n)
        /\ Activations(b) \subseteq Sids(nfa(b)) /\ nfa(b).always \subseteq Activations(b)
    BY <1>1, BlockFacts DEF IInv, BlockInv, Sane
  <2>4. Woken(b) = Activated(nfa(b), S, c) \cup (Activations(b) \cap nfa(b).always)
    BY <2>3 DEF Woken, Moved
  <2>5. /\ Successors(nfa(b), Woken(b)) = NextEnabled(n, S, c)
        /\ Woken(b) \cap nfa(b).report = Reporting(n, S, c)
    <3> HIDE DEF n, c
    <3> QED
      BY <2>3, <2>4, ClonesStep DEF S
  <2>6. nfa(b)' = nfa(b)
    BY <1>1 DEF nfa
  <2>7. abs_enabled[b] = S /\ abs_enabled'[b] = NextEnabled(n, S, c)
    BY <1>4, <2>5, <2>6 DEF abs_enabled
  <2>8. position' = [position EXCEPT ![b] = @ + 1]
    <3>1. DOMAIN position = Block /\ position = [d \in Block |-> position[d]]
          /\ position' = [d \in Block |-> position'[d]]
      BY DEF position
    <3> QED
      BY <2>1, <2>2, <3>1
  <2>9. abs_enabled' = [abs_enabled EXCEPT ![b] = NextEnabled(n, @, c)]
    <3>1. DOMAIN abs_enabled = Block /\ abs_enabled = [d \in Block |-> abs_enabled[d]]
          /\ abs_enabled' = [d \in Block |-> abs_enabled'[d]]
      BY DEF abs_enabled
    <3> HIDE DEF S, c, n
    <3> QED
      BY <2>2, <2>7, <3>1
  <2>10. Waiting(b)' = { <<b, p, s>> : s \in Reporting(n, S, c) }
    <3>1. Waiting(b)' = { <<b, (p + 1) - 1, s>> : s \in Woken(b) \cap nfa(b).report }
      BY <1>4, <2>6 DEF Waiting
    <3>2. (p + 1) - 1 = p
      BY <2>1
    <3> HIDE DEF S, c, n, p
    <3> QED
      BY <2>5, <3>1, <3>2
  <2>11. Waiting(b) \subseteq Made
    <3> SUFFICES ASSUME NEW s \in Activations(b) \cap nfa(b).report
                 PROVE  <<b, p - 1, s>> \in Made
      BY DEF Waiting
    <3>1. <<b, p, s>> \in matches
      BY <1>4
    <3> QED
      BY <3>1 DEF Made
  <2>12. abs_reports' = abs_reports \cup { <<b, p, s>> : s \in Reporting(n, S, c) }
    <3> DEFINE Now == { <<b, p, s>> : s \in Reporting(n, S, c) }
               W == UNION { Waiting(d) : d \in Block }
               V == UNION { Waiting(d)' : d \in Block }
    <3>1. abs_reports = Made \cup W /\ abs_reports' = Made \cup V
      BY <1>2, AbsReports
    <3>2. Waiting(b)' = Now
      BY <2>10
    <3> HIDE DEF Now
    <3>3. V \subseteq W \cup Now
      BY <2>2, <3>2
    <3>4. W \subseteq Made \cup V
      BY <2>2, <2>11
    <3>5. Now \subseteq V
      BY <3>2
    <3> HIDE DEF W, V
    <3>6. abs_reports' = abs_reports \cup Now
      BY <3>1, <3>3, <3>4, <3>5
    <3> QED
      BY <3>6 DEF Now
  <2>13. /\ DOMAIN position = Block /\ DOMAIN abs_enabled = Block
         /\ job.input[b[2]] = input(b) /\ c = input(b)[p + 1]
    BY DEF position, abs_enabled, input, SymbolOf
  <2> HIDE DEF S, c, p
  <2> QED
    BY <1>4, <2>1, <2>7, <2>8, <2>9, <2>12, <2>13 DEF Consumes, p
<1> QED
  BY <1>3, <1>4, BlockStepMoves

\* Each step is none, or a symbol's.
LEMMA StepConsumes ==
    ASSUME IInv, [Next]_vars
    PROVE  /\ job' = job
           /\ \/ position' = position /\ abs_enabled' = abs_enabled /\ abs_reports' = abs_reports
              \/ \E b \in Block : Consumes(job, Block, b, position, abs_enabled, abs_reports,
                                           position', abs_enabled', abs_reports')
<1>1. CASE \E t \in Thread : ThreadStep(t)
  BY <1>1, ThreadIsSilent
<1>2. CASE \E b \in Block : BlockStep(b)
  BY <1>2, BarrierConsumes, BlockStepLeaves
<1>3. CASE Finish \/ UNCHANGED vars
  <2>1. UNCHANGED <<job, pc, input_position, offset, vec, matches, match_count, trapped>>
    BY <1>3 DEF Finish, vars
  <2>2. host' \in {"waiting", "printed", "exited"}
    BY <1>3 DEF Finish, vars, IInv, TypeOK
  <2>3. \A d \in Block : Activations(d)' = Activations(d) /\ Pos(d)' = Pos(d)
    BY <2>1, <2>2, MemorySame
  <2>4. Made' = Made
    BY <2>1 DEF Made
  <2> QED
    BY <2>1, <2>3, <2>4, AbsStays
<1> QED
  BY <1>1, <1>2, <1>3 DEF Next, Terminated

\* Before the first symbol the clones enable the starts and do not report.
LEMMA AbsBegins ==
    ASSUME Init
    PROVE  /\ position = [b \in Block |-> 0]
           /\ abs_enabled = [b \in Block |-> job.nfa[b[1]].start]
           /\ abs_reports = {}
<1>1. /\ job \in Jobs /\ matches = {} /\ pc = [t \in Thread |-> "load"]
      /\ input_position = [t \in Thread |-> 0]
  BY DEF Init
<1>2. ASSUME NEW b \in Block
      PROVE  /\ position[b] = 0 /\ abs_enabled[b] = job.nfa[b[1]].start /\ Waiting(b) = {}
  <2>1. Lead(b) \in Thread
    BY ThreadFacts
  <2>2. position[b] = 0
    BY <1>1, <2>1 DEF position
  <2>3. Activations(b) = nfa(b).start
    BY <1>1, <2>1 DEF Activations
  <2>4. HasClones(nfa(b), job.nfa[b[1]]) /\ nfa(b).start \cap nfa(b).report = {}
    BY <1>1, BlockFacts
  <2>5. Successors(nfa(b), nfa(b).start) = job.nfa[b[1]].start
    BY <2>4, ClonesEnable
  <2> QED
    BY <2>2, <2>3, <2>4, <2>5 DEF abs_enabled, Waiting
<1>3. position = [b \in Block |-> 0]
  BY <1>2 DEF position
<1>4. abs_enabled = [b \in Block |-> job.nfa[b[1]].start]
  BY <1>2 DEF abs_enabled
<1>5. Made = {} /\ UNION { Waiting(b) : b \in Block } = {}
  BY <1>1, <1>2 DEF Made
<1> QED
  BY <1>3, <1>4, <1>5, AbsReports

\* The engine implements EnableActiveNFA on the networks as they were loaded, for every
\* set of networks and streams, block size, word width and capacity, whatever the
\* interleaving of the threads: no bit of the state vectors is lost, left over or early,
\* and no report but the last symbol's fails to be made.
THEOREM Refinement == Spec => Implements
<1>1. Init => Abs!Init
  <2> SUFFICES ASSUME Init PROVE Abs!Init
    OBVIOUS
  <2>1. job \in Jobs
    BY DEF Init
  <2> QED
    BY <2>1, AbsBegins DEF Abs!Init, Abs!Block, Block, Abs!nfa
<1>2. IInv /\ [Next]_vars => [Abs!Next]_(Abs!vars)
  <2> SUFFICES ASSUME IInv, [Next]_vars PROVE [Abs!Next]_(Abs!vars)
    OBVIOUS
  <2>1. CASE position' = position /\ abs_enabled' = abs_enabled /\ abs_reports' = abs_reports
    BY <2>1, StepConsumes DEF Abs!vars
  <2>2. CASE \E b \in Block : Consumes(job, Block, b, position, abs_enabled, abs_reports,
                                       position', abs_enabled', abs_reports')
    <3>1. PICK b \in Block : Consumes(job, Block, b, position, abs_enabled, abs_reports,
                                      position', abs_enabled', abs_reports')
      BY <2>2
    <3>2. Abs!Consume(b)
      BY <3>1, StepConsumes
         DEF Consumes, Abs!Consume, Abs!nfa, Abs!input, Abs!NextEnabled, NextEnabled,
             Abs!Successors, Successors, Abs!Activated, Activated, Abs!match2, match2,
             Abs!Reporting, Reporting
    <3> QED
      BY <3>2 DEF Abs!Next, Abs!Block, Block
  <2> QED
    BY <2>1, <2>2, StepConsumes
<1> QED
  BY <1>1, <1>2, IInvAlways, PTL DEF Spec, Implements, Abs!Spec

-----------------------------------------------------------------------------
(* The engine prints what the networks report, a symbol late.                *)

\* The networks loaded are such that only states are enabled.
LEMMA NetworksSound == ASSUME job \in Jobs PROVE Sound(job, Block)
<1> SUFFICES ASSUME NEW b \in Block
             PROVE  LET n == job.nfa[b[1]]
                    IN  /\ n.start \subseteq Sids(n) /\ n.always \subseteq Sids(n)
                        /\ \A s \in Sids(n) : n.edges[s] \subseteq Sids(n)
                        /\ Len(job.input[b[2]]) \in Nat
  BY DEF Sound
<1>1. HasClones(nfa(b), job.nfa[b[1]]) /\ Len(input(b)) \in Nat
  BY BlockFacts
<1> QED
  BY <1>1 DEF HasClones, input

\* What the blocks have read so far.
Running == RunOf(job, Block, position, abs_enabled, abs_reports)

\* The reports a block makes late.
LateOf(b) ==
    { <<b, r[1] + 1, r[2]>> :
        r \in { q \in ReportsOf(job.nfa[b[1]], input(b)) : q[1] + 1 < Len(input(b)) } }

\* A report of the networks is late by one symbol, if there is one.
LEMMA LateIs ==
    ASSUME IInv, Running
    PROVE  /\ LateReports = UNION { LateOf(b) : b \in Block }
           /\ \A b \in Block, k \in Int : \A s :
                 <<b, k, s>> \in abs_reports /\ k + 1 < Len(input(b)) => <<b, k + 1, s>> \in LateOf(b)
           /\ \A b \in Block : \A m \in LateOf(b) :
                 /\ m = <<b, m[2], m[3]>> /\ m[2] \in Nat /\ m[2] < Len(input(b))
                 /\ m[3] \in Sids(job.nfa[b[1]])
                 /\ Pos(b) = Len(input(b)) => <<b, m[2] - 1, m[3]>> \in abs_reports
<1> DEFINE Of(b) == ReportsOf(job.nfa[b[1]], input(b))
<1>1. LateReports = UNION { LateOf(b) : b \in Block }
  BY DEF LateReports, LateOf
<1>2. \A b \in Block : \A r \in Of(b) : r = <<r[1], r[2]>> /\ r[1] \in Nat /\ r[2] \in Sids(job.nfa[b[1]])
                                         /\ r[1] < Len(input(b))
  <2>1. \A b \in Block : Len(input(b)) \in Nat
    BY BlockFacts DEF IInv, TypeOK
  <2> QED
    BY <2>1 DEF ReportsOf
<1>3. \A b \in Block : /\ ReportsBefore(job.nfa[b[1]], job.input[b[2]], position[b])
                             = { r \in Of(b) : r[1] < position[b] }
                       /\ position[b] = Pos(b)
  BY VectorsAre DEF ReportsBefore, input
<1> HIDE DEF Of
<1>4. abs_reports = UNION { { <<b, r[1], r[2]>> : r \in { q \in Of(b) : q[1] < position[b] } } : b \in Block }
  BY <1>3 DEF Running, RunOf, ReportsOfGrid
<1>5. ASSUME NEW b \in Block, NEW k \in Int, NEW s,
             <<b, k, s>> \in abs_reports, k + 1 < Len(input(b))
      PROVE  <<b, k + 1, s>> \in LateOf(b)
  <2>1. PICK d \in Block : <<b, k, s>> \in { <<d, r[1], r[2]>> : r \in { q \in Of(d) : q[1] < position[d] } }
    BY <1>4, <1>5
  <2>2. PICK r \in Of(d) : <<b, k, s>> = <<d, r[1], r[2]>>
    BY <2>1
  <2>3. d = b /\ r[1] = k /\ r[2] = s
    BY <2>2
  <2> QED
    BY <1>5, <2>2, <2>3 DEF LateOf, Of
<1>6. ASSUME NEW b \in Block, NEW m \in LateOf(b)
      PROVE  /\ m = <<b, m[2], m[3]>> /\ m[2] \in Nat /\ m[2] < Len(input(b))
             /\ m[3] \in Sids(job.nfa[b[1]])
             /\ Pos(b) = Len(input(b)) => <<b, m[2] - 1, m[3]>> \in abs_reports
  <2>1. PICK r \in Of(b) : m = <<b, r[1] + 1, r[2]>> /\ r[1] + 1 < Len(input(b))
    BY DEF LateOf, Of
  <2>2. /\ r = <<r[1], r[2]>> /\ r[1] \in Nat /\ r[2] \in Sids(job.nfa[b[1]])
        /\ r[1] < Len(input(b)) /\ m[2] = r[1] + 1 /\ m[3] = r[2] /\ m[2] - 1 = r[1]
    BY <1>2, <2>1
  <2>3. ASSUME Pos(b) = Len(input(b)) PROVE <<b, m[2] - 1, m[3]>> \in abs_reports
    <3>1. r \in { q \in Of(b) : q[1] < position[b] }
      BY <1>3, <2>2, <2>3
    <3>2. <<b, r[1], r[2]>> \in abs_reports
      BY <1>4, <3>1
    <3> QED
      BY <2>2, <3>2
  <2> QED
    BY <2>1, <2>2, <2>3
<1> QED
  BY <1>1, <1>5, <1>6

\* The image of a finite set is finite.
LEMMA ImageFinite ==
    ASSUME NEW S, IsFiniteSet(S), NEW f, f = [x \in S |-> f[x]]
    PROVE  IsFiniteSet({ f[x] : x \in S })
<1> DEFINE T == { f[x] : x \in S }
<1>1. f \in Surjection(S, T)
  BY DEF Surjection
<1> QED
  BY <1>1, FS_Surjection

\* There are finitely many.
LEMMA LateFinite ==
    ASSUME IInv
    PROVE  IsFiniteSet(LateReports)
<1>1. ASSUME NEW b \in Block PROVE IsFiniteSet(LateOf(b))
  <2> DEFINE n == job.nfa[b[1]]
             Q == { q \in ReportsOf(n, input(b)) : q[1] + 1 < Len(input(b)) }
             f == [r \in Q |-> <<b, r[1] + 1, r[2]>>]
  <2>1. Len(input(b)) \in Nat /\ n.size \in Nat
    BY BlockFacts DEF IInv, TypeOK, HasClones
  <2>2. IsFiniteSet(0 .. Len(input(b)) - 1) /\ IsFiniteSet(Sids(n))
    <3>1. Len(input(b)) - 1 \in Int /\ n.size - 1 \in Int
      BY <2>1
    <3> HIDE DEF n
    <3>2. IsFiniteSet(0 .. Len(input(b)) - 1) /\ IsFiniteSet(0 .. n.size - 1)
      BY <3>1, FS_Interval
    <3> QED
      BY <3>2 DEF Sids
  <2>3. IsFiniteSet((0 .. Len(input(b)) - 1) \X Sids(n))
    BY <2>2, FS_Product
  <2>4. Q \subseteq (0 .. Len(input(b)) - 1) \X Sids(n)
    BY DEF ReportsOf
  <2>5. IsFiniteSet(Q)
    BY <2>3, <2>4, FS_Subset
  <2>6. LateOf(b) = { <<b, r[1] + 1, r[2]>> : r \in Q }
    BY DEF LateOf
  <2> HIDE DEF Q
  <2>7. LateOf(b) = { f[r] : r \in Q } /\ f = [r \in Q |-> f[r]]
    BY <2>6
  <2> HIDE DEF f
  <2> QED
    BY <2>5, <2>7, ImageFinite
<1>2. IsFiniteSet({ LateOf(b) : b \in Block })
  <2> DEFINE f == [b \in Block |-> LateOf(b)]
  <2>1. IsFiniteSet(Block)
    BY GridAssumption, FS_Product DEF Block
  <2>2. { f[b] : b \in Block } = { LateOf(b) : b \in Block } /\ f = [b \in Block |-> f[b]]
    OBVIOUS
  <2> HIDE DEF f
  <2> QED
    BY <2>1, <2>2, ImageFinite
<1>3. IsFiniteSet(UNION { LateOf(b) : b \in Block })
  <2>1. \A T \in { LateOf(b) : b \in Block } : IsFiniteSet(T)
    BY <1>1
  <2> QED
    BY <1>2, <2>1, FS_UNION
<1>4. LateReports = UNION { LateOf(b) : b \in Block }
  BY DEF LateReports, LateOf
<1> QED
  BY <1>3, <1>4

\* All that is made, or would have been where the array is full, is a report made late.
LEMMA MatchesAreLate ==
    ASSUME IInv, Running
    PROVE  /\ matches \subseteq LateReports
           /\ \A b \in Block : PhaseOf(b) = 3 =>
                 \A s \in Activations(b) \cap nfa(b).report : <<b, Pos(b), s>> \in LateReports
<1>1. \A b \in Block : Pos(b) \in Nat /\ Len(input(b)) \in Nat /\ Positions(b)
  BY ThreadFacts, BlockFacts DEF IInv, TypeOK, Pos, BlockInv
<1>2. ASSUME NEW m \in matches PROVE m \in LateReports
  <2>1. m = <<m[1], m[2], m[3]>> /\ m[1] \in Block /\ m[2] \in Nat
    BY DEF IInv, TypeOK, Accounts
  <2> DEFINE b == m[1]
             k == m[2] - 1
  <2>2. <<b, k, m[3]>> \in abs_reports
    <3>1. <<b, k, m[3]>> \in Made
      BY DEF Made
    <3> QED
      BY <3>1, AbsReports
  <2>3. m[2] < Len(input(b))
    <3>1. m[2] < Pos(b) \/ (m[2] = Pos(b) /\ PhaseOf(b) \in {3, 4})
      BY <1>1, <2>1 DEF Positions
    <3>2. PhaseOf(b) \in {3, 4} => Pos(b) < Len(input(b))
      BY <1>1, <2>1 DEF Positions
    <3>3. Pos(b) <= Len(input(b))
      <4>1. PhaseOf(b) \in {0, 1, 2, 3, 4, 5}
        BY DEF PhaseOf, Phase
      <4> QED
        BY <1>1, <2>1, <4>1 DEF Positions
    <3> QED
      BY <1>1, <2>1, <3>1, <3>2, <3>3
  <2>4. k \in Int /\ k + 1 = m[2]
    BY <2>1
  <2>5. <<b, k + 1, m[3]>> \in LateOf(b)
    BY <2>1, <2>2, <2>3, <2>4, LateIs
  <2>6. m \in LateOf(b)
    BY <2>1, <2>4, <2>5
  <2> QED
    BY <2>1, <2>6, LateIs
<1>3. ASSUME NEW b \in Block, NEW s, PhaseOf(b) = 3, s \in Activations(b) \cap nfa(b).report
      PROVE  <<b, Pos(b), s>> \in LateReports
  <2>1. <<b, Pos(b) - 1, s>> \in Waiting(b)
    BY <1>3 DEF Waiting
  <2>2. <<b, Pos(b) - 1, s>> \in abs_reports
    BY <2>1, AbsReports
  <2>3. Pos(b) < Len(input(b)) /\ Pos(b) - 1 \in Int /\ (Pos(b) - 1) + 1 = Pos(b)
    BY <1>1, <1>3 DEF Positions
  <2>4. <<b, Pos(b), s>> \in LateOf(b)
    BY <2>2, <2>3, LateIs
  <2> QED
    BY <2>4, LateIs
<1> QED
  BY <1>2, <1>3

\* When the threads are done all of them have been made.
LEMMA DoneMatches ==
    ASSUME IInv, Running, \A t \in Thread : pc[t] = "done"
    PROVE  matches = LateReports
<1>1. \A b \in Block : Pos(b) = Len(input(b))
  <2> SUFFICES ASSUME NEW b \in Block PROVE Pos(b) = Len(input(b))
    OBVIOUS
  <2>1. PhaseOf(b) = 5
    BY ThreadFacts DEF PhaseOf, Phase
  <2> QED
    BY <2>1 DEF IInv, BlockInv, Positions
<1>2. ASSUME NEW b \in Block, NEW m \in LateOf(b) PROVE m \in matches
  <2>1. /\ m = <<b, m[2], m[3]>> /\ m[2] \in Nat /\ m[2] < Len(input(b))
        /\ <<b, m[2] - 1, m[3]>> \in abs_reports
    BY <1>1, <1>2, LateIs
  <2>2. <<b, m[2] - 1, m[3]>> \notin UNION { Waiting(d) : d \in Block }
    <3> SUFFICES ASSUME NEW d \in Block, <<b, m[2] - 1, m[3]>> \in Waiting(d) PROVE FALSE
      OBVIOUS
    <3>1. b = d /\ m[2] - 1 = Pos(d) - 1
      BY DEF Waiting
    <3>2. Pos(d) \in Nat
      BY ThreadFacts DEF IInv, TypeOK, Pos
    <3> QED
      BY <1>1, <2>1, <3>1, <3>2
  <2>3. PICK q \in matches : <<b, m[2] - 1, m[3]>> = <<q[1], q[2] - 1, q[3]>>
    BY <2>1, <2>2, AbsReports DEF Made
  <2>4. q = <<q[1], q[2], q[3]>> /\ q[2] \in Nat
    BY DEF IInv, TypeOK, Accounts
  <2>5. q[1] = b /\ q[3] = m[3] /\ q[2] = m[2]
    <3>1. q[1] = b /\ q[3] = m[3] /\ q[2] - 1 = m[2] - 1
      BY <2>3
    <3> QED
      BY <2>1, <2>4, <3>1
  <2> QED
    BY <2>1, <2>4, <2>5
<1>3. LateReports \subseteq matches
  BY <1>2, LateIs
<1> QED
  BY <1>3, MatchesAreLate

\* When the engine has printed, it has counted every report but the last symbol's once
\* and its file lists each at the offset after its symbol; it exits only if they do not
\* fit in the match array: for every set of networks and streams, block size, word width
\* and capacity, whatever the interleaving of the threads.
THEOREM ReportsAreLate == Spec => []ReportsLate
<1>1. Init => Running
  <2> SUFFICES ASSUME Init PROVE Running
    OBVIOUS
  <2>1. Sound(job, Block)
    BY NetworksSound DEF Init
  <2> QED
    BY <2>1, AbsBegins, RunBegins DEF Running
<1>2. IInv /\ Running /\ [Next]_vars => Running'
  <2> SUFFICES ASSUME IInv, Running, [Next]_vars PROVE Running'
    OBVIOUS
  <2>1. Sound(job, Block) /\ job' = job
    BY NetworksSound, StepConsumes DEF IInv, TypeOK
  <2>2. CASE position' = position /\ abs_enabled' = abs_enabled /\ abs_reports' = abs_reports
    BY <2>1, <2>2 DEF Running, RunOf, ReportsOfGrid
  <2>3. CASE \E b \in Block : Consumes(job, Block, b, position, abs_enabled, abs_reports,
                                       position', abs_enabled', abs_reports')
    <3>1. RunOf(job, Block, position', abs_enabled', abs_reports')
      BY <2>1, <2>3, RunGoesOn DEF Running
    <3> QED
      BY <2>1, <3>1 DEF Running, RunOf, ReportsOfGrid
  <2> QED
    BY <2>2, <2>3, StepConsumes
<1>3. IInv /\ Running => ReportsLate
  <2> SUFFICES ASSUME IInv, Running PROVE ReportsLate
    OBVIOUS
  <2>1. ASSUME host = "printed"
        PROVE  /\ match_count = Cardinality(LateReports)
               /\ report_file = { <<m[2], job.nfa[m[1][1]].original_id[m[3]]>> : m \in LateReports }
    <3>1. /\ ~trapped /\ \A t \in Thread : pc[t] = "done"
          /\ match_count = Cardinality(matches)
          /\ report_file = { <<m[2], nfa(m[1]).original_id[m[3]]>> : m \in matches }
      BY <2>1 DEF IInv, Accounts
    <3>2. matches = LateReports
      BY <3>1, DoneMatches
    <3>3. \A m \in LateReports : nfa(m[1]).original_id[m[3]] = job.nfa[m[1][1]].original_id[m[3]]
      <4> SUFFICES ASSUME NEW b \in Block, NEW m \in LateOf(b)
                   PROVE  nfa(m[1]).original_id[m[3]] = job.nfa[m[1][1]].original_id[m[3]]
        BY LateIs
      <4>1. m[1] = b /\ m[3] \in Sids(job.nfa[b[1]])
        <5>1. m = <<b, m[2], m[3]>> /\ m[3] \in Sids(job.nfa[b[1]])
          BY LateIs
        <5> QED
          BY <5>1
      <4>2. HasClones(nfa(b), job.nfa[b[1]])
        BY BlockFacts DEF IInv, TypeOK
      <4> QED
        BY <4>1, <4>2 DEF HasClones
    <3>4. { <<m[2], nfa(m[1]).original_id[m[3]]>> : m \in LateReports } =
             { <<m[2], job.nfa[m[1][1]].original_id[m[3]]>> : m \in LateReports }
      BY <3>3
    <3> QED
      BY <3>1, <3>2, <3>4
  <2>2. ASSUME host = "exited" PROVE Cardinality(LateReports) > Capacity
    <3>1. IsFiniteSet(matches) /\ Trap
      BY <2>2 DEF IInv, Accounts
    <3>2. Cardinality(matches) = Capacity
      BY <3>1 DEF Trap
    <3>3. PICK b \in Block : PhaseOf(b) = 3 /\ \E s \in Activations(b) \cap nfa(b).report :
                                                   <<b, Pos(b), s>> \notin matches
      BY <3>1 DEF Trap
    <3>4. PICK s \in Activations(b) \cap nfa(b).report : <<b, Pos(b), s>> \notin matches
      BY <3>3
    <3> DEFINE x == <<b, Pos(b), s>>
    <3>5. matches \cup {x} \subseteq LateReports /\ x \notin matches
      BY <3>3, <3>4, MatchesAreLate
    <3> HIDE DEF x
    <3>6. Cardinality(matches \cup {x}) = Capacity + 1
      BY <3>1, <3>2, <3>5, FS_AddElement
    <3>7. Cardinality(matches \cup {x}) <= Cardinality(LateReports) /\ Cardinality(LateReports) \in Nat
      BY <3>5, LateFinite, FS_Subset, FS_CardinalityType
    <3> QED
      BY <3>6, <3>7, CapacityAssumption
  <2> QED
    BY <2>1, <2>2 DEF ReportsLate
<1> QED
  BY <1>1, <1>2, <1>3, IInvAlways, PTL DEF Spec
=============================================================================
