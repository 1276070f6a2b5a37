----------------------- MODULE CompatibleGroupsProofs -----------------------
(***************************************************************************)
(* The analysis behind the slots of PPoPP12, for every component.  First     *)
(* the incompatible states: the matrix is closed when the queue is empty.    *)
(* Then the groups MyGraph1 makes of any graph: they are independent, and    *)
(* every round keeps its books.  Last, both together: two states that some   *)
(* input activates together are in different groups.                         *)
(*                                                                           *)
(* For independence, what the vector under the range-for loses or keeps      *)
(* does not matter: a set is numbered only after the test it passed last.    *)
(* That no node is lost or kept twice rests on what an erasure leaves in     *)
(* the vector's memory: the elements without the erased one, and old values  *)
(* of nodes that are in the set.                                             *)
(***************************************************************************)
EXTENDS IncompatibleStates, IndependentSets, NetworkProofs, SequenceTheorems

-----------------------------------------------------------------------------
(* The incompatible states.                                                  *)

\* What the proofs need of a component.
LEMMA NetworkFacts ==
    ASSUME NEW n \in Networks
    PROVE  /\ \A s \in Sids(n) : n.edges[s] \subseteq Sids(n)
           /\ n.always \subseteq n.start
           /\ n.start \subseteq Sids(n)
           /\ Sids(n) \subseteq Nat
<1>1. IsNetwork(n, MaxInt, Symbol, Id)
  BY NetworksAssumption
<1>2. Sids(n) \subseteq Nat
  BY DEF Sids
<1> QED
  BY <1>1, <1>2 DEF IsNetwork

\* What a pair brings about is the same for the pair turned round.
LEMMA ConsequencesSymmetric ==
    ASSUME NEW n, NEW a, NEW b
    PROVE  Consequences(n, a, b) = Consequences(n, b, a)
  BY DEF Consequences, CouldActive

\* Two states that a and b may activate by one symbol.
LEMMA TogetherFacts ==
    ASSUME NEW n, NEW a, NEW b, NEW c \in Symbol,
           NEW x \in CouldActive(n, a, b, c), NEW y \in CouldActive(n, a, b, c)
    PROVE  <<x, y>> \in Consequences(n, a, b)
<1>1. <<x, y>> \in CouldActive(n, a, b, c) \X CouldActive(n, a, b, c)
  OBVIOUS
<1> QED
  BY <1>1 DEF Consequences

\* What two states activate together: pairs of states, in both orders.
LEMMA ConsequencesFacts ==
    ASSUME NEW n \in Networks, NEW a \in Sids(n), NEW b \in Sids(n),
           NEW q \in Consequences(n, a, b)
    PROVE  /\ q = <<q[1], q[2]>>
           /\ q \in Sids(n) \X Sids(n)
           /\ <<q[2], q[1]>> \in Consequences(n, a, b)
<1>1. PICK c \in Symbol : q \in CouldActive(n, a, b, c) \X CouldActive(n, a, b, c)
  BY DEF Consequences
<1>2. CouldActive(n, a, b, c) \subseteq Sids(n)
  BY NetworkFacts DEF CouldActive, Reach
<1>3. PICK x \in CouldActive(n, a, b, c), y \in CouldActive(n, a, b, c) : q = <<x, y>>
  BY <1>1
<1>4. <<y, x>> \in Consequences(n, a, b)
  BY TogetherFacts
<1>5. x \in Sids(n) /\ y \in Sids(n)
  BY <1>2
<1> QED
  BY <1>3, <1>4, <1>5

\* The initial pairs, in both orders; each was pushed in one of them or is
\* worked off by another that was.
LEMMA InitInvariant == PairsInit => IInv
<1> SUFFICES ASSUME PairsInit PROVE IInv
  OBVIOUS
<1>1. PairsOK
  BY DEF PairsInit, PairsOK, Initial, Pushed
<1>2. Symmetric
  BY DEF PairsInit, Symmetric, Initial
<1>3. Frontier
  <2> SUFFICES ASSUME NEW p \in Initial(nfa)
               PROVE  p \in Pushed(nfa) \/ <<p[2], p[1]>> \in Pushed(nfa)
    BY DEF PairsInit, Frontier
  <2>1. p = <<p[1], p[2]>> /\ p[1] \in Nat /\ p[2] \in Nat /\ <<p[2], p[1]>> \in Initial(nfa)
    BY NetworkFacts DEF Initial, PairsInit
  <2> QED
    BY <2>1 DEF Pushed, Initial
<1> QED
  BY <1>1, <1>2, <1>3 DEF IInv

\* A turn of the loop adds what its pair brings about in both orders and
\* queues the ascending one.
LEMMA PopFacts ==
    ASSUME IInv, NEW p \in Q,
           nfa' = nfa,
           NEW new, new = { q \in Consequences(nfa, p[1], p[2]) \ incompatible : q[1] < q[2] },
           incompatible' = incompatible \cup new \cup { <<q[2], q[1]>> : q \in new },
           Q' = (Q \ {p}) \cup new
    PROVE  /\ IInv'
<1> DEFINE C == Consequences(nfa, p[1], p[2])
<1>1. nfa \in Networks /\ p \in Sids(nfa) \X Sids(nfa) /\ p \in incompatible
  BY DEF IInv, PairsOK
<1>2. \A q \in C : /\ q = <<q[1], q[2]>> /\ q \in Sids(nfa) \X Sids(nfa) /\ <<q[2], q[1]>> \in C
                   /\ q[1] \in Nat /\ q[2] \in Nat
  <2> SUFFICES ASSUME NEW q \in C
               PROVE  /\ q = <<q[1], q[2]>> /\ q \in Sids(nfa) \X Sids(nfa)
                      /\ <<q[2], q[1]>> \in C /\ q[1] \in Nat /\ q[2] \in Nat
    OBVIOUS
  <2>1. p[1] \in Sids(nfa) /\ p[2] \in Sids(nfa)
    BY <1>1
  <2>2. q = <<q[1], q[2]>> /\ q \in Sids(nfa) \X Sids(nfa) /\ <<q[2], q[1]>> \in C
    BY <1>1, <2>1, ConsequencesFacts
  <2>3. q[1] \in Sids(nfa) /\ q[2] \in Sids(nfa)
    BY <2>2
  <2> QED
    BY <1>1, <2>2, <2>3, NetworkFacts
<1>3. new \subseteq C /\ \A q \in new : <<q[2], q[1]>> \in C
  BY <1>2
<1>4. C \subseteq incompatible'
  <2> SUFFICES ASSUME NEW q \in C, q \notin incompatible PROVE q \in incompatible'
    OBVIOUS
  <2>1. CASE q[1] = q[2]
    BY <1>1, <1>2, <2>1 DEF IInv, Symmetric, Initial
  <2>2. CASE q[1] < q[2]
    BY <2>2
  <2>3. CASE q[2] < q[1]
    <3> DEFINE r == <<q[2], q[1]>>
    <3>1. r \in C /\ r[1] < r[2]
      BY <1>2, <2>3
    <3>2. r \notin incompatible
      BY <1>2 DEF IInv, Symmetric
    <3> QED
      BY <1>2, <3>1, <3>2
  <2>4. q[1] \in Nat /\ q[2] \in Nat
    BY <1>2
  <2>5. q[1] = q[2] \/ q[1] < q[2] \/ q[2] < q[1]
    BY <2>4
  <2> QED
    BY <2>1, <2>2, <2>3, <2>5
<1>5. PairsOK'
  <2>1. \A q \in new : q \in Sids(nfa) \X Sids(nfa) /\ <<q[2], q[1]>> \in Sids(nfa) \X Sids(nfa)
    BY <1>2, <1>3
  <2>2. incompatible' \subseteq Sids(nfa) \X Sids(nfa)
    <3>1. incompatible \subseteq Sids(nfa) \X Sids(nfa)
      BY DEF IInv, PairsOK
    <3>2. new \subseteq Sids(nfa) \X Sids(nfa)
      BY <2>1
    <3>3. { <<q[2], q[1]>> : q \in new } \subseteq Sids(nfa) \X Sids(nfa)
      BY <2>1, Zenon
    <3> QED
      BY <3>1, <3>2, <3>3, Zenon
  <2>3. Q' \subseteq incompatible'
    BY DEF IInv, PairsOK
  <2> QED
    BY <1>1, <2>2, <2>3 DEF PairsOK
<1>6. Symmetric'
  BY <1>2, <1>3 DEF IInv, Symmetric
<1>7. Frontier'
  <2> SUFFICES ASSUME NEW r \in incompatible'
               PROVE  \/ r \in Q'
                      \/ <<r[2], r[1]>> \in Q'
                      \/ Consequences(nfa, r[1], r[2]) \subseteq incompatible'
    BY DEF Frontier
  <2>1. CASE r \in new
    BY <2>1
  <2>2. CASE \E q \in new : r = <<q[2], q[1]>>
    BY <1>2, <1>3, <2>2
  <2>3. CASE r \in incompatible
    <3>1. CASE r = p \/ <<r[2], r[1]>> = p
      BY <1>4, <3>1, ConsequencesSymmetric
    <3>2. CASE r # p /\ <<r[2], r[1]>> # p
      BY <2>3, <3>2 DEF IInv, Frontier
    <3> QED
      BY <3>1, <3>2
  <2> QED
    BY <2>1, <2>2, <2>3
<1> QED
  BY <1>5, <1>6, <1>7 DEF IInv

\* The matrix stays symmetric and every pair of it is queued or worked off
\* (calc_incompatible_states, whatever the order of its queue).
THEOREM Invariance == PairsSpec => []IInv
<1>1. IInv /\ [PairsNext]_pairsVars => IInv'
  <2> SUFFICES ASSUME IInv, [PairsNext]_pairsVars PROVE IInv'
    OBVIOUS
  <2>1. CASE Pop
    BY <2>1, PopFacts DEF Pop
  <2>2. CASE UNCHANGED pairsVars
    BY <2>2 DEF pairsVars, IInv, PairsOK, Symmetric, Frontier
  <2> QED
    BY <2>1, <2>2 DEF PairsNext, PairsEnded
<1> QED
  BY InitInvariant, <1>1, PTL DEF PairsSpec

\* When the queue is empty the matrix has the initial pairs and is closed under
\* what two states activate together, which is what ppopp12_kernel relies on.
THEOREM ClosedWhenDone == PairsSpec => []Closed
<1>1. IInv => Closed
  <2> SUFFICES ASSUME IInv, Done PROVE ClosedUnder(nfa, incompatible)
    BY DEF Closed
  <2> QED
    BY DEF IInv, Symmetric, Frontier, ClosedUnder, Done
<1> QED
  BY Invariance, <1>1, PTL

-----------------------------------------------------------------------------
\* The states the engine makes active from pairwise incompatible ones are
\* pairwise incompatible again: the step of the induction that carries the
\* closure along an input of any length.
THEOREM ActivateTogether ==
    ASSUME NEW n \in Networks, NEW R, ClosedUnder(n, R),
           NEW A \in SUBSET Sids(n), A \X A \subseteq R,
           NEW c \in Symbol
    PROVE  Activate(n, A, c) \X Activate(n, A, c) \subseteq R
<1> DEFINE Moved == Activated(n, Successors(n, A), c)
<1>1. /\ n.always \subseteq n.start
      /\ \A a \in Sids(n) : n.edges[a] \subseteq Sids(n)
  BY NetworkFacts
<1>2. \A s \in Moved : s \in Sids(n) /\ match2(n, s, c) /\ \E a \in A : s \in n.edges[a]
  <2> SUFFICES ASSUME NEW s \in Moved
               PROVE  s \in Sids(n) /\ match2(n, s, c) /\ \E a \in A : s \in n.edges[a]
    OBVIOUS
  <2>1. s \in Successors(n, A) /\ match2(n, s, c)
    BY DEF Activated
  <2>2. PICK a \in A : s \in n.edges[a]
    BY <2>1 DEF Successors
  <2> QED
    BY <1>1, <2>1, <2>2
<1>3. ASSUME NEW s \in Moved, NEW u \in Moved PROVE <<s, u>> \in R
  <2>1. PICK a \in A, b \in A : s \in n.edges[a] /\ u \in n.edges[b]
    BY <1>2, <1>3
  <2>2. s \in CouldActive(n, a, b, c) /\ u \in CouldActive(n, a, b, c)
    BY <1>2, <1>3, <2>1 DEF CouldActive, Reach
  <2>3. <<s, u>> \in Consequences(n, a, b)
    BY <2>2, TogetherFacts
  <2>4. <<a, b>> \in R
    BY <2>1
  <2>5. Consequences(n, a, b) \subseteq R
    BY <2>4 DEF ClosedUnder
  <2> QED
    BY <2>3, <2>5
<1>4. ASSUME NEW s \in Sids(n), NEW u \in Sids(n), s \in n.start \/ u \in n.start
      PROVE  <<s, u>> \in R
  BY <1>4 DEF ClosedUnder, Initial
<1>5. Activate(n, A, c) = Moved \cup (A \cap n.always)
  BY DEF Activate
<1> QED
  <2> SUFFICES ASSUME NEW s \in Activate(n, A, c), NEW u \in Activate(n, A, c)
               PROVE  <<s, u>> \in R
    OBVIOUS
  <2>1. s \in Sids(n) /\ u \in Sids(n)
    BY <1>2, <1>5
  <2>2. CASE s \in Moved /\ u \in Moved
    BY <1>3, <2>2
  <2>3. CASE s \in n.always \/ u \in n.always
    BY <1>1, <1>4, <2>1, <2>3
  <2> QED
    BY <1>5, <2>2, <2>3
-----------------------------------------------------------------------------
(* Along an input of any length.                                             *)

\* What ActiveAt is to be on the first m symbols.
ActiveUpTo(n, input, f, m) ==
    f = [k \in 0 .. m |-> IF k = 0 THEN n.start ELSE Activate(n, f[k - 1], input[k])]

\* There is such a function for every m.
LEMMA ActiveExists ==
    ASSUME NEW n, NEW input, NEW m \in Nat
    PROVE  \E f : ActiveUpTo(n, input, f, m)
<1> DEFINE T == { k \in Nat : \E f : ActiveUpTo(n, input, f, k) }
<1>1. 0 \in T
  <2>1. ActiveUpTo(n, input, [k \in 0 .. 0 |-> n.start], 0)
    BY DEF ActiveUpTo
  <2> QED
    BY <2>1
<1>2. ASSUME NEW k \in Nat, k \in T PROVE k + 1 \in T
  <2>1. PICK f : ActiveUpTo(n, input, f, k)
    BY <1>2
  <2> DEFINE g == [i \in 0 .. k + 1 |-> IF i = k + 1 THEN Activate(n, f[k], input[k + 1])
                                                   ELSE f[i]]
  <2>2. ActiveUpTo(n, input, g, k + 1)
    BY <2>1 DEF ActiveUpTo
  <2>3. \E h : ActiveUpTo(n, input, h, k + 1)
    <3> HIDE DEF g
    <3> QED
      BY <2>2
  <2> QED
    BY <2>3
<1>3. Nat \subseteq T
  <2> HIDE DEF T
  <2> QED
    BY <1>1, <1>2, Induction
<1> QED
  BY <1>3

\* ActiveAt is what its definition says.
LEMMA ActiveEquation ==
    ASSUME NEW n, NEW input, Len(input) \in Nat
    PROVE  /\ ActiveAt(n, input)[0] = n.start
           /\ \A k \in 1 .. Len(input) :
                 ActiveAt(n, input)[k] = Activate(n, ActiveAt(n, input)[k - 1], input[k])
<1> DEFINE Equation(f) ==
              f = [k \in 0 .. Len(input) |-> IF k = 0 THEN n.start
                                                     ELSE Activate(n, f[k - 1], input[k])]
<1>1. \E f : Equation(f)
  <2>1. PICK f : ActiveUpTo(n, input, f, Len(input))
    BY ActiveExists
  <2>2. Equation(f)
    BY <2>1 DEF ActiveUpTo
  <2> HIDE DEF Equation
  <2> QED
    BY <2>2
<1>2. Equation(ActiveAt(n, input))
  BY <1>1 DEF ActiveAt
<1> QED
  BY <1>2

\* Two states that an input of any length makes active together are a pair of
\* every closed matrix.
THEOREM ActiveTogether ==
    ASSUME NEW n \in Networks, NEW R, ClosedUnder(n, R), NEW input \in Seq(Symbol),
           NEW k \in 0 .. Len(input)
    PROVE  LET A == ActiveAt(n, input)[k] IN A \X A \subseteq R
<1> DEFINE active == ActiveAt(n, input)
           T == { i \in Nat : i <= Len(input) =>
                               /\ active[i] \subseteq Sids(n)
                               /\ active[i] \X active[i] \subseteq R }
<1>0. Len(input) \in Nat
  OBVIOUS
<1>1. 0 \in T
  <2>1. active[0] = n.start /\ n.start \subseteq Sids(n)
    BY <1>0, ActiveEquation, NetworkFacts
  <2>2. n.start \X n.start \subseteq R
    BY <2>1 DEF ClosedUnder, Initial
  <2> QED
    BY <2>1, <2>2
<1>2. ASSUME NEW i \in Nat, i \in T PROVE i + 1 \in T
  <2> SUFFICES ASSUME i + 1 <= Len(input)
               PROVE  active[i + 1] \subseteq Sids(n) /\ active[i + 1] \X active[i + 1] \subseteq R
    OBVIOUS
  <2>1. active[i + 1] = Activate(n, active[i], input[i + 1]) /\ input[i + 1] \in Symbol
    BY <1>0, ActiveEquation
  <2>2. active[i] \in SUBSET Sids(n) /\ active[i] \X active[i] \subseteq R
    BY <1>0, <1>2
  <2> HIDE DEF active
  <2>3. Activate(n, active[i], input[i + 1]) \subseteq Sids(n)
    BY <2>2, NetworkFacts DEF Activate, Activated, Successors
  <2> QED
    BY <2>1, <2>2, <2>3, ActivateTogether
<1>3. Nat \subseteq T
  <2> HIDE DEF T
  <2> QED
    BY <1>1, <1>2, Induction
<1>4. k \in Nat /\ k <= Len(input)
  BY <1>0
<1> QED
  BY <1>3, <1>4

\* When the analysis has ended the matrix has every pair of states that some
\* input makes active together (compatible_group_helper.cpp): no component and
\* no input misses one.
THEOREM TogetherAreIncompatible == PairsSpec => []TogetherIncompatible
<1>1. IInv /\ Closed => TogetherIncompatible
  <2> SUFFICES ASSUME IInv, Closed, Done, NEW input \in Streams, NEW k \in 0 .. Len(input)
               PROVE  LET A == ActiveAt(nfa, input)[k] IN A \X A \subseteq incompatible
    BY DEF TogetherIncompatible
  <2>1. PICK m \in 0 .. InputBound : input \in [1 .. m -> Symbol]
    BY DEF Streams
  <2>2. input \in Seq(Symbol)
    BY <2>1 DEF InputBound
  <2>3. nfa \in Networks /\ ClosedUnder(nfa, incompatible)
    BY DEF IInv, PairsOK, Closed
  <2> QED
    BY <2>2, <2>3, ActiveTogether
<1> QED
  BY Invariance, ClosedWhenDone, <1>1, PTL

-----------------------------------------------------------------------------
(* The compatible groups.                                                    *)

\* The set that is put back together is independent, the numbers given are
\* below the next one, and sets are independent.
GInv ==
    /\ pc = "readd" => Independent(node_list)
    /\ n_set \in Nat
    /\ \A v \in DOMAIN number : number[v] \in 0 .. n_set - 1
    /\ GroupsIndependent

\* Adjacency is the matrix's, which does not change.
LEMMA SameGraph ==
    ASSUME graph' = graph, NEW S
    PROVE  Independent(S)' = Independent(S) /\ \A u, v : Adjacent(u, v)' = Adjacent(u, v)
  BY DEF Independent, Adjacent

\* A set that loses a node stays independent.
LEMMA IndependentSubset ==
    ASSUME NEW S, NEW R \in SUBSET S, Independent(S)
    PROVE  Independent(R)
  BY DEF Independent

\* Giving an independent set the next number keeps the sets independent.
LEMMA NumberingKeeps ==
    ASSUME GInv, NEW S, Independent(S), graph' = graph, number' = Numbered(S)
    PROVE  /\ GroupsIndependent'
           /\ \A v \in DOMAIN number' : number'[v] \in 0 .. n_set
           /\ S = {} => \A v \in DOMAIN number' : number'[v] \in 0 .. n_set - 1
<1>1. /\ DOMAIN number' = DOMAIN number \cup S
      /\ \A v \in S : number'[v] = n_set
      /\ \A v \in DOMAIN number \ S : number'[v] = number[v] /\ number[v] \in 0 .. n_set - 1
  BY DEF GInv, Numbered
<1>2. n_set \in Nat
  BY DEF GInv
<1>3. ASSUME NEW u \in DOMAIN number', NEW v \in DOMAIN number', number'[u] = number'[v]
      PROVE  ~Adjacent(u, v)
  <2>1. CASE u \in S /\ v \in S
    BY <2>1 DEF Independent
  <2>2. CASE u \notin S /\ v \notin S
    BY <1>1, <1>3, <2>2 DEF GInv, GroupsIndependent
  <2>3. ~(u \in S /\ v \notin S) /\ ~(u \notin S /\ v \in S)
    BY <1>1, <1>2, <1>3
  <2> QED
    BY <2>1, <2>2, <2>3
<1>4. GroupsIndependent'
  BY <1>3, SameGraph DEF GroupsIndependent
<1>5. \A v \in DOMAIN number' : number'[v] \in 0 .. n_set
  BY <1>1, <1>2
<1>6. S = {} => \A v \in DOMAIN number' : number'[v] \in 0 .. n_set - 1
  BY <1>1
<1> QED
  BY <1>4, <1>5, <1>6

\* GInv holds in every reachable state of the loop.
LEMMA GroupsInvariant == Spec => []GInv
<1>1. Init => GInv
  BY DEF Init, GInv, GroupsIndependent
<1>2. GInv /\ [Next]_vars => GInv'
  <2> SUFFICES ASSUME GInv, [Next]_vars PROVE GInv'
    OBVIOUS
  <2>1. ASSUME UNCHANGED <<graph, number, n_set>>
        PROVE  /\ n_set' \in Nat /\ GroupsIndependent'
               /\ \A v \in DOMAIN number' : number'[v] \in 0 .. n_set' - 1
    BY <2>1, SameGraph DEF GInv, GroupsIndependent
  <2>2. CASE Check
    <3>1. CASE Independent(node_list)
      <4>1. /\ number' = Numbered(node_list) /\ graph' = graph /\ pc' = "done"
            /\ n_set' = IF node_list = {} THEN n_set ELSE n_set + 1
        BY <2>2, <3>1 DEF Check
      <4> QED
        BY <3>1, <4>1, NumberingKeeps DEF GInv
    <3>2. CASE ~Independent(node_list)
      BY <2>1, <2>2, <3>2 DEF Check, GInv
    <3> QED
      BY <3>1, <3>2
  <2>3. CASE PickEdge
    <3>1. UNCHANGED <<graph, number, n_set>>
      BY <2>3 DEF PickEdge
    <3>2. pc' = "readd" => Independent(node_list')
      BY <2>3 DEF PickEdge
    <3>3. Independent(node_list)' = Independent(node_list')
      BY <3>1 DEF Independent, Adjacent
    <3> QED
      BY <2>1, <3>1, <3>2, <3>3 DEF GInv
  <2>4. CASE Readd
    <3>1. UNCHANGED <<graph, number, n_set>> /\ Independent(node_list)
      BY <2>4 DEF Readd, GInv
    <3>2. Independent(node_list')
      <4> DEFINE x == memory[position]
      <4>1. CASE Independent(node_list \cup {x})
        BY <2>4, <4>1 DEF Readd
      <4>2. CASE ~Independent(node_list \cup {x})
        BY <2>4, <3>1, <4>2, IndependentSubset DEF Readd
      <4> QED
        BY <4>1, <4>2
    <3>3. Independent(node_list)' = Independent(node_list')
      BY <3>1 DEF Independent, Adjacent
    <3> QED
      BY <2>1, <3>1, <3>2, <3>3 DEF GInv
  <2>5. CASE EndRound
    <3>1. /\ pc = "readd" /\ pc' = "check" /\ graph' = graph
          /\ number' = Numbered(node_list) /\ n_set' = n_set + 1
      BY <2>5 DEF EndRound
    <3>2. Independent(node_list)
      BY <3>1 DEF GInv
    <3> QED
      BY <3>1, <3>2, NumberingKeeps DEF GInv
  <2>6. CASE UNCHANGED vars
    BY <2>1, <2>6 DEF vars, GInv, Independent, Adjacent
  <2> QED
    BY <2>2, <2>3, <2>4, <2>5, <2>6 DEF Next, Work, Terminated
<1> QED
  BY <1>1, <1>2, PTL DEF Spec

\* Two states of one compatible group are compatible, whatever the order
\* independent_set_iteration drops and puts back states in.
THEOREM GroupsAreIndependent == Spec => []GroupsIndependent
<1>1. GInv => GroupsIndependent
  BY DEF GInv
<1> QED
  BY GroupsInvariant, <1>1, PTL

-----------------------------------------------------------------------------
(* What every round keeps.                                                  *)

\* What the vector's memory holds in the rounds: the nodes of removed_nodes are
\* different, what an erasure leaves behind the end is in the set again, and a
\* round that puts nodes back has a node by its second turn.
Vector ==
    /\ \A i, k \in 1 .. size : memory[i] = memory[k] => i = k
    /\ pc \in {"pick", "readd"} => \A i \in DOMAIN memory : memory[i] \in node_list \cup Removed
    /\ pc = "readd" => Len(memory) >= 2 /\ (position > 1 => node_list # {})
    /\ pc = "check" => Removed \subseteq node_list
    /\ pc = "pick" => size = Len(memory)

\* The degrees are those in the rest of the graph already when a round begins,
\* and nodes are only dropped while an edge is left.
Degrees ==
    /\ pc \in {"check", "pick"} =>
          \A v \in node_list : degree[v] = Cardinality({ u \in node_list : Adjacent(u, v) })
    /\ pc = "pick" => ~Independent(node_list)

\* The inductive invariant of the rounds.
RInv ==
    /\ TypeOK /\ Partition /\ NumbersDense
    /\ Vector /\ Degrees
    /\ pc = "readd" => Independent(node_list)

\* The nodes are the same in every state.
LEMMA SameNodes == graph' = graph => Nodes' = Nodes
  BY DEF Nodes

\* Nodes are numbers, and finitely many.
LEMMA NodeFacts ==
    ASSUME TypeOK
    PROVE  /\ graph.V \in Nat /\ Nodes \subseteq Nat /\ IsFiniteSet(Nodes)
           /\ \A S \in SUBSET Nodes : IsFiniteSet(S) /\ Cardinality(S) \in 0 .. graph.V
<1>1. graph.V \in Nat
  BY GraphsAssumption DEF TypeOK
<1>2. IsFiniteSet(Nodes) /\ Cardinality(Nodes) = graph.V
  <2>1. 0 \in Int /\ graph.V - 1 \in Int
    BY <1>1
  <2>2. /\ IsFiniteSet(0 .. graph.V - 1)
        /\ Cardinality(0 .. graph.V - 1) = IF 0 > graph.V - 1 THEN 0 ELSE (graph.V - 1) - 0 + 1
    BY <2>1, FS_Interval
  <2>3. (IF 0 > graph.V - 1 THEN 0 ELSE (graph.V - 1) - 0 + 1) = graph.V
    BY <1>1
  <2> QED
    BY <2>2, <2>3 DEF Nodes
<1>3. ASSUME NEW S \in SUBSET Nodes
      PROVE  IsFiniteSet(S) /\ Cardinality(S) \in 0 .. graph.V
  <2>1. IsFiniteSet(S) /\ Cardinality(S) <= graph.V
    BY <1>2, FS_Subset
  <2>2. Cardinality(S) \in Nat
    BY <2>1, FS_CardinalityType
  <2> QED
    BY <1>1, <2>1, <2>2
<1> QED
  BY <1>1, <1>2, <1>3 DEF Nodes

\* The neighbours of a node in a set, without a node x.
LEMMA OneNeighbourLess ==
    ASSUME TypeOK, NEW S \in SUBSET Nodes, NEW x \in S, NEW v
    PROVE  Cardinality({ u \in S \ {x} : Adjacent(u, v) })
              = Cardinality({ u \in S : Adjacent(u, v) }) - (IF Adjacent(x, v) THEN 1 ELSE 0)
<1> DEFINE N == { u \in S : Adjacent(u, v) }
<1>1. IsFiniteSet(N) /\ Cardinality(N) \in Nat
  BY NodeFacts
<1>2. { u \in S \ {x} : Adjacent(u, v) } = N \ {x}
  OBVIOUS
<1>3. x \in N <=> Adjacent(x, v)
  OBVIOUS
<1> HIDE DEF N
<1>4. Cardinality(N \ {x}) = IF x \in N THEN Cardinality(N) - 1 ELSE Cardinality(N)
  BY <1>1, FS_RemoveElement
<1> QED
  BY <1>1, <1>2, <1>3, <1>4 DEF N

\* The pair pick_edge takes: two nodes of the round, the first the smaller.
LEMMA PickedFacts ==
    ASSUME RInv, pc = "pick"
    PROVE  Picked \in node_list \X node_list /\ Picked[1] < Picked[2]
<1> DEFINE pairs == { e \in node_list \X node_list : e[1] < e[2] }
           best  == { e \in pairs : \A f \in pairs : Sum(f) <= Sum(e) }
<1>1. node_list \subseteq Nat /\ graph.V \in Nat
  BY NodeFacts DEF RInv, TypeOK
<1>2. pairs # {}
  <2>1. PICK u \in node_list, v \in node_list : Adjacent(u, v)
    BY DEF RInv, Degrees, Independent
  <2>2. u # v
    BY <2>1 DEF Adjacent
  <2>3. <<u, v>> \in pairs \/ <<v, u>> \in pairs
    BY <1>1, <2>2
  <2> QED
    BY <2>3
<1>3. \A v \in node_list : degree[v] \in 0 .. graph.V
  <2> SUFFICES ASSUME NEW v \in node_list
               PROVE  degree[v] \in 0 .. graph.V
    OBVIOUS
  <2>1. degree[v] = Cardinality({ u \in node_list : Adjacent(u, v) })
    BY DEF RInv, Degrees
  <2>2. { u \in node_list : Adjacent(u, v) } \in SUBSET Nodes
    BY DEF RInv, TypeOK
  <2> QED
    BY <2>1, <2>2, NodeFacts DEF RInv
<1>4. \A e \in pairs : Sum(e) \in 0 .. 2 * graph.V
  <2> SUFFICES ASSUME NEW e \in pairs
               PROVE  Sum(e) \in 0 .. 2 * graph.V
    OBVIOUS
  <2>1. degree[e[1]] \in 0 .. graph.V /\ degree[e[2]] \in 0 .. graph.V
    BY <1>3
  <2>2. Sum(e) = degree[e[1]] + degree[e[2]]
    BY DEF Sum
  <2> QED
    BY <1>1, <2>1, <2>2
<1>5. \E e \in pairs : \A f \in pairs : Sum(f) <= Sum(e)
  <2> DEFINE sums == { Sum(e) : e \in pairs }
  <2>1. sums \subseteq Nat /\ sums # {} /\ \A k \in sums : k <= 2 * graph.V
    BY <1>1, <1>2, <1>4
  <2>2. 2 * graph.V \in Nat
    BY <1>1
  <2>3. PICK m \in sums : \A k \in sums : k <= m
    <3> HIDE DEF sums
    <3> QED
      BY <2>1, <2>2, Greatest
  <2> QED
    BY <2>3
<1>6. best # {} /\ best \subseteq pairs
  BY <1>5
<1>7. \E e \in best : \A f \in best : e[1] < f[1] \/ (e[1] = f[1] /\ e[2] <= f[2])
  <2> DEFINE firsts == { e[1] : e \in best }
  <2>1. firsts \subseteq Nat /\ firsts # {}
    BY <1>1, <1>6
  <2>2. PICK a \in firsts : \A k \in firsts : a <= k
    <3> HIDE DEF firsts
    <3> QED
      BY <2>1, Least
  <2> DEFINE seconds == { e[2] : e \in { f \in best : f[1] = a } }
  <2>3. seconds \subseteq Nat /\ seconds # {}
    <3>1. \A f \in best : f[2] \in Nat
      BY <1>1, <1>6
    <3>2. PICK f \in best : f[1] = a
      BY <2>2
    <3> HIDE DEF best, firsts
    <3>3. f[2] \in seconds
      BY <3>2
    <3> QED
      BY <3>1, <3>3
  <2>4. PICK b \in seconds : \A k \in seconds : b <= k
    <3> HIDE DEF seconds
    <3> QED
      BY <2>3, Least
  <2>5. PICK e \in best : e[1] = a /\ e[2] = b
    BY <2>4
  <2>6. ASSUME NEW f \in best
        PROVE  e[1] < f[1] \/ (e[1] = f[1] /\ e[2] <= f[2])
    <3>1. f[1] \in firsts /\ f[1] \in Nat /\ a \in Nat
      BY <1>1, <1>6, <2>1
    <3>2. a < f[1] \/ a = f[1]
      BY <2>2, <3>1
    <3>3. a = f[1] => f[2] \in seconds
      OBVIOUS
    <3> QED
      BY <2>4, <2>5, <3>2, <3>3
  <2> QED
    BY <2>6
<1>8. Picked \in best
  BY <1>7 DEF Picked
<1> QED
  BY <1>6, <1>8

\* The first state of a run has the invariant.
LEMMA RoundsBegin == ASSUME Init PROVE RInv
<1>1. graph \in Graphs /\ pc = "check" /\ node_list = Nodes /\ memory = <<>> /\ size = 0
      /\ position = 1 /\ number = <<>> /\ n_set = 0
  BY DEF Init
<1>2. \A v \in Nodes : degree[v] = Cardinality({ u \in Nodes : Adjacent(u, v) })
  BY DEF Init
<1>3. \A v \in Nodes : Cardinality({ u \in Nodes : Adjacent(u, v) }) \in Nat
  <2> SUFFICES ASSUME NEW v \in Nodes
               PROVE  Cardinality({ u \in Nodes : Adjacent(u, v) }) \in Nat
    OBVIOUS
  <2>1. IsFiniteSet(Nodes)
    BY <1>1, GraphsAssumption, FS_Interval DEF Nodes
  <2>2. IsFiniteSet({ u \in Nodes : Adjacent(u, v) })
    BY <2>1, FS_Subset
  <2> QED
    BY <2>2, FS_CardinalityType
<1>4. degree \in [Nodes -> Int]
  BY <1>3 DEF Init
<1>5. DOMAIN number = {} /\ Removed = {} /\ DOMAIN memory = {} /\ Len(memory) = 0
      /\ memory \in Seq(Nodes)
  BY <1>1 DEF Removed
<1>6. TypeOK
  BY <1>1, <1>4, <1>5 DEF TypeOK
<1>7. Partition /\ NumbersDense
  BY <1>1, <1>5 DEF Partition, NumbersDense
<1>8. Vector
  BY <1>1, <1>5 DEF Vector
<1>9. Degrees
  BY <1>1, <1>2 DEF Degrees
<1> QED
  BY <1>1, <1>6, <1>7, <1>8, <1>9 DEF RInv

\* Giving a set of nodes the next number.
LEMMA NumberedFacts ==
    ASSUME RInv, NEW S \in SUBSET Nodes, S \cap DOMAIN number = {}
    PROVE  /\ DOMAIN Numbered(S) = DOMAIN number \cup S
           /\ DOMAIN Numbered(S) \subseteq Nodes
           /\ \A v \in DOMAIN Numbered(S) : Numbered(S)[v] \in 0 .. n_set
           /\ S = {} => \A v \in DOMAIN Numbered(S) : Numbered(S)[v] \in 0 .. n_set - 1
           /\ \A k \in 0 .. n_set - 1 : \E v \in DOMAIN Numbered(S) : Numbered(S)[v] = k
           /\ S # {} => \A k \in 0 .. n_set : \E v \in DOMAIN Numbered(S) : Numbered(S)[v] = k
<1>1. /\ n_set \in Nat /\ DOMAIN number \subseteq Nodes
      /\ \A v \in DOMAIN number : number[v] \in 0 .. n_set - 1
      /\ \A k \in 0 .. n_set - 1 : \E v \in DOMAIN number : number[v] = k
  BY DEF RInv, TypeOK, NumbersDense
<1>2. /\ DOMAIN Numbered(S) = DOMAIN number \cup S
      /\ \A v \in S : Numbered(S)[v] = n_set
      /\ \A v \in DOMAIN number : Numbered(S)[v] = number[v]
  BY DEF Numbered
<1>3. /\ \A v \in DOMAIN Numbered(S) : Numbered(S)[v] \in 0 .. n_set
      /\ S = {} => \A v \in DOMAIN Numbered(S) : Numbered(S)[v] \in 0 .. n_set - 1
  BY <1>1, <1>2
<1>4. \A k \in 0 .. n_set - 1 : \E v \in DOMAIN Numbered(S) : Numbered(S)[v] = k
  <2> SUFFICES ASSUME NEW k \in 0 .. n_set - 1
               PROVE  \E v \in DOMAIN Numbered(S) : Numbered(S)[v] = k
    OBVIOUS
  <2>1. PICK v \in DOMAIN number : number[v] = k
    BY <1>1
  <2> QED
    BY <1>2, <2>1
<1>5. ASSUME S # {}, NEW k \in 0 .. n_set
      PROVE  \E v \in DOMAIN Numbered(S) : Numbered(S)[v] = k
  <2>1. CASE k = n_set
    BY <1>2, <1>5, <2>1
  <2>2. CASE k \in 0 .. n_set - 1
    BY <1>4, <2>2
  <2> QED
    BY <1>1, <2>1, <2>2
<1> QED
  BY <1>1, <1>2, <1>3, <1>4, <1>5

\* A round begins, or the last set is numbered.
LEMMA CheckKeeps == ASSUME RInv, Check PROVE RInv'
<1>1. /\ pc = "check" /\ memory' = <<>> /\ size' = 0
      /\ UNCHANGED <<graph, node_list, degree, position>>
  BY DEF Check
<1>2. /\ node_list \subseteq Nodes /\ node_list \cap DOMAIN number = {}
      /\ node_list \cup DOMAIN number = Nodes
  BY <1>1 DEF RInv, TypeOK, Partition, Vector
<1>3. Nodes' = Nodes
  BY <1>1, SameNodes
<1>4. DOMAIN memory' = {} /\ Len(memory') = 0 /\ memory' \in Seq(Nodes) /\ Removed' = {}
  BY <1>1 DEF Removed
<1>5. CASE Independent(node_list)
  <2>1. /\ pc' = "done" /\ number' = Numbered(node_list)
        /\ n_set' = IF node_list = {} THEN n_set ELSE n_set + 1
    BY <1>5 DEF Check
  <2>2. n_set \in Nat
    BY DEF RInv, TypeOK
  <2>3. \A v \in DOMAIN number' : number'[v] \in 0 .. n_set' - 1
    BY <1>2, <2>1, <2>2, NumberedFacts
  <2>4. DOMAIN number' = Nodes
    BY <1>2, <2>1, NumberedFacts
  <2>5. TypeOK'
    BY <1>1, <1>3, <1>4, <2>1, <2>2, <2>3, <2>4 DEF RInv, TypeOK
  <2>6. NumbersDense'
    <3>1. CASE node_list = {}
      <4>1. n_set' = n_set
        BY <2>1, <3>1
      <4>2. \A k \in 0 .. n_set - 1 : \E v \in DOMAIN number' : number'[v] = k
        BY <1>2, <2>1, NumberedFacts
      <4> QED
        BY <4>1, <4>2 DEF NumbersDense
    <3>2. CASE node_list # {}
      <4>1. n_set' - 1 = n_set
        BY <2>1, <2>2, <3>2
      <4>2. \A k \in 0 .. n_set : \E v \in DOMAIN number' : number'[v] = k
        BY <1>2, <2>1, <3>2, NumberedFacts
      <4> QED
        BY <4>1, <4>2 DEF NumbersDense
    <3> QED
      BY <3>1, <3>2
  <2>7. Partition' /\ Vector' /\ Degrees'
    BY <1>1, <1>3, <2>1, <2>4 DEF Partition, Vector, Degrees
  <2> QED
    BY <2>1, <2>5, <2>6, <2>7 DEF RInv
<1>6. CASE ~Independent(node_list)
  <2>1. pc' = "pick" /\ number' = number /\ n_set' = n_set
    BY <1>6 DEF Check
  <2>2. TypeOK'
    BY <1>1, <1>3, <1>4, <2>1 DEF RInv, TypeOK
  <2>3. Partition' /\ NumbersDense'
    BY <1>1, <1>2, <1>3, <1>4, <2>1 DEF RInv, Partition, NumbersDense
  <2>4. Vector'
    BY <1>1, <1>4, <2>1 DEF Vector
  <2>5. Degrees'
    BY <1>1, <1>6, <2>1, SameGraph DEF RInv, Degrees
  <2> QED
    BY <2>1, <2>2, <2>3, <2>4, <2>5 DEF RInv
<1> QED
  BY <1>5, <1>6

\* The degrees in what is left without a and b.
LEMMA DecrementedExact ==
    ASSUME TypeOK, NEW a \in node_list, NEW b \in node_list, a # b,
           NEW v \in node_list \ {a, b},
           degree[v] = Cardinality({ u \in node_list : Adjacent(u, v) })
    PROVE  Decremented(a, b)[v] = Cardinality({ u \in node_list \ {a, b} : Adjacent(u, v) })
<1> DEFINE once == [[w \in Nodes |-> IF w \in node_list /\ Adjacent(a, w)
                                     THEN degree[w] - 1 ELSE degree[w]] EXCEPT ![a] = 0]
           A == node_list \ {a}
<1>1. node_list \in SUBSET Nodes /\ v \in Nodes /\ degree[v] \in Int
  BY DEF TypeOK
<1>2. once[v] = degree[v] - (IF Adjacent(a, v) THEN 1 ELSE 0)
  BY <1>1
<1>3. Decremented(a, b)[v] = once[v] - (IF Adjacent(b, v) THEN 1 ELSE 0)
  <2>1. once[v] \in Int
    BY <1>1, <1>2
  <2>2. Decremented(a, b)[v] = IF v \in node_list /\ Adjacent(b, v) THEN once[v] - 1 ELSE once[v]
    BY <1>1 DEF Decremented
  <2> HIDE DEF once
  <2> QED
    BY <2>1, <2>2
<1> HIDE DEF once
<1>4. Cardinality({ u \in A : Adjacent(u, v) }) = once[v]
  BY <1>1, <1>2, OneNeighbourLess
<1>5. A \in SUBSET Nodes /\ b \in A /\ node_list \ {a, b} = A \ {b}
  BY <1>1
<1> HIDE DEF A
<1>6. Cardinality({ u \in A \ {b} : Adjacent(u, v) })
        = Cardinality({ u \in A : Adjacent(u, v) }) - (IF Adjacent(b, v) THEN 1 ELSE 0)
  BY <1>5, OneNeighbourLess
<1> QED
  BY <1>3, <1>4, <1>5, <1>6

\* What the vector holds after two push_backs.
LEMMA TwoPushed ==
    ASSUME TypeOK, size = Len(memory), NEW a \in Nodes, NEW b \in Nodes
    PROVE  /\ memory \o <<a, b>> \in Seq(Nodes)
           /\ Len(memory \o <<a, b>>) = size + 2
           /\ \A i \in 1 .. size : (memory \o <<a, b>>)[i] = memory[i]
           /\ (memory \o <<a, b>>)[size + 1] = a
           /\ (memory \o <<a, b>>)[size + 2] = b
<1>1. memory \in Seq(Nodes) /\ <<a, b>> \in Seq(Nodes) /\ Len(<<a, b>>) = 2
  BY DEF TypeOK
<1> QED
  BY <1>1, ConcatProperties

\* Two nodes are dropped.
LEMMA PickKeeps == ASSUME RInv, PickEdge PROVE RInv'
<1> DEFINE a == Picked[1]
           b == Picked[2]
           rest == node_list \ {a, b}
<1>1. /\ pc = "pick" /\ memory' = memory \o <<a, b>> /\ size' = size + 2
      /\ degree' = Decremented(a, b) /\ node_list' = rest /\ position' = 1
      /\ pc' = IF Independent(rest) THEN "readd" ELSE "pick"
      /\ UNCHANGED <<graph, number, n_set>>
  BY DEF PickEdge
<1>2. a \in node_list /\ b \in node_list /\ a # b /\ node_list \subseteq Nodes
      /\ node_list \subseteq Nat
  <2>1. node_list \subseteq Nodes /\ Nodes \subseteq Nat
    BY NodeFacts DEF RInv, TypeOK
  <2>2. Picked \in node_list \X node_list /\ Picked[1] < Picked[2]
    BY <1>1, PickedFacts
  <2>3. a \in node_list /\ b \in node_list /\ a < b
    BY <2>2
  <2> HIDE DEF a, b
  <2>4. a \in Nat /\ b \in Nat
    BY <2>1, <2>3
  <2>5. a # b
    BY <2>3, <2>4
  <2> QED
    BY <2>1, <2>3, <2>5
<1> HIDE DEF a, b, rest
<1>3. /\ memory' \in Seq(Nodes) /\ Len(memory') = size + 2 /\ DOMAIN memory' = 1 .. size + 2
      /\ \A i \in 1 .. size : memory'[i] = memory[i]
      /\ memory'[size + 1] = a /\ memory'[size + 2] = b
  <2>1. a \in Nodes /\ b \in Nodes /\ TypeOK
    BY <1>2 DEF RInv
  <2>2. /\ memory' \in Seq(Nodes) /\ Len(memory') = size + 2
        /\ \A i \in 1 .. size : memory'[i] = memory[i]
        /\ memory'[size + 1] = a /\ memory'[size + 2] = b
    BY <1>1, <2>1, TwoPushed DEF RInv, Vector
  <2> QED
    BY <2>2
<1>4. size \in Nat /\ DOMAIN memory = 1 .. size /\ 1 .. size \subseteq 1 .. size + 2
  <2>1. memory \in Seq(Nodes) /\ Len(memory) = size
    BY <1>1 DEF RInv, TypeOK, Vector
  <2> QED
    BY <2>1
<1>5. \A i \in 1 .. size + 2 : i \in 1 .. size \/ i = size + 1 \/ i = size + 2
  BY <1>4
<1>6. Removed' = Removed \cup {a, b}
  <2>1. Removed' = { memory'[i] : i \in 1 .. size + 2 }
    BY <1>1 DEF Removed
  <2>2. \A x \in Removed' : x \in Removed \cup {a, b}
    BY <1>3, <1>5, <2>1 DEF Removed
  <2>3. \A x \in Removed : x \in Removed'
    BY <1>3, <1>4, <2>1 DEF Removed
  <2>4. a \in Removed' /\ b \in Removed'
    BY <1>3, <1>4, <2>1
  <2> QED
    BY <2>2, <2>3, <2>4
<1>7. Nodes' = Nodes
  BY <1>1, SameNodes
<1>8. TypeOK'
  <2>1. degree' \in [Nodes -> Int]
    <3>1. \A v \in Nodes : degree[v] \in Int
      BY DEF RInv, TypeOK
    <3>2. a \in Nodes /\ b \in Nodes
      BY <1>2
    <3> DEFINE once == [[w \in Nodes |-> IF w \in node_list /\ Adjacent(a, w)
                                         THEN degree[w] - 1 ELSE degree[w]] EXCEPT ![a] = 0]
    <3>3. once \in [Nodes -> Int]
      BY <3>1, <3>2
    <3>4. Decremented(a, b) = [[w \in Nodes |-> IF w \in node_list /\ Adjacent(b, w)
                                                THEN once[w] - 1 ELSE once[w]] EXCEPT ![b] = 0]
      BY DEF Decremented
    <3> HIDE DEF once
    <3> QED
      BY <1>1, <3>2, <3>3, <3>4
  <2>2. size' \in 0 .. Len(memory') /\ position' \in Nat \ {0}
    BY <1>1, <1>3, <1>4
  <2>3. rest \subseteq Nodes /\ pc' \in {"readd", "pick"}
    BY <1>1, <1>2 DEF rest
  <2> QED
    BY <1>1, <1>3, <1>7, <2>1, <2>2, <2>3 DEF RInv, TypeOK
<1>9. Partition'
  <2>1. /\ node_list \cup Removed \cup DOMAIN number = Nodes
        /\ node_list \cap DOMAIN number = {} /\ Removed \cap DOMAIN number = {}
        /\ node_list \cap Removed = {}
    BY <1>1 DEF RInv, Partition
  <2>2. /\ node_list' \cup Removed' \cup DOMAIN number' = Nodes'
        /\ node_list' \cap DOMAIN number' = {} /\ Removed' \cap DOMAIN number' = {}
        /\ node_list' \cap Removed' = {}
    BY <1>1, <1>2, <1>6, <1>7, <2>1 DEF rest
  <2>3. pc' # "done"
    BY <1>1
  <2> QED
    BY <2>2, <2>3 DEF Partition
<1>10. NumbersDense'
  BY <1>1 DEF RInv, NumbersDense
<1>11. Vector'
  <2>1. \A i \in 1 .. size : memory[i] \in Removed /\ memory[i] \notin node_list
    BY <1>1 DEF RInv, Partition, Removed
  <2>2. \A i, k \in 1 .. size : memory[i] = memory[k] => i = k
    BY DEF RInv, Vector
  <2>3. ASSUME NEW i \in 1 .. size + 2, NEW k \in 1 .. size + 2, memory'[i] = memory'[k]
        PROVE  i = k
    <3>1. i \in 1 .. size => memory'[i] \notin {a, b}
      BY <1>2, <1>3, <2>1
    <3>2. k \in 1 .. size => memory'[k] \notin {a, b}
      BY <1>2, <1>3, <2>1
    <3>3. i \in 1 .. size /\ k \in 1 .. size => i = k
      BY <1>3, <2>2, <2>3
    <3> QED
      BY <1>2, <1>3, <1>5, <2>3, <3>1, <3>2, <3>3
  <2>4. \A i \in DOMAIN memory' : memory'[i] \in Removed'
    BY <1>1, <1>3 DEF Removed
  <2>5. pc' # "check" /\ ~(position' > 1) /\ Len(memory') >= 2 /\ size' = Len(memory')
    BY <1>1, <1>3, <1>4
  <2>6. \A i, k \in 1 .. size' : memory'[i] = memory'[k] => i = k
    BY <1>1, <2>3
  <2> QED
    BY <2>4, <2>5, <2>6 DEF Vector
<1>12. Degrees'
  <2>1. ASSUME NEW v \in rest
        PROVE  degree'[v] = Cardinality({ u \in rest : Adjacent(u, v) })
    <3>1. degree[v] = Cardinality({ u \in node_list : Adjacent(u, v) })
      BY <1>1 DEF RInv, Degrees, rest
    <3> QED
      BY <1>1, <1>2, <3>1, DecrementedExact DEF RInv, rest
  <2>2. /\ \A u, v : Adjacent(u, v)' = Adjacent(u, v)
        /\ Independent(node_list)' = Independent(node_list')
    BY <1>1, SameGraph DEF Independent
  <2>3. pc' = "pick" => ~Independent(node_list)'
    BY <1>1, <2>2
  <2> QED
    BY <1>1, <2>1, <2>2, <2>3 DEF Degrees
<1>13. pc' = "readd" => Independent(node_list)'
  <2>1. Independent(node_list)' = Independent(node_list')
    BY <1>1, SameGraph DEF Independent
  <2> QED
    BY <1>1, <2>1
<1> QED
  BY <1>8, <1>9, <1>10, <1>11, <1>12, <1>13 DEF RInv

\* Erasing the element at place c: the others move up, and the last cell keeps
\* its value.
LEMMA ErasedFacts ==
    ASSUME RInv, NEW x \in Removed
    PROVE  /\ Erased(x) \in Seq(Nodes) /\ Len(Erased(x)) = Len(memory)
           /\ size \in Nat \ {0}
           /\ { Erased(x)[i] : i \in 1 .. size - 1 } = Removed \ {x}
           /\ \A i, k \in 1 .. size - 1 : Erased(x)[i] = Erased(x)[k] => i = k
           /\ \A i \in DOMAIN memory : \E k \in DOMAIN memory : Erased(x)[i] = memory[k]
<1> DEFINE c == CHOOSE i \in 1 .. size : memory[i] = x
<1>1. /\ memory \in Seq(Nodes) /\ size \in 0 .. Len(memory) /\ Len(memory) \in Nat
      /\ DOMAIN memory = 1 .. Len(memory)
      /\ \A i \in DOMAIN memory : memory[i] \in Nodes
  BY DEF RInv, TypeOK
<1>2. \A i, k \in 1 .. size : memory[i] = memory[k] => i = k
  BY DEF RInv, Vector
<1>3. c \in 1 .. size /\ memory[c] = x
  BY DEF Removed
<1>4. Erased(x) = [i \in DOMAIN memory |-> IF c <= i /\ i < size THEN memory[i + 1] ELSE memory[i]]
  BY DEF Erased
<1> HIDE DEF c
<1>5. size \in Nat \ {0} /\ size <= Len(memory) /\ c \in Nat /\ 1 <= c /\ c <= size
  BY <1>1, <1>3
<1>6. /\ \A i \in 1 .. c - 1 : Erased(x)[i] = memory[i]
      /\ \A i \in c .. size - 1 : Erased(x)[i] = memory[i + 1]
      /\ \A i \in size .. Len(memory) : Erased(x)[i] = memory[i]
  BY <1>1, <1>4, <1>5
<1>7. \A i \in DOMAIN memory : \E k \in DOMAIN memory : Erased(x)[i] = memory[k]
  <2> SUFFICES ASSUME NEW i \in DOMAIN memory
               PROVE  \E k \in DOMAIN memory : Erased(x)[i] = memory[k]
    OBVIOUS
  <2>1. CASE c <= i /\ i < size
    <3>1. i + 1 \in DOMAIN memory
      BY <1>1, <1>5, <2>1
    <3> QED
      BY <1>4, <2>1, <3>1
  <2>2. CASE ~(c <= i /\ i < size)
    BY <1>4, <2>2
  <2> QED
    BY <2>1, <2>2
<1>8. Erased(x) \in Seq(Nodes) /\ Len(Erased(x)) = Len(memory)
  <2>1. \A i \in DOMAIN memory : Erased(x)[i] \in Nodes
    BY <1>1, <1>7
  <2>2. Erased(x) \in [1 .. Len(memory) -> Nodes]
    BY <1>1, <1>4, <2>1
  <2> QED
    BY <1>1, <2>2
<1>9. ASSUME NEW i \in 1 .. size - 1
      PROVE  \E k \in 1 .. size \ {c} :
                /\ Erased(x)[i] = memory[k]
                /\ k = IF i < c THEN i ELSE i + 1
  BY <1>5, <1>6
<1>10. \A i, k \in 1 .. size - 1 : Erased(x)[i] = Erased(x)[k] => i = k
  <2> SUFFICES ASSUME NEW i \in 1 .. size - 1, NEW k \in 1 .. size - 1,
                      Erased(x)[i] = Erased(x)[k]
               PROVE  i = k
    OBVIOUS
  <2>1. PICK p \in 1 .. size \ {c} : Erased(x)[i] = memory[p] /\ p = IF i < c THEN i ELSE i + 1
    BY <1>9
  <2>2. PICK q \in 1 .. size \ {c} : Erased(x)[k] = memory[q] /\ q = IF k < c THEN k ELSE k + 1
    BY <1>9
  <2>3. p = q
    BY <1>2, <2>1, <2>2
  <2> QED
    BY <1>5, <2>1, <2>2, <2>3
<1>11. { Erased(x)[i] : i \in 1 .. size - 1 } \subseteq Removed \ {x}
  BY <1>2, <1>3, <1>9 DEF Removed
<1>12. ASSUME NEW y \in Removed, y # x
       PROVE  \E i \in 1 .. size - 1 : Erased(x)[i] = y
  <2>1. PICK k \in 1 .. size : memory[k] = y
    BY DEF Removed
  <2>2. k # c
    BY <1>3, <1>12, <2>1
  <2>3. CASE k < c
    <3>1. k \in 1 .. c - 1 /\ k \in 1 .. size - 1
      BY <1>5, <2>3
    <3> QED
      BY <1>6, <2>1, <3>1
  <2>4. CASE c < k
    <3>1. k - 1 \in c .. size - 1 /\ k - 1 \in 1 .. size - 1 /\ k - 1 + 1 = k
      BY <1>5, <2>4
    <3> QED
      BY <1>6, <2>1, <3>1
  <2> QED
    BY <1>5, <2>2, <2>3, <2>4
<1> QED
  BY <1>5, <1>7, <1>8, <1>10, <1>11, <1>12

\* A dropped node is looked at, and put back if it fits.
LEMMA ReaddKeeps == ASSUME RInv, Readd PROVE RInv'
<1> DEFINE x == memory[position]
<1>1. /\ pc = "readd" /\ pc' = "readd" /\ position <= Len(memory) /\ position' = position + 1
      /\ UNCHANGED <<graph, degree, number, n_set>>
      /\ node_list' = IF Independent(node_list \cup {x}) THEN node_list \cup {x}
                      ELSE node_list \ {x}
      /\ memory' = IF Independent(node_list \cup {x}) THEN Erased(x) ELSE memory
      /\ size' = IF Independent(node_list \cup {x}) /\ x \in Removed THEN size - 1 ELSE size
  BY DEF Readd
<1>2. /\ memory \in Seq(Nodes) /\ Len(memory) \in Nat /\ DOMAIN memory = 1 .. Len(memory)
      /\ position \in DOMAIN memory /\ position \in Nat \ {0} /\ size \in 0 .. Len(memory)
  BY <1>1 DEF RInv, TypeOK
<1>3. x \in Nodes /\ x \in node_list \cup Removed
  BY <1>1, <1>2 DEF RInv, Vector
<1>4. /\ node_list \cup Removed \cup DOMAIN number = Nodes
      /\ node_list \cap DOMAIN number = {} /\ Removed \cap DOMAIN number = {}
      /\ node_list \cap Removed = {}
  BY <1>1 DEF RInv, Partition
<1>5. Independent(node_list)
  BY <1>1 DEF RInv
<1> HIDE DEF x
<1>6. Nodes' = Nodes /\ \A S : Independent(S) => Independent(S)'
  BY <1>1, SameNodes DEF Independent, Adjacent
<1>7. /\ \A i, k \in 1 .. size : memory[i] = memory[k] => i = k
      /\ \A i \in DOMAIN memory : memory[i] \in node_list \cup Removed
      /\ Len(memory) >= 2
      /\ position > 1 => node_list # {}
  BY <1>1 DEF RInv, Vector
<1>8. NumbersDense' /\ Degrees'
  BY <1>1 DEF RInv, NumbersDense, Degrees
<1>9. CASE Independent(node_list \cup {x}) /\ x \in Removed
  <2>1. node_list' = node_list \cup {x} /\ memory' = Erased(x) /\ size' = size - 1
    BY <1>1, <1>9
  <2>2. /\ memory' \in Seq(Nodes) /\ Len(memory') = Len(memory) /\ size \in Nat \ {0}
        /\ { memory'[i] : i \in 1 .. size - 1 } = Removed \ {x}
        /\ \A i, k \in 1 .. size - 1 : memory'[i] = memory'[k] => i = k
        /\ \A i \in DOMAIN memory : \E k \in DOMAIN memory : memory'[i] = memory[k]
    BY <1>9, <2>1, ErasedFacts
  <2>3. Removed' = Removed \ {x} /\ DOMAIN memory' = DOMAIN memory
    <3>1. Removed' = { memory'[i] : i \in 1 .. size - 1 }
      BY <2>1 DEF Removed
    <3>2. DOMAIN memory' = 1 .. Len(memory')
      BY <2>2
    <3> QED
      BY <1>2, <2>2, <3>1, <3>2
  <2>4. TypeOK'
    <3>1. size' \in 0 .. Len(memory') /\ position' \in Nat \ {0}
      BY <1>1, <1>2, <2>1, <2>2
    <3> QED
      BY <1>1, <1>3, <1>6, <2>1, <2>2, <3>1 DEF RInv, TypeOK
  <2>5. Partition'
    BY <1>1, <1>3, <1>4, <1>6, <1>9, <2>1, <2>3 DEF Partition
  <2>6. Vector'
    <3>1. \A i \in DOMAIN memory' : memory'[i] \in node_list' \cup Removed'
      BY <1>7, <2>1, <2>2, <2>3
    <3>2. \A i, k \in 1 .. size' : memory'[i] = memory'[k] => i = k
      BY <2>1, <2>2
    <3> QED
      BY <1>1, <1>7, <2>1, <2>2, <3>1, <3>2 DEF Vector
  <2>7. Independent(node_list)'
    BY <1>1, <1>9, <2>1, SameGraph DEF Independent
  <2> QED
    BY <1>8, <2>4, <2>5, <2>6, <2>7 DEF RInv
<1>10. CASE ~(Independent(node_list \cup {x}) /\ x \in Removed)
  <2>1. x \in node_list => node_list \cup {x} = node_list
    OBVIOUS
  <2>2. Independent(node_list \cup {x}) <=> x \in node_list
    BY <1>3, <1>4, <1>5, <1>10, <2>1
  <2>3. x \notin node_list => node_list \ {x} = node_list
    OBVIOUS
  <2>4. x \in node_list => x \notin Removed
    BY <1>4
  <2>5. node_list' = node_list /\ memory' = memory /\ size' = size
    BY <1>1, <2>1, <2>2, <2>3, <2>4 DEF Erased
  <2>6. node_list # {}
    <3>1. x \notin node_list => node_list # {}
      <4> SUFFICES ASSUME node_list = {}
                   PROVE  Independent(node_list \cup {x})
        BY <2>2
      <4> QED
        BY DEF Independent, Adjacent
    <3> QED
      BY <3>1
  <2>7. Removed' = Removed
    BY <2>5 DEF Removed
  <2>8. TypeOK'
    <3>1. position' \in Nat \ {0}
      BY <1>1, <1>2
    <3> QED
      BY <1>1, <1>6, <2>5, <3>1 DEF RInv, TypeOK
  <2>9. Partition'
    BY <1>1, <1>4, <1>6, <2>5, <2>7 DEF Partition
  <2>10. Vector'
    BY <1>1, <1>7, <2>5, <2>6, <2>7 DEF Vector
  <2>11. Independent(node_list)'
    BY <1>1, <1>5, <2>5, SameGraph DEF Independent
  <2> QED
    BY <1>8, <2>8, <2>9, <2>10, <2>11 DEF RInv
<1> QED
  BY <1>9, <1>10

\* A set is numbered, and the dropped nodes are next.
LEMMA EndRoundKeeps == ASSUME RInv, EndRound PROVE RInv'
<1>1. /\ pc = "readd" /\ pc' = "check" /\ position > Len(memory)
      /\ number' = Numbered(node_list) /\ n_set' = n_set + 1
      /\ node_list' = Removed /\ degree' = UpdatedDegrees(Removed)
      /\ UNCHANGED <<graph, memory, size, position>>
  BY DEF EndRound
<1>2. /\ node_list \cup Removed \cup DOMAIN number = Nodes
      /\ node_list \cap DOMAIN number = {} /\ Removed \cap DOMAIN number = {}
      /\ node_list \cap Removed = {} /\ node_list \subseteq Nodes
  BY <1>1 DEF RInv, Partition, TypeOK
<1>3. node_list # {}
  <2>1. Len(memory) >= 2 /\ (position > 1 => node_list # {})
    BY <1>1 DEF RInv, Vector
  <2>2. position \in Nat /\ Len(memory) \in Nat
    BY DEF RInv, TypeOK
  <2> QED
    BY <1>1, <2>1, <2>2
<1>4. Nodes' = Nodes /\ Removed' = Removed /\ n_set \in Nat /\ n_set' - 1 = n_set
  <2>1. n_set \in Nat
    BY DEF RInv, TypeOK
  <2> QED
    BY <1>1, <2>1, SameNodes DEF Removed
<1>5. /\ DOMAIN number' = DOMAIN number \cup node_list
      /\ \A v \in DOMAIN number' : number'[v] \in 0 .. n_set
      /\ \A k \in 0 .. n_set : \E v \in DOMAIN number' : number'[v] = k
  BY <1>1, <1>2, <1>3, NumberedFacts
<1>6. TypeOK'
  <2>1. degree' \in [Nodes -> Int]
    <3>1. \A v \in Nodes : Cardinality({ u \in Removed : Adjacent(u, v) }) \in Int
      <4> SUFFICES ASSUME NEW v \in Nodes
                   PROVE  Cardinality({ u \in Removed : Adjacent(u, v) }) \in Int
        OBVIOUS
      <4>1. { u \in Removed : Adjacent(u, v) } \in SUBSET Nodes
        BY <1>2
      <4> QED
        BY <4>1, NodeFacts DEF RInv
    <3> QED
      BY <1>1, <3>1 DEF RInv, TypeOK, UpdatedDegrees
  <2>2. n_set' \in Nat /\ DOMAIN number' \subseteq Nodes /\ Removed \subseteq Nodes
    BY <1>1, <1>2, <1>4, <1>5
  <2>3. \A v \in DOMAIN number' : number'[v] \in 0 .. n_set' - 1
    BY <1>4, <1>5
  <2> QED
    BY <1>1, <1>4, <2>1, <2>2, <2>3 DEF RInv, TypeOK
<1>7. Partition'
  BY <1>1, <1>2, <1>4, <1>5 DEF Partition
<1>8. NumbersDense'
  BY <1>4, <1>5 DEF NumbersDense
<1>9. Vector'
  BY <1>1, <1>4 DEF RInv, Vector
<1>10. Degrees'
  <2>1. \A v \in Removed : degree'[v] = Cardinality({ u \in Removed : Adjacent(u, v) })
    BY <1>1, <1>2 DEF UpdatedDegrees
  <2>2. \A u, v : Adjacent(u, v)' = Adjacent(u, v)
    BY <1>1, SameGraph
  <2> QED
    BY <1>1, <2>1, <2>2 DEF Degrees
<1> QED
  BY <1>1, <1>6, <1>7, <1>8, <1>9, <1>10 DEF RInv

\* The invariant holds in every reachable state.
LEMMA RoundsInvariant == Spec => []RInv
<1>1. Init => RInv
  BY RoundsBegin
<1>2. RInv /\ UNCHANGED vars => RInv'
  <2> SUFFICES ASSUME RInv, UNCHANGED vars PROVE RInv'
    OBVIOUS
  <2>1. UNCHANGED <<graph, pc, node_list, degree, memory, size, position, number, n_set>>
    BY DEF vars
  <2>2. Nodes' = Nodes /\ Removed' = Removed /\ \A u, v : Adjacent(u, v)' = Adjacent(u, v)
    BY <2>1 DEF Nodes, Removed, Adjacent
  <2>3. TypeOK'
    BY <2>1, <2>2 DEF RInv, TypeOK
  <2>4. Partition' /\ NumbersDense'
    BY <2>1, <2>2 DEF RInv, Partition, NumbersDense
  <2>5. Vector'
    BY <2>1, <2>2 DEF RInv, Vector
  <2>6. Degrees'
    BY <2>1, <2>2 DEF RInv, Degrees, Independent
  <2>7. pc' = "readd" => Independent(node_list)'
    BY <2>1, <2>2 DEF RInv, Independent
  <2> QED
    BY <2>3, <2>4, <2>5, <2>6, <2>7 DEF RInv
<1>3. RInv /\ [Next]_vars => RInv'
  BY <1>2, CheckKeeps, PickKeeps, ReaddKeeps, EndRoundKeeps DEF Next, Work, Terminated
<1> QED
  BY <1>1, <1>3, PTL DEF Spec

\* A set that is not independent has a pair with an edge.
LEMMA EdgesLeft == ASSUME RInv PROVE DegreesExact /\ EdgeLeft
<1>1. DegreesExact
  BY DEF RInv, Degrees, DegreesExact
<1>2. EdgeLeft
  <2> SUFFICES ASSUME pc = "pick"
               PROVE  /\ Cardinality(node_list) >= 2
                      /\ \E u, v \in node_list : u # v /\ degree[u] + degree[v] > 0
    BY DEF EdgeLeft
  <2>1. PICK u \in node_list, v \in node_list : Adjacent(u, v)
    BY DEF RInv, Degrees, Independent
  <2>2. u # v
    BY <2>1 DEF Adjacent
  <2>3. ASSUME NEW w \in node_list
        PROVE  /\ degree[w] = Cardinality({ n \in node_list : Adjacent(n, w) })
               /\ IsFiniteSet({ n \in node_list : Adjacent(n, w) })
               /\ degree[w] \in Nat
    <3>1. { n \in node_list : Adjacent(n, w) } \in SUBSET Nodes
      BY DEF RInv, TypeOK
    <3>2. degree[w] = Cardinality({ n \in node_list : Adjacent(n, w) })
      BY DEF RInv, Degrees
    <3> QED
      BY <3>1, <3>2, NodeFacts DEF RInv
  <2>4. degree[v] # 0
    <3> DEFINE N == { n \in node_list : Adjacent(n, v) }
    <3>1. u \in N /\ IsFiniteSet(N) /\ degree[v] = Cardinality(N)
      BY <2>1, <2>3
    <3> HIDE DEF N
    <3> QED
      BY <3>1, FS_EmptySet
  <2>5. degree[u] + degree[v] > 0
    <3>1. degree[u] \in Nat /\ degree[v] \in Nat
      BY <2>3
    <3> QED
      BY <2>4, <3>1
  <2>6. Cardinality(node_list) >= 2
    <3>1. IsFiniteSet(node_list) /\ Cardinality(node_list) \in Nat
      BY NodeFacts DEF RInv, TypeOK
    <3>2. Cardinality(node_list) # 0
      BY <3>1, FS_EmptySet
    <3>3. Cardinality(node_list) # 1
      BY <2>2, <3>1, FS_Singleton
    <3> QED
      BY <3>1, <3>2, <3>3
  <2> QED
    BY <2>2, <2>5, <2>6
<1> QED
  BY <1>1, <1>2

\* Whatever the range-for skips or meets again because removed_nodes shrinks
\* under it, in every round the nodes are shared out between the set, the
\* dropped ones and the earlier sets, the numbers given are dense, the degrees
\* decremented on the way are exact, and pick_edge finds a pair with an edge.
THEOREM RoundsShareOut == Spec => []RoundInv
<1>1. RInv => RoundInv
  BY EdgesLeft DEF RInv, RoundInv
<1> QED
  BY RoundsInvariant, <1>1, PTL

-----------------------------------------------------------------------------
(* The analysis as a whole: MyGraph1 is run on the matrix.  The two          *)
(* specifications share no variable; that the graph of the second is the     *)
(* matrix the first ended with is part of what is said of them.              *)

\* The graph the matrix of a component is, and that its groups are made.
MatrixGraph == [V |-> nfa.size, adj |-> incompatible]
Grouped     == Done /\ pc = "done" /\ graph = MatrixGraph

\* The number of a state is a slot for it, as Ppopp12 assumes slots to be: the
\* closed matrix's pairs are told apart.
NumbersAreSlots ==
    Grouped => /\ DOMAIN number = Sids(nfa)
               /\ \A s \in Sids(nfa) : number[s] \in 0 .. n_set - 1
               /\ ClosedUnder(nfa, incompatible)
               /\ incompatible \subseteq Sids(nfa) \X Sids(nfa)
               /\ \A p \in incompatible : p[1] # p[2] => number[p[1]] # number[p[2]]

\* Two states of one group are never active together, on any input.
GroupsNeverCollide ==
    Grouped => \A input \in Seq(Symbol) : \A k \in 0 .. Len(input) :
                  \A s, u \in ActiveAt(nfa, input)[k] : number[s] = number[u] => s = u

\* At every point of the analysis the matrix is a graph MyGraph1 may be run on: its
\* entries are pairs of nodes, and it is symmetric.
THEOREM MatrixIsAGraph ==
    PairsSpec => [](/\ MatrixGraph.V \in Nat
                    /\ MatrixGraph.adj \subseteq (0 .. MatrixGraph.V - 1) \X (0 .. MatrixGraph.V - 1)
                    /\ \A e \in MatrixGraph.adj : <<e[2], e[1]>> \in MatrixGraph.adj)
<1> DEFINE Suits == /\ MatrixGraph.V \in Nat
                    /\ MatrixGraph.adj \subseteq (0 .. MatrixGraph.V - 1) \X (0 .. MatrixGraph.V - 1)
                    /\ \A e \in MatrixGraph.adj : <<e[2], e[1]>> \in MatrixGraph.adj
<1>1. IInv => Suits
  <2> SUFFICES ASSUME IInv PROVE Suits
    OBVIOUS
  <2>1. MatrixGraph.V = nfa.size /\ MatrixGraph.adj = incompatible
    BY DEF MatrixGraph
  <2>2. IsNetwork(nfa, MaxInt, Symbol, Id)
    BY NetworksAssumption DEF IInv, PairsOK
  <2>3. nfa.size \in Nat
    BY <2>2 DEF IsNetwork
  <2>4. incompatible \subseteq (0 .. nfa.size - 1) \X (0 .. nfa.size - 1)
    BY DEF IInv, PairsOK, Sids
  <2>5. \A e \in incompatible : <<e[2], e[1]>> \in incompatible
    BY DEF IInv, Symmetric
  <2> QED
    BY <2>1, <2>3, <2>4, <2>5
<1> QED
  <2> HIDE DEF Suits
  <2>1. PairsSpec => []Suits
    BY Invariance, <1>1, PTL
  <2> QED
    BY <2>1 DEF Suits

\* What the two invariants say when the groups of the matrix are made.
LEMMA GroupedFacts ==
    ASSUME IInv, Closed, RoundInv, GroupsIndependent
    PROVE  NumbersAreSlots
<1> SUFFICES ASSUME Grouped
             PROVE  /\ DOMAIN number = Sids(nfa)
                    /\ \A s \in Sids(nfa) : number[s] \in 0 .. n_set - 1
                    /\ ClosedUnder(nfa, incompatible)
                    /\ incompatible \subseteq Sids(nfa) \X Sids(nfa)
                    /\ \A p \in incompatible : p[1] # p[2] => number[p[1]] # number[p[2]]
  BY DEF NumbersAreSlots
<1>1. graph.V = nfa.size /\ graph.adj = incompatible
  BY DEF Grouped, MatrixGraph
<1>2. DOMAIN number = Sids(nfa)
  <2>1. DOMAIN number = Nodes
    BY DEF RoundInv, Partition, Grouped
  <2> QED
    BY <1>1, <2>1 DEF Nodes, Sids
<1>3. \A s \in Sids(nfa) : number[s] \in 0 .. n_set - 1
  BY <1>2 DEF RoundInv, TypeOK
<1>4. ClosedUnder(nfa, incompatible) /\ incompatible \subseteq Sids(nfa) \X Sids(nfa)
  BY DEF Grouped, Closed, IInv, PairsOK
<1>5. ASSUME NEW p \in incompatible, p[1] # p[2], number[p[1]] = number[p[2]] PROVE FALSE
  <2>1. p[1] \in Sids(nfa) /\ p[2] \in Sids(nfa) /\ p = <<p[1], p[2]>>
    BY <1>4
  <2>2. Adjacent(p[1], p[2])
    BY <1>1, <1>5, <2>1 DEF Adjacent
  <2> QED
    BY <1>2, <1>5, <2>1, <2>2 DEF GroupsIndependent
<1> QED
  BY <1>2, <1>3, <1>4, <1>5

\* What PPoPP12's kernels assume of their slots is what the analysis gives: every
\* state of the component gets a number below the count of the groups, the matrix
\* is closed, and its pairs have different numbers (calc_incompatible_states, then
\* calc_independent_set on the matrix).
THEOREM AnalysisGivesSlots == PairsSpec /\ Spec => []NumbersAreSlots
  BY Invariance, ClosedWhenDone, RoundsShareOut, GroupsAreIndependent, GroupedFacts, PTL

\* On no input of any length are two states of one compatible group active after
\* the same symbol, so that no state is stored over another in its slot.
THEOREM NoTwoInOneGroup == PairsSpec /\ Spec => []GroupsNeverCollide
<1>1. ASSUME IInv, NumbersAreSlots PROVE GroupsNeverCollide
  <2> SUFFICES ASSUME Grouped, NEW input \in Seq(Symbol), NEW k \in 0 .. Len(input),
                      NEW s \in ActiveAt(nfa, input)[k], NEW u \in ActiveAt(nfa, input)[k],
                      s # u
               PROVE  number[s] # number[u]
    BY DEF GroupsNeverCollide
  <2>1. nfa \in Networks
    BY <1>1 DEF IInv, PairsOK
  <2>2. ClosedUnder(nfa, incompatible)
    BY <1>1 DEF NumbersAreSlots
  <2>3. ActiveAt(nfa, input)[k] \X ActiveAt(nfa, input)[k] \subseteq incompatible
    BY <2>1, <2>2, ActiveTogether
  <2>4. <<s, u>> \in incompatible
    BY <2>3
  <2> QED
    BY <1>1, <2>4 DEF NumbersAreSlots
<1> QED
  BY Invariance, AnalysisGivesSlots, <1>1, PTL
=============================================================================
