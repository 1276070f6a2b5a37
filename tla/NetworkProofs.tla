---------------------------- MODULE NetworkProofs ---------------------------
(***************************************************************************)
(* What the proofs about the engines and about their preparation need of    *)
(* networks, for networks of any size and inputs of any length: that the    *)
(* run of a network is what its definition by recursion says, what a block  *)
(* has reported when it has read a part of its stream, that a network of    *)
(* copies and one with clones for its starts run like their original, and   *)
(* that the test of a packed node is membership of the state's symbol set.  *)
(***************************************************************************)
EXTENDS NetworkCopies, ClonedNetwork, NodePacking, FiniteSetTheorems, WellFoundedInduction, TLAPS

-----------------------------------------------------------------------------
(* Induction, as a statement about sets.                                     *)

\* A set of naturals that is not empty has a least element.
LEMMA Least ==
    ASSUME NEW T, T \subseteq Nat, T # {}
    PROVE  \E m \in T : \A k \in T : m <= k
<1>1. IsWellFoundedOn(OpToRel(<, Nat), Nat)
  BY NatLessThanWellFounded
<1>2. PICK m \in T : \A k \in T : <<k, m>> \notin OpToRel(<, Nat)
  BY <1>1, WFMin, Zenon
<1>3. \A k \in T : ~(k < m)
  BY <1>2 DEF OpToRel
<1> QED
  BY <1>3

\* A set of naturals that is not empty and has an upper bound has a greatest element.
LEMMA Greatest ==
    ASSUME NEW T, T \subseteq Nat, T # {}, NEW n \in Nat, \A k \in T : k <= n
    PROVE  \E m \in T : \A k \in T : k <= m
<1> DEFINE D == { n - k : k \in T }
<1>1. D \subseteq Nat /\ D # {}
  <2>1. \A k \in T : k \in Nat /\ k <= n
    OBVIOUS
  <2>2. \A k \in T : n - k \in Nat
    BY <2>1
  <2> QED
    BY <2>2
<1>2. PICK d \in D : \A k \in D : d <= k
  <2> HIDE DEF D
  <2> QED
    BY <1>1, Least
<1>3. PICK m \in T : d = n - m
  OBVIOUS
<1>4. \A k \in T : n - m <= n - k
  BY <1>2, <1>3
<1> QED
  BY <1>4

\* A set that has zero and with a number the next one has all of them.
LEMMA Induction ==
    ASSUME NEW T, 0 \in T, \A k \in Nat : k \in T => k + 1 \in T
    PROVE  Nat \subseteq T
<1> SUFFICES ASSUME Nat \ T # {} PROVE FALSE
  OBVIOUS
<1>1. PICK m \in Nat \ T : \A k \in Nat \ T : m <= k
  BY Least
<1>2. m - 1 \in T /\ m - 1 \in Nat
  BY <1>1
<1> QED
  BY <1>1, <1>2

\* Indices i and a with one remainder, i not before a and less than a stride after.
LEMMA StridesOf ==
    ASSUME NEW d \in Nat \ {0}, NEW a \in Nat
    PROVE  /\ a % d \in 0 .. d - 1
           /\ (a + d) % d = a % d
           /\ \A i \in Nat : a <= i /\ i < a + d /\ i % d = a % d => i = a
           /\ \A t \in 0 .. d - 1 : t % d = t
<1>1. a % d \in 0 .. d - 1
  BY SMTT(30)
<1>2. (a + d) % d = a % d
  <2> DEFINE q == a \div d
             r == a % d
  <2>1. q \in Nat /\ r \in 0 .. d - 1 /\ a = (q * d) + r
    BY SMTT(30)
  <2> HIDE DEF q, r
  <2>2. a + d = ((q + 1) * d) + r
    BY <2>1, SMTT(30)
  <2>3. (a + d) % d = r
    BY <2>1, <2>2, SMTT(30)
  <2> QED
    BY <2>3 DEF r
<1>3. ASSUME NEW i \in Nat, a <= i, i < a + d, i % d = a % d
      PROVE  i = a
  <2> DEFINE p == a \div d
             q == i \div d
             r == a % d
  <2>1. p \in Nat /\ q \in Nat /\ r \in Nat /\ a = (p * d) + r
    BY SMTT(30)
  <2>2. i = (q * d) + r
    BY <1>3, SMTT(30)
  <2> HIDE DEF p, q, r
  <2>3. i - a = (q - p) * d
    BY <2>1, <2>2, SMTT(30)
  <2>4. q - p <= 0
    BY <1>3, <2>1, <2>3, SMTT(30)
  <2>5. q - p >= 0
    BY <1>3, <2>1, <2>3, SMTT(30)
  <2> QED
    BY <2>1, <2>3, <2>4, <2>5
<1>4. \A t \in 0 .. d - 1 : t % d = t
  BY SMTT(30)
<1> QED
  BY <1>1, <1>2, <1>3, <1>4

-----------------------------------------------------------------------------
(* The run of a network on an input.                                         *)

\* What EnabledAt is to be on the first m symbols.
EnabledUpTo(n, input, f, m) ==
    f = [k \in 0 .. m |-> IF k = 0 THEN n.start ELSE NextEnabled(n, f[k-1], input[k])]

\* There is such a function for every m.
LEMMA EnabledExists ==
    ASSUME NEW n, NEW input, NEW m \in Nat
    PROVE  \E f : EnabledUpTo(n, input, f, m)
<1> DEFINE T == { k \in Nat : \E f : EnabledUpTo(n, input, f, k) }
<1>1. 0 \in T
  <2>1. EnabledUpTo(n, input, [k \in 0 .. 0 |-> n.start], 0)
    BY DEF EnabledUpTo
  <2> QED
    BY <2>1
<1>2. ASSUME NEW k \in Nat, k \in T PROVE k + 1 \in T
  <2>1. PICK f : EnabledUpTo(n, input, f, k)
    BY <1>2
  <2> DEFINE g == [i \in 0 .. k + 1 |-> IF i = k + 1 THEN NextEnabled(n, f[k], input[k + 1])
                                                   ELSE f[i]]
  <2>2. EnabledUpTo(n, input, g, k + 1)
    BY <2>1 DEF EnabledUpTo
  <2>3. \E h : EnabledUpTo(n, input, h, k + 1)
    <3> HIDE DEF g
    <3> QED
      BY <2>2
  <2> QED
    BY <2>3
<1>3. Nat \subseteq T
  <2> HIDE DEF T
  <2> QED
    BY <1>1, <1>2, Induction
<1> QED
  BY <1>3

\* EnabledAt is what its definition says: the starts, and after a symbol what the
\* symbol makes of what was enabled before it.
LEMMA EnabledEquation ==
    ASSUME NEW n, NEW input, Len(input) \in Nat
    PROVE  /\ EnabledAt(n, input)[0] = n.start
           /\ \A k \in 1 .. Len(input) :
                 EnabledAt(n, input)[k] = NextEnabled(n, EnabledAt(n, input)[k-1], input[k])
<1> DEFINE Equation(f) ==
              f = [k \in 0 .. Len(input) |-> IF k = 0 THEN n.start
                                                     ELSE NextEnabled(n, f[k-1], input[k])]
<1>1. \E f : Equation(f)
  <2>1. PICK f : EnabledUpTo(n, input, f, Len(input))
    BY EnabledExists
  <2>2. Equation(f)
    BY <2>1 DEF EnabledUpTo
  <2> HIDE DEF Equation
  <2> QED
    BY <2>2
<1>2. Equation(EnabledAt(n, input))
  BY <1>1 DEF EnabledAt
<1> QED
  BY <1>2

\* Only states are ever enabled.
LEMMA EnabledAreStates ==
    ASSUME NEW n, NEW input, Len(input) \in Nat,
           n.start \subseteq Sids(n), n.always \subseteq Sids(n),
           \A s \in Sids(n) : n.edges[s] \subseteq Sids(n)
    PROVE  \A k \in 0 .. Len(input) : EnabledAt(n, input)[k] \subseteq Sids(n)
<1> DEFINE e == EnabledAt(n, input)
           T == { k \in Nat : k <= Len(input) => e[k] \subseteq Sids(n) }
<1>1. 0 \in T
  BY EnabledEquation
<1>2. ASSUME NEW k \in Nat, k \in T PROVE k + 1 \in T
  <2> SUFFICES ASSUME k + 1 <= Len(input) PROVE e[k + 1] \subseteq Sids(n)
    OBVIOUS
  <2>1. e[k + 1] = NextEnabled(n, e[k], input[k + 1])
    BY EnabledEquation
  <2>2. e[k] \subseteq Sids(n)
    BY <1>2
  <2> HIDE DEF e
  <2> QED
    BY <2>1, <2>2 DEF NextEnabled, Successors, Activated
<1>3. Nat \subseteq T
  <2> HIDE DEF T
  <2> QED
    BY <1>1, <1>2, Induction
<1> QED
  BY <1>3

\* The reports of the first p symbols.
ReportsBefore(n, input, p) == { r \in ReportsOf(n, input) : r[1] < p }

\* A symbol adds to them what it reports.
LEMMA ReportsOfSymbol ==
    ASSUME NEW n, NEW input, Len(input) \in Nat,
           n.start \subseteq Sids(n), n.always \subseteq Sids(n),
           \A s \in Sids(n) : n.edges[s] \subseteq Sids(n),
           NEW p \in Nat, p < Len(input)
    PROVE  ReportsBefore(n, input, p + 1) =
              ReportsBefore(n, input, p) \cup
                 { <<p, s>> : s \in Reporting(n, EnabledAt(n, input)[p], input[p + 1]) }
<1> DEFINE now == Reporting(n, EnabledAt(n, input)[p], input[p + 1])
<1>1. now \subseteq Sids(n)
  BY EnabledAreStates DEF Reporting, Activated
<1>2. ASSUME NEW r \in ReportsBefore(n, input, p + 1), ~(r[1] < p)
      PROVE  r \in { <<p, s>> : s \in now }
  <2>1. /\ r \in (0 .. Len(input) - 1) \X Sids(n) /\ r[1] < p + 1
        /\ r[2] \in Reporting(n, EnabledAt(n, input)[r[1]], input[r[1] + 1])
    BY <1>2 DEF ReportsBefore, ReportsOf
  <2>2. r = <<p, r[2]>> /\ r[1] = p
    BY <1>2, <2>1
  <2> QED
    BY <2>1, <2>2
<1>3. ASSUME NEW s \in now PROVE <<p, s>> \in ReportsBefore(n, input, p + 1)
  <2>1. <<p, s>> \in (0 .. Len(input) - 1) \X Sids(n)
    BY <1>1, <1>3
  <2> QED
    BY <1>3, <2>1 DEF ReportsBefore, ReportsOf
<1>4. \A r \in ReportsOf(n, input) : r[1] \in Nat
  BY DEF ReportsOf
<1> HIDE DEF now
<1>5. ReportsBefore(n, input, p) \subseteq ReportsBefore(n, input, p + 1)
  BY <1>4 DEF ReportsBefore
<1>6. ReportsBefore(n, input, p + 1) \subseteq ReportsBefore(n, input, p) \cup { <<p, s>> : s \in now }
  BY <1>2 DEF ReportsBefore
<1> QED
  BY <1>3, <1>5, <1>6 DEF now

-----------------------------------------------------------------------------
(* The run of a grid: what EnableActiveNFA's steps lead to.                  *)

\* The networks of a job are such that only states are enabled.
Sound(job, B) ==
    \A b \in B : LET n == job.nfa[b[1]]
                 IN  /\ n.start \subseteq Sids(n) /\ n.always \subseteq Sids(n)
                     /\ \A s \in Sids(n) : n.edges[s] \subseteq Sids(n)
                     /\ Len(job.input[b[2]]) \in Nat

\* The reports of every block b of B on the first position[b] symbols.
ReportsOfGrid(job, B, position) ==
    UNION { { <<b, r[1], r[2]>> : r \in ReportsBefore(job.nfa[b[1]], job.input[b[2]], position[b]) } :
            b \in B }

\* Every block has enabled and reported what its network does on the part of the
\* stream it has read.
RunOf(job, B, position, enabled, reports) ==
    /\ \A b \in B : /\ position[b] \in 0 .. Len(job.input[b[2]])
                    /\ enabled[b] = EnabledAt(job.nfa[b[1]], job.input[b[2]])[position[b]]
    /\ reports = ReportsOfGrid(job, B, position)

\* It is so before the first symbol.
LEMMA RunBegins ==
    ASSUME NEW job, NEW B, Sound(job, B), NEW position, NEW enabled,
           position = [b \in B |-> 0], enabled = [b \in B |-> job.nfa[b[1]].start]
    PROVE  RunOf(job, B, position, enabled, {})
<1>1. \A b \in B : ReportsBefore(job.nfa[b[1]], job.input[b[2]], position[b]) = {}
  BY DEF ReportsBefore, ReportsOf
<1>2. ReportsOfGrid(job, B, position) = {}
  BY <1>1 DEF ReportsOfGrid
<1> QED
  BY <1>2, EnabledEquation DEF RunOf, Sound

\* Block b reads its next symbol.
Consumes(job, B, b, position, enabled, reports, position2, enabled2, reports2) ==
    LET n == job.nfa[b[1]]
        input == job.input[b[2]]
    IN  /\ position[b] < Len(input)
        /\ DOMAIN position = B /\ DOMAIN enabled = B
        /\ position2 = [position EXCEPT ![b] = @ + 1]
        /\ enabled2 = [enabled EXCEPT ![b] = NextEnabled(n, @, input[position[b] + 1])]
        /\ reports2 = reports \cup
              { <<b, position[b], s>> : s \in Reporting(n, enabled[b], input[position[b] + 1]) }

\* A block that consumes its symbol keeps it so.
LEMMA RunGoesOn ==
    ASSUME NEW job, NEW B, Sound(job, B), NEW b \in B,
           NEW position, NEW enabled, NEW reports, RunOf(job, B, position, enabled, reports),
           NEW position2, NEW enabled2, NEW reports2,
           Consumes(job, B, b, position, enabled, reports, position2, enabled2, reports2)
    PROVE  RunOf(job, B, position2, enabled2, reports2)
<1> DEFINE n == job.nfa[b[1]]
           input == job.input[b[2]]
           p == position[b]
           now == Reporting(n, enabled[b], input[p + 1])
           Of(d, q) == { <<d, r[1], r[2]>> : r \in ReportsBefore(job.nfa[d[1]], job.input[d[2]], q) }
<1>0. /\ position[b] < Len(input) /\ DOMAIN position = B /\ DOMAIN enabled = B
      /\ position2 = [position EXCEPT ![b] = @ + 1]
      /\ enabled2 = [enabled EXCEPT ![b] = NextEnabled(n, @, input[p + 1])]
      /\ reports2 = reports \cup { <<b, p, s>> : s \in now }
  BY DEF Consumes
<1>1. /\ n.start \subseteq Sids(n) /\ n.always \subseteq Sids(n)
      /\ \A s \in Sids(n) : n.edges[s] \subseteq Sids(n)
      /\ Len(input) \in Nat
  BY DEF Sound
<1>2. p \in Nat /\ p < Len(input) /\ enabled[b] = EnabledAt(n, input)[p]
  <2>1. /\ position[b] \in 0 .. Len(job.input[b[2]])
        /\ enabled[b] = EnabledAt(job.nfa[b[1]], job.input[b[2]])[position[b]]
    BY DEF RunOf
  <2>2. Len(job.input[b[2]]) \in Nat
    BY <1>1
  <2>3. position[b] \in Nat
    BY <2>1, <2>2
  <2> QED
    BY <1>0, <2>1, <2>3
<1>3. position2[b] = p + 1 /\ enabled2[b] = NextEnabled(n, enabled[b], input[p + 1])
  BY <1>0
<1>4. enabled2[b] = EnabledAt(n, input)[p + 1]
  BY <1>1, <1>2, <1>3, EnabledEquation
<1>5. \A d \in B : d # b => position2[d] = position[d] /\ enabled2[d] = enabled[d]
  BY <1>0
<1>6. \A d \in B : /\ position2[d] \in 0 .. Len(job.input[d[2]])
                   /\ enabled2[d] = EnabledAt(job.nfa[d[1]], job.input[d[2]])[position2[d]]
  BY <1>1, <1>2, <1>3, <1>4, <1>5 DEF RunOf
<1>7. Of(b, p + 1) = Of(b, p) \cup { <<b, p, s>> : s \in now }
  <2>1. ReportsBefore(n, input, p + 1) = ReportsBefore(n, input, p) \cup { <<p, s>> : s \in now }
    BY <1>1, <1>2, ReportsOfSymbol
  <2>2. { <<b, r[1], r[2]>> : r \in { <<p, s>> : s \in now } } = { <<b, p, s>> : s \in now }
    <3>1. \A s : LET r == <<p, s>> IN r[1] = p /\ r[2] = s
      OBVIOUS
    <3> HIDE DEF now, p
    <3> QED
      BY <3>1, Zenon
  <2>3. Of(b, p + 1) = { <<b, r[1], r[2]>> :
                           r \in ReportsBefore(n, input, p) \cup { <<p, s>> : s \in now } }
    BY <2>1
  <2> HIDE DEF now, p
  <2> QED
    BY <2>2, <2>3
<1>8. reports2 = UNION { Of(d, position2[d]) : d \in B }
  <2>1. reports = UNION { Of(d, position[d]) : d \in B }
    BY DEF RunOf, ReportsOfGrid
  <2>2. \A d \in B : Of(d, position2[d]) = IF d = b THEN Of(b, p) \cup { <<b, p, s>> : s \in now }
                                                    ELSE Of(d, position[d])
    BY <1>3, <1>5, <1>7
  <2>3. reports2 = reports \cup { <<b, p, s>> : s \in now }
    BY <1>0
  <2>4. \A d \in B : Of(d, position[d]) \subseteq Of(d, position2[d])
    BY <2>2
  <2>5. { <<b, p, s>> : s \in now } \subseteq Of(b, position2[b])
    BY <2>2
  <2>6. \A d \in B : Of(d, position2[d]) \subseteq
                        Of(d, position[d]) \cup { <<b, p, s>> : s \in now }
    BY <2>2
  <2> HIDE DEF Of, now, p
  <2>7. UNION { Of(d, position2[d]) : d \in B }
          = (UNION { Of(d, position[d]) : d \in B }) \cup { <<b, p, s>> : s \in now }
    BY <2>4, <2>5, <2>6
  <2> QED
    BY <2>1, <2>3, <2>7
<1> QED
  BY <1>6, <1>8 DEF RunOf, ReportsOfGrid

\* When all symbols are read, the reports are those of the networks.
LEMMA RunEnds ==
    ASSUME NEW job, NEW B, Sound(job, B), NEW position, NEW enabled, NEW reports,
           RunOf(job, B, position, enabled, reports),
           \A b \in B : position[b] = Len(job.input[b[2]])
    PROVE  reports = UNION { { <<b, r[1], r[2]>> : r \in ReportsOf(job.nfa[b[1]], job.input[b[2]]) } :
                             b \in B }
<1>1. \A b \in B : ReportsBefore(job.nfa[b[1]], job.input[b[2]], position[b])
                     = ReportsOf(job.nfa[b[1]], job.input[b[2]])
  BY DEF ReportsBefore, ReportsOf, Sound
<1> QED
  BY <1>1 DEF RunOf, ReportsOfGrid

-----------------------------------------------------------------------------
(* Networks of copies.                                                       *)

\* A symbol activates the copies of what it activates.
LEMMA CopiesActivated ==
    ASSUME NEW m, NEW n, NEW base, IsCopyOf(m, n, base), NEW S, NEW c
    PROVE  Activated(m, Copies(base, S), c) = Copies(base, Activated(n, S, c))
<1>1. \A v \in DOMAIN base : m.symbol_set[v] = n.symbol_set[base[v]]
  BY DEF IsCopyOf, SameAttributes
<1> QED
  BY <1>1 DEF Activated, Copies, match2

\* Copies of states enable exactly the copies of what the states enable: no
\* copy of a successor is forgotten, although each copy has but a part of them.
LEMMA CopiesEnabled ==
    ASSUME NEW m, NEW n, NEW base, IsCopyOf(m, n, base), NEW A, A \subseteq DOMAIN n.edges
    PROVE  Successors(m, Copies(base, A)) = Copies(base, Successors(n, A))
<1>1. ASSUME NEW w \in Successors(m, Copies(base, A))
      PROVE  w \in Copies(base, Successors(n, A))
  <2>1. PICK v \in Copies(base, A) : w \in m.edges[v]
    BY <1>1 DEF Successors
  <2>2. v \in DOMAIN base /\ base[v] \in A
    BY <2>1 DEF Copies
  <2>3. w \in Copies(base, n.edges[base[v]])
    BY <2>1, <2>2 DEF IsCopyOf
  <2> QED
    BY <2>2, <2>3 DEF Copies, Successors
<1>2. ASSUME NEW w \in Copies(base, Successors(n, A))
      PROVE  w \in Successors(m, Copies(base, A))
  <2>1. w \in DOMAIN base /\ base[w] \in Successors(n, A)
    BY <1>2 DEF Copies
  <2>2. PICK u \in A : base[w] \in n.edges[u]
    BY <2>1 DEF Successors
  <2>3. PICK v \in DOMAIN base : base[v] = u /\ w \in m.edges[v]
    BY <2>1, <2>2 DEF IsCopyOf
  <2>4. v \in Copies(base, A)
    BY <2>2, <2>3 DEF Copies
  <2> QED
    BY <2>3, <2>4 DEF Successors
<1> QED
  BY <1>1, <1>2

\* One step of a network of copies (limit_out_degree_on_nfa changes nothing in
\* what the automaton does): what is enabled afterwards are again the copies of
\* what is enabled in the original.
LEMMA CopiesStep ==
    ASSUME NEW m, NEW n, NEW base, IsCopyOf(m, n, base),
           NEW S, S \subseteq DOMAIN n.edges, NEW c
    PROVE  NextEnabled(m, Copies(base, S), c) = Copies(base, NextEnabled(n, S, c))
<1> DEFINE A == Activated(n, S, c)
<1>1. A \subseteq DOMAIN n.edges
  BY DEF Activated
<1>2. Activated(m, Copies(base, S), c) = Copies(base, A)
  BY CopiesActivated
<1>3. Successors(m, Copies(base, A)) = Copies(base, Successors(n, A))
  BY <1>1, CopiesEnabled
<1>4. m.always = Copies(base, n.always)
  BY DEF IsCopyOf, SameAttributes
<1>5. Copies(base, n.always \cup Successors(n, A))
        = Copies(base, n.always) \cup Copies(base, Successors(n, A))
  BY DEF Copies
<1> QED
  BY <1>2, <1>3, <1>4, <1>5 DEF NextEnabled

\* ... and the states that report are the copies of those that report.
LEMMA CopiesReport ==
    ASSUME NEW m, NEW n, NEW base, IsCopyOf(m, n, base), NEW S, NEW c
    PROVE  Reporting(m, Copies(base, S), c) = Copies(base, Reporting(n, S, c))
<1>1. Activated(m, Copies(base, S), c) = Copies(base, Activated(n, S, c))
  BY CopiesActivated
<1>2. m.report = Copies(base, n.report)
  BY DEF IsCopyOf, SameAttributes
<1> QED
  BY <1>1, <1>2 DEF Reporting, Copies

\* Whole runs agree: at every position the copies of what the original has enabled are
\* enabled, and what is reported are the copies of what the original reports.
LEMMA CopiesRun ==
    ASSUME NEW m, NEW n, NEW base, IsCopyOf(m, n, base), NEW input, Len(input) \in Nat,
           DOMAIN base = Sids(m), DOMAIN n.edges = Sids(n),
           n.start \subseteq Sids(n), n.always \subseteq Sids(n),
           \A s \in Sids(n) : n.edges[s] \subseteq Sids(n)
    PROVE  /\ \A k \in 0 .. Len(input) :
                 EnabledAt(m, input)[k] = Copies(base, EnabledAt(n, input)[k])
           /\ \A k, v : <<k, v>> \in ReportsOf(m, input) <=>
                           v \in DOMAIN base /\ <<k, base[v]>> \in ReportsOf(n, input)
<1> DEFINE e == EnabledAt(m, input)
           d == EnabledAt(n, input)
           T == { k \in Nat : k <= Len(input) => e[k] = Copies(base, d[k]) }
<1>1. 0 \in T
  BY EnabledEquation DEF IsCopyOf, SameAttributes
<1>2. ASSUME NEW k \in Nat, k \in T PROVE k + 1 \in T
  <2> SUFFICES ASSUME k + 1 <= Len(input) PROVE e[k + 1] = Copies(base, d[k + 1])
    OBVIOUS
  <2>1. /\ e[k + 1] = NextEnabled(m, e[k], input[k + 1])
        /\ d[k + 1] = NextEnabled(n, d[k], input[k + 1])
    BY EnabledEquation
  <2>2. d[k] \subseteq DOMAIN n.edges
    BY EnabledAreStates
  <2>3. e[k] = Copies(base, d[k])
    BY <1>2
  <2> HIDE DEF e, d
  <2> QED
    BY <2>1, <2>2, <2>3, CopiesStep
<1>3. Nat \subseteq T
  <2> HIDE DEF T
  <2> QED
    BY <1>1, <1>2, Induction
<1>4. \A k \in 0 .. Len(input) : e[k] = Copies(base, d[k])
  BY <1>3
<1>5. ASSUME NEW k \in 0 .. Len(input) - 1
      PROVE  Reporting(m, e[k], input[k + 1]) = Copies(base, Reporting(n, d[k], input[k + 1]))
  <2>1. e[k] = Copies(base, d[k])
    BY <1>4
  <2> HIDE DEF e, d
  <2> QED
    BY <2>1, CopiesReport
<1>6. ASSUME NEW k, NEW v
      PROVE  <<k, v>> \in ReportsOf(m, input) <=>
                v \in DOMAIN base /\ <<k, base[v]>> \in ReportsOf(n, input)
  <2>1. \A v1 \in DOMAIN base : base[v1] \in Sids(n)
    BY DEF IsCopyOf
  <2>2. <<k, v>> \in ReportsOf(m, input) <=>
           k \in 0 .. Len(input) - 1 /\ v \in Sids(m) /\ v \in Reporting(m, e[k], input[k + 1])
    BY DEF ReportsOf
  <2>3. v \in DOMAIN base => (<<k, base[v]>> \in ReportsOf(n, input) <=>
           k \in 0 .. Len(input) - 1 /\ base[v] \in Reporting(n, d[k], input[k + 1]))
    BY <2>1 DEF ReportsOf
  <2> HIDE DEF e, d
  <2> QED
    BY <1>5, <2>2, <2>3 DEF Copies
<1> QED
  BY <1>4, <1>6

-----------------------------------------------------------------------------
(* Packed nodes.                                                             *)

\* Every symbol of a set is in one of its runs.
LEMMA InARun ==
    ASSUME NEW S, S \subseteq Byte, NEW c \in S
    PROVE  \E r \in get_ranges_from_matchset(S) : r[1] <= c /\ c < r[2]
<1> USE WidthAssumption
<1>0. c \in Nat /\ c < Width
  BY DEF Byte
<1> DEFINE After == { k \in Nat : c < k /\ k \notin S }
           Before == { k \in Nat : k <= c /\ c - k - 1 \notin S }
<1>1. Width \in After
  BY <1>0 DEF Byte
<1>2. PICK e \in After : \A k \in After : e <= k
  BY <1>1, Least
<1>3. c \in Before
  BY <1>0 DEF Byte
<1>4. PICK d \in Before : \A k \in Before : d <= k
  BY <1>3, Least
<1>5. c - d \in Byte /\ e \in 1 .. Width
  BY <1>0, <1>1, <1>2 DEF Byte
<1>6. \A x \in c - d .. e - 1 : x \in S
  <2> SUFFICES ASSUME NEW x \in c - d .. e - 1, x \notin S PROVE FALSE
    OBVIOUS
  <2>1. CASE c < x
    <3>1. x \in After
      BY <2>1, <1>0, <1>5
    <3> QED
      BY <3>1, <1>0, <1>2, <1>5
  <2>2. CASE x < c
    <3>1. c - x - 1 \in Nat /\ c - x - 1 <= c /\ c - (c - x - 1) - 1 = x
      BY <2>2, <1>0, <1>5 DEF Byte
    <3>2. c - x - 1 \in Before
      BY <3>1
    <3> QED
      <4>1. d \in Nat /\ d <= c - x - 1
        BY <3>2, <1>4
      <4> QED
        BY <4>1, <1>0
  <2> QED
    BY <2>1, <2>2, <1>0
<1>7. <<c - d, e>> \in get_ranges_from_matchset(S)
  BY <1>0, <1>2, <1>4, <1>5, <1>6 DEF get_ranges_from_matchset
<1> QED
  BY <1>0, <1>2, <1>4, <1>7

\* A set that is one run is that run.
LEMMA OneRun ==
    ASSUME NEW S, S \subseteq Byte, is_range_complete_matchset(S)
    PROVE  /\ TheRange(S) \in Byte \X (1 .. Width)
           /\ \A c \in Byte : c \in S <=> TheRange(S)[1] <= c /\ c < TheRange(S)[2]
<1>1. /\ TheRange(S) \in Byte \X (1 .. Width)
      /\ get_ranges_from_matchset(S) = {TheRange(S)}
  BY DEF is_range_complete_matchset, TheRange
<1> DEFINE r == TheRange(S)
<1>2. \A x \in r[1] .. r[2] - 1 : x \in S
  BY <1>1 DEF get_ranges_from_matchset
<1>3. \A c \in S : r[1] <= c /\ c < r[2]
  BY <1>1, InARun
<1> QED
  BY <1>1, <1>2, <1>3, WidthAssumption DEF Byte

\* The packed range of a set that is one run says which symbols are in it.
LEMMA PackedRun ==
    ASSUME NEW S, S \subseteq Byte, is_range_complete_matchset(S), NEW c \in Byte
    PROVE  c \in S <=> LET range == PackedRange(TheRange(S))
                       IN  range.start <= c /\ c <= range.end
<1> DEFINE r == TheRange(S)
<1>1. r[1] \in 0 .. Width - 1 /\ r[2] \in 1 .. Width
  BY OneRun DEF Byte
<1> HIDE DEF r
<1>2. r[1] % Width = r[1] /\ (r[2] - 1) % Width = r[2] - 1
  BY <1>1, WidthAssumption
<1>3. c \in S <=> r[1] <= c /\ c < r[2]
  BY OneRun DEF r
<1>4. PackedRange(r).start = r[1] /\ PackedRange(r).end = r[2] - 1
  BY <1>2 DEF PackedRange
<1> QED
  BY <1>1, <1>3, <1>4, WidthAssumption DEF Byte, r

\* The kernel's test of a packed node tells for every symbol whether it is in the
\* state's symbol set: the empty set, the full set and runs that end at the last
\* symbol included (utils.cu:758, kernels.h:559-564).
THEOREM PackedTestIsMembership ==
    ASSUME NEW S, S \subseteq Byte, NEW c \in Byte
    PROVE  PackedMatch(PackedNode(S), c) <=> c \in S
<1>1. CASE is_range_complete_matchset(S)
  BY <1>1, PackedRun DEF PackedNode, PackedMatch
<1>2. CASE ~is_range_complete_matchset(S) /\ is_range_complete_matchset(Byte \ S)
  <2>1. c \in Byte \ S <=> LET range == PackedRange(TheRange(Byte \ S))
                             IN  range.start <= c /\ c <= range.end
    BY <1>2, PackedRun
  <2> QED
    BY <1>2, <2>1 DEF PackedNode, PackedMatch
<1>3. CASE ~is_range_complete_matchset(S) /\ ~is_range_complete_matchset(Byte \ S)
  BY <1>3 DEF PackedNode, PackedMatch
<1> QED
  BY <1>1, <1>2, <1>3

-----------------------------------------------------------------------------
(* Networks with clones of their starts.                                     *)

\* How many of S are before s in the order R.
RankBy(S, R, s) == Cardinality({ r \in S : <<r, s>> \in R })

\* In a finite set that is totally ordered each number below its size is the rank of one
\* member.
LEMMA OrderRanks ==
    ASSUME NEW S, IsFiniteSet(S), NEW R,
           \A x \in S : <<x, x>> \notin R,
           \A x, y, z \in S : <<x, y>> \in R /\ <<y, z>> \in R => <<x, z>> \in R,
           \A x, y \in S : x # y => <<x, y>> \in R \/ <<y, x>> \in R
    PROVE  /\ Cardinality(S) \in Nat
           /\ \A s \in S : RankBy(S, R, s) \in 0 .. Cardinality(S) - 1
           /\ \A k \in 0 .. Cardinality(S) - 1 : \E s \in S : RankBy(S, R, s) = k
           /\ \A s, u \in S : RankBy(S, R, s) = RankBy(S, R, u) => s = u
<1> DEFINE Below(s) == { r \in S : <<r, s>> \in R }
           size == Cardinality(S)
           f == [s \in S |-> RankBy(S, R, s)]
<1>0. size \in Nat
  BY FS_CardinalityType
<1>1. \A s : IsFiniteSet(Below(s)) /\ Cardinality(Below(s)) \in Nat
  BY FS_Subset, FS_CardinalityType
<1>9. \A s : RankBy(S, R, s) = Cardinality(Below(s))
  BY DEF RankBy
<1>2. ASSUME NEW s \in S PROVE RankBy(S, R, s) \in 0 .. size - 1
  <2>1. IsFiniteSet(S \ {s}) /\ Cardinality(S \ {s}) = size - 1
    BY FS_RemoveElement
  <2>2. Below(s) \subseteq S \ {s}
    OBVIOUS
  <2> HIDE DEF Below
  <2>3. Cardinality(Below(s)) <= Cardinality(S \ {s})
    BY <2>1, <2>2, FS_Subset
  <2>4. Cardinality(Below(s)) \in Nat
    BY <1>1
  <2> HIDE DEF size
  <2> QED
    BY <1>0, <1>9, <2>1, <2>3, <2>4
<1>3. ASSUME NEW s \in S, NEW u \in S, <<s, u>> \in R PROVE RankBy(S, R, s) < RankBy(S, R, u)
  <2>1. /\ IsFiniteSet(Below(s) \cup {s})
        /\ Cardinality(Below(s) \cup {s}) = Cardinality(Below(s)) + 1
    <3>1. s \notin Below(s)
      OBVIOUS
    <3> HIDE DEF Below
    <3> QED
      BY <1>1, <3>1, FS_AddElement
  <2>2. Below(s) \cup {s} \subseteq Below(u)
    BY <1>3
  <2>3. Cardinality(Below(s) \cup {s}) <= Cardinality(Below(u))
    <3> HIDE DEF Below
    <3> QED
      BY <1>1, <2>2, FS_Subset
  <2> QED
    <3> HIDE DEF Below
    <3> QED
      BY <1>1, <1>9, <2>1, <2>3
<1>4. \A s, u \in S : RankBy(S, R, s) = RankBy(S, R, u) => s = u
  <2> SUFFICES ASSUME NEW s \in S, NEW u \in S, RankBy(S, R, s) = RankBy(S, R, u), s # u
               PROVE  FALSE
    OBVIOUS
  <2>1. RankBy(S, R, s) \in Int /\ RankBy(S, R, u) \in Int
    BY <1>2
  <2>2. CASE <<s, u>> \in R
    BY <1>3, <2>1, <2>2
  <2>3. CASE <<u, s>> \in R
    BY <1>3, <2>1, <2>3
  <2> QED
    BY <2>2, <2>3
<1>5. f \in Injection(S, 0 .. size - 1)
  BY <1>2, <1>4 DEF Injection, IsInjective
<1>6. IsFiniteSet(0 .. size - 1) /\ Cardinality(0 .. size - 1) = size
  <2> HIDE DEF size
  <2>1. 0 \in Int /\ size - 1 \in Int /\ (0 > size - 1 => size = 0)
    BY <1>0
  <2> QED
    BY <1>0, <2>1, FS_Interval
<1>7. f \in Surjection(S, 0 .. size - 1)
  <2> HIDE DEF f, size
  <2> QED
    BY <1>5, <1>6, FS_Injection DEF size
<1>8. \A k \in 0 .. size - 1 : \E s \in S : RankBy(S, R, s) = k
  BY <1>7 DEF Surjection
<1> QED
  BY <1>0, <1>2, <1>4, <1>8

\* How many of S are before s.
Rank(S, s) == Cardinality({ r \in S : r < s })

\* So it is in a set of numbers.
LEMMA Ranks ==
    ASSUME NEW S \in SUBSET Nat, IsFiniteSet(S)
    PROVE  /\ Cardinality(S) \in Nat
           /\ \A s \in S : Rank(S, s) \in 0 .. Cardinality(S) - 1
           /\ \A k \in 0 .. Cardinality(S) - 1 : \E s \in S : Rank(S, s) = k
           /\ \A s, u \in S : Rank(S, s) = Rank(S, u) => s = u
<1> DEFINE R == { p \in S \X S : p[1] < p[2] }
<1>1. \A x, y \in S : <<x, y>> \in R <=> x < y
  OBVIOUS
<1>2. \A s \in S : { r \in S : <<r, s>> \in R } = { r \in S : r < s }
  BY <1>1
<1>3. \A s \in S : RankBy(S, R, s) = Rank(S, s)
  BY <1>2 DEF RankBy, Rank
<1> HIDE DEF R
<1>4. \A x \in S : x \in Nat
  OBVIOUS
<1>5. \A x, y, z \in S : <<x, y>> \in R /\ <<y, z>> \in R => <<x, z>> \in R
  BY <1>1, <1>4
<1>6. \A x, y \in S : x # y => <<x, y>> \in R \/ <<y, x>> \in R
  BY <1>1, <1>4
<1>7. \A x \in S : <<x, x>> \notin R
  BY <1>1, <1>4
<1>8. /\ Cardinality(S) \in Nat
      /\ \A s \in S : RankBy(S, R, s) \in 0 .. Cardinality(S) - 1
      /\ \A k \in 0 .. Cardinality(S) - 1 : \E s \in S : RankBy(S, R, s) = k
      /\ \A s, u \in S : RankBy(S, R, s) = RankBy(S, R, u) => s = u
  BY <1>5, <1>6, <1>7, OrderRanks
<1> QED
  BY <1>3, <1>8

\* The start a clone stands in for.
StandsFor(n, c) == CHOOSE s \in n.start : Rank(n.start, s) = c - n.size

\* Every clone stands in for one start, and every start has its clone.
LEMMA ClonesFacts ==
    ASSUME NEW n, n.size \in Nat, n.start \subseteq Sids(n), n.always \subseteq n.start
    PROVE  /\ Cloned(n).size \in Nat /\ Cloned(n).start = n.size .. Cloned(n).size - 1
           /\ n.size <= Cloned(n).size
           /\ \A c \in Cloned(n).start : StandsFor(n, c) \in n.start
           /\ \A s \in n.start : \E c \in Cloned(n).start : StandsFor(n, c) = s
<1> DEFINE size == Cardinality(n.start)
<1>1. n.start \in SUBSET Nat /\ IsFiniteSet(n.start)
  <2>1. IsFiniteSet(0 .. n.size - 1)
    BY FS_Interval
  <2>2. n.start \subseteq 0 .. n.size - 1
    BY DEF Sids
  <2> QED
    BY <2>1, <2>2, FS_Subset
<1>2. /\ size \in Nat
      /\ \A s \in n.start : Rank(n.start, s) \in 0 .. size - 1
      /\ \A k \in 0 .. size - 1 : \E s \in n.start : Rank(n.start, s) = k
      /\ \A s, u \in n.start : Rank(n.start, s) = Rank(n.start, u) => s = u
  BY <1>1, Ranks
<1>3. /\ Cloned(n).size = n.size + size
      /\ Cloned(n).start = n.size .. Cloned(n).size - 1
  BY DEF Cloned
<1>4. ASSUME NEW c \in Cloned(n).start
      PROVE  StandsFor(n, c) \in n.start /\ Rank(n.start, StandsFor(n, c)) = c - n.size
  <2>1. c - n.size \in 0 .. size - 1
    BY <1>2, <1>3
  <2>2. \E s \in n.start : Rank(n.start, s) = c - n.size
    BY <1>2, <2>1
  <2> QED
    BY <2>2 DEF StandsFor
<1>5. ASSUME NEW s \in n.start PROVE \E c \in Cloned(n).start : StandsFor(n, c) = s
  <2> DEFINE k == Rank(n.start, s)
             c == n.size + k
  <2>1. k \in 0 .. size - 1
    BY <1>2
  <2>2. c \in Cloned(n).start /\ c - n.size = k
    BY <1>2, <1>3, <2>1
  <2> HIDE DEF c, k
  <2>3. StandsFor(n, c) \in n.start /\ Rank(n.start, StandsFor(n, c)) = Rank(n.start, s)
    BY <1>4, <2>2 DEF k
  <2> QED
    BY <1>2, <2>2, <2>3
<1> HIDE DEF size
<1> QED
  BY <1>2, <1>3, <1>4, <1>5

\* What a network has in common with the one that has clones for its starts.
HasClones(m, n) ==
    /\ n.size \in Nat /\ m.size \in Nat /\ n.size <= m.size
    /\ m.start = n.size .. m.size - 1 /\ m.always \subseteq m.start
    /\ n.start \subseteq Sids(n) /\ n.always \subseteq n.start
    /\ m.report = n.report /\ n.report \subseteq Sids(n)
    /\ \A s \in Sids(n) : /\ n.edges[s] \subseteq Sids(n) /\ m.edges[s] = n.edges[s]
                          /\ m.symbol_set[s] = n.symbol_set[s]
                          /\ m.original_id[s] = n.original_id[s]
    /\ \A c \in m.start : \E s \in n.start : m.edges[c] = {s} /\ (c \in m.always <=> s \in n.always)
    /\ \A s \in n.start : \E c \in m.start : m.edges[c] = {s} /\ (c \in m.always <=> s \in n.always)

\* That is what Cloned makes of a network.
LEMMA ClonedHasClones ==
    ASSUME NEW n, n.size \in Nat, n.start \subseteq Sids(n), n.always \subseteq n.start,
           n.report \subseteq Sids(n), \A s \in Sids(n) : n.edges[s] \subseteq Sids(n)
    PROVE  HasClones(Cloned(n), n)
<1> DEFINE m == Cloned(n)
<1>1. /\ m.size \in Nat /\ m.start = n.size .. m.size - 1 /\ n.size <= m.size
      /\ \A c \in m.start : StandsFor(n, c) \in n.start
      /\ \A s \in n.start : \E c \in m.start : StandsFor(n, c) = s
  BY ClonesFacts
<1>2. /\ m.report = n.report
      /\ m.edges = [s \in 0 .. m.size - 1 |-> IF s < n.size THEN n.edges[s] ELSE {StandsFor(n, s)}]
      /\ m.symbol_set = [s \in 0 .. m.size - 1 |->
                            n.symbol_set[IF s < n.size THEN s ELSE StandsFor(n, s)]]
      /\ m.original_id = [s \in 0 .. m.size - 1 |->
                            n.original_id[IF s < n.size THEN s ELSE StandsFor(n, s)]]
      /\ m.always = { c \in m.start : StandsFor(n, c) \in n.always }
  BY DEF Cloned, StandsFor, Rank
<1> HIDE DEF m
<1>3. \A s \in Sids(n) : /\ m.edges[s] = n.edges[s] /\ m.symbol_set[s] = n.symbol_set[s]
                         /\ m.original_id[s] = n.original_id[s]
  <2> SUFFICES ASSUME NEW s \in Sids(n)
               PROVE  /\ m.edges[s] = n.edges[s] /\ m.symbol_set[s] = n.symbol_set[s]
                      /\ m.original_id[s] = n.original_id[s]
    OBVIOUS
  <2>1. s \in 0 .. m.size - 1 /\ s < n.size
    BY <1>1 DEF Sids
  <2> QED
    BY <1>2, <2>1
<1>4. \A c \in m.start : m.edges[c] = {StandsFor(n, c)} /\ (c \in m.always <=> StandsFor(n, c) \in n.always)
  <2> SUFFICES ASSUME NEW c \in m.start
               PROVE  m.edges[c] = {StandsFor(n, c)} /\ (c \in m.always <=> StandsFor(n, c) \in n.always)
    OBVIOUS
  <2>1. c \in 0 .. m.size - 1 /\ ~(c < n.size)
    BY <1>1
  <2> QED
    BY <1>2, <2>1
<1>5. m.always \subseteq m.start
  BY <1>2
<1>6. /\ \A c \in m.start : \E s \in n.start : m.edges[c] = {s} /\ (c \in m.always <=> s \in n.always)
      /\ \A s \in n.start : \E c \in m.start : m.edges[c] = {s} /\ (c \in m.always <=> s \in n.always)
  BY <1>1, <1>4
<1>7. HasClones(m, n)
  BY <1>1, <1>2, <1>3, <1>5, <1>6 DEF HasClones
<1> QED
  BY <1>7 DEF m

\* The clones enable the starts.
LEMMA ClonesEnable ==
    ASSUME NEW m, NEW n, HasClones(m, n)
    PROVE  Successors(m, m.start) = n.start
<1>1. ASSUME NEW c \in m.start PROVE m.edges[c] \subseteq n.start
  BY <1>1 DEF HasClones
<1>2. ASSUME NEW s \in n.start PROVE \E c \in m.start : s \in m.edges[c]
  <2>1. PICK c \in m.start : m.edges[c] = {s}
    BY <1>2 DEF HasClones
  <2> QED
    BY <2>1
<1> QED
  BY <1>1, <1>2 DEF Successors

\* What a symbol does to the states the active ones enable, with the clones of
\* all-input starts among them, is what it does to these states of the network
\* without clones.
LEMMA ClonesStep ==
    ASSUME NEW m, NEW n, HasClones(m, n), NEW A, A \subseteq Sids(m), m.always \subseteq A,
           NEW c, NEW W, W = Activated(m, Successors(m, A), c) \cup (A \cap m.always)
    PROVE  /\ Successors(m, W) = NextEnabled(n, Successors(m, A), c)
           /\ W \cap m.report = Reporting(n, Successors(m, A), c)
<1> DEFINE S == Successors(m, A)
           M == Activated(m, S, c)
<1>1. S \subseteq Sids(n)
  <2>1. ASSUME NEW a \in A PROVE m.edges[a] \subseteq Sids(n)
    <3>1. CASE a \in Sids(n)
      BY <3>1 DEF HasClones
    <3>2. CASE a \notin Sids(n)
      <4>1. a \in m.start
        BY <3>2 DEF HasClones, Sids
      <4> QED
        BY <4>1 DEF HasClones
    <3> QED
      BY <3>1, <3>2
  <2> QED
    BY <2>1 DEF Successors
<1>2. M = Activated(n, S, c) /\ M \subseteq Sids(n)
  BY <1>1 DEF HasClones, Activated, match2
<1>3. A \cap m.always = m.always
  OBVIOUS
<1> HIDE DEF S, M
<1>4. Successors(m, M) = Successors(n, M)
  <2>1. ASSUME NEW s \in M PROVE m.edges[s] = n.edges[s]
    <3>1. s \in Sids(n)
      BY <1>2, <2>1
    <3> QED
      BY <3>1 DEF HasClones
  <2> QED
    BY <2>1 DEF Successors
<1>5. Successors(m, m.always) = n.always
  <2>1. ASSUME NEW c1 \in m.always PROVE m.edges[c1] \subseteq n.always
    BY <2>1 DEF HasClones
  <2>2. ASSUME NEW s \in n.always PROVE \E c1 \in m.always : s \in m.edges[c1]
    <3>1. s \in n.start
      BY DEF HasClones
    <3>2. PICK c1 \in m.start : m.edges[c1] = {s} /\ (c1 \in m.always <=> s \in n.always)
      BY <3>1 DEF HasClones
    <3> QED
      BY <3>2
  <2> QED
    BY <2>1, <2>2 DEF Successors
<1>6. m.always \cap m.report = {}
  BY DEF HasClones, Sids
<1>7. Successors(m, M \cup m.always) = Successors(m, M) \cup Successors(m, m.always)
  BY DEF Successors
<1>8. Successors(m, M \cup m.always) = NextEnabled(n, S, c)
  BY <1>2, <1>4, <1>5, <1>7 DEF NextEnabled
<1>9. (M \cup m.always) \cap m.report = Reporting(n, S, c)
  BY <1>2, <1>6 DEF Reporting, HasClones
<1> QED
  BY <1>3, <1>8, <1>9 DEF S, M
\* Copies have only their originals, if every state has one.
LEMMA OriginalsOfCopies ==
    ASSUME NEW m, NEW n, NEW base, HasAllCopies(m, n, base), NEW S, S \subseteq Sids(n)
    PROVE  OriginalsOf(base, Copies(base, S)) = S
<1>1. \A u \in S : \E v \in DOMAIN base : base[v] = u
  BY DEF HasAllCopies
<1> QED
  BY <1>1 DEF OriginalsOf, Copies

\* All copies of a state are among A, or none.
Whole(base, A) == A = Copies(base, OriginalsOf(base, A))

\* Only states follow the states of a network with clones.
LEMMA ClonesSuccessors ==
    ASSUME NEW m, NEW n, HasClones(m, n), NEW A, A \subseteq Sids(m)
    PROVE  Successors(m, A) \subseteq Sids(n) /\ Sids(n) \subseteq Sids(m)
<1>1. ASSUME NEW a \in A PROVE m.edges[a] \subseteq Sids(n)
  <2>1. CASE a \in Sids(n)
    BY <2>1 DEF HasClones
  <2>2. CASE a \notin Sids(n)
    <3>1. a \in m.start
      BY <2>2 DEF HasClones, Sids
    <3> QED
      BY <3>1 DEF HasClones
  <2> QED
    BY <2>1, <2>2
<1> QED
  BY <1>1 DEF Successors, HasClones, Sids

\* The starts of a network with clones that was split are whole, and enable the starts
\* of the network without.
LEMMA WholeStarts ==
    ASSUME NEW m, NEW f, NEW n, NEW base, HasClones(f, n), DOMAIN f.edges = Sids(f),
           HasAllCopies(m, f, base)
    PROVE  Whole(base, m.start) /\ OriginalsOf(base, Successors(m, m.start)) = n.start
<1>1. m.start = Copies(base, f.start) /\ IsCopyOf(m, f, base)
  BY DEF HasAllCopies, IsCopyOf, SameAttributes
<1>2. f.start \subseteq Sids(f)
  BY DEF HasClones, Sids
<1>3. OriginalsOf(base, m.start) = f.start
  BY <1>1, <1>2, OriginalsOfCopies, Zenon
<1>4. Successors(m, m.start) = Copies(base, Successors(f, f.start))
  <2>1. f.start \subseteq DOMAIN f.edges
    BY <1>2
  <2> QED
    BY <1>1, <2>1, CopiesEnabled
<1>5. Successors(f, f.start) = n.start
  BY ClonesEnable
<1>6. Successors(f, f.start) \subseteq Sids(f)
  BY <1>2, ClonesSuccessors
<1>7. OriginalsOf(base, Copies(base, Successors(f, f.start))) = Successors(f, f.start)
  BY <1>6, OriginalsOfCopies
<1> QED
  BY <1>1, <1>3, <1>4, <1>5, <1>7 DEF Whole

\* ClonesStep for a network that was split after the clones were added: the originals
\* of what its active states enable move as in the network without clones, and a state
\* is active, and reports, in all its copies.
LEMMA WholeStep ==
    ASSUME NEW m, NEW f, NEW n, NEW base, HasClones(f, n), DOMAIN f.edges = Sids(f),
           HasAllCopies(m, f, base), NEW A, A \subseteq DOMAIN base, Whole(base, A),
           m.always \subseteq A,
           NEW c, NEW W, W = Activated(m, Successors(m, A), c) \cup (A \cap m.always)
    PROVE  /\ Whole(base, W) /\ Whole(base, W \cap m.report)
           /\ OriginalsOf(base, Successors(m, W))
                 = NextEnabled(n, OriginalsOf(base, Successors(m, A)), c)
           /\ OriginalsOf(base, W \cap m.report)
                 = Reporting(n, OriginalsOf(base, Successors(m, A)), c)
<1> DEFINE B == OriginalsOf(base, A)
           S == Successors(f, B)
           V == Activated(f, S, c) \cup (B \cap f.always)
<1>1. /\ IsCopyOf(m, f, base) /\ m.always = Copies(base, f.always)
      /\ m.report = Copies(base, f.report)
      /\ \A v \in DOMAIN base : base[v] \in Sids(f)
      /\ \A u \in Sids(f) : \E v \in DOMAIN base : base[v] = u
  BY DEF HasAllCopies, IsCopyOf, SameAttributes
<1>2. A = Copies(base, B) /\ B \subseteq Sids(f)
  BY <1>1 DEF Whole, OriginalsOf
<1>3. f.always \subseteq B
  <2> SUFFICES ASSUME NEW u \in f.always PROVE u \in B
    OBVIOUS
  <2>1. u \in Sids(f)
    BY DEF HasClones, Sids
  <2>2. PICK v \in DOMAIN base : base[v] = u
    BY <1>1, <2>1
  <2>3. v \in A
    BY <1>1, <2>2 DEF Copies
  <2> QED
    BY <2>2, <2>3 DEF OriginalsOf
<1> HIDE DEF B
<1>4. Successors(m, A) = Copies(base, S)
  BY <1>1, <1>2, CopiesEnabled
<1>5. S \subseteq Sids(f)
  BY <1>2, ClonesSuccessors
<1>6. OriginalsOf(base, Successors(m, A)) = S
  <2> HIDE DEF S
  <2> QED
    BY <1>4, <1>5, OriginalsOfCopies
<1>7. W = Copies(base, V)
  <2>1. Activated(m, Copies(base, S), c) = Copies(base, Activated(f, S, c))
    <3> HIDE DEF S
    <3> QED
      BY <1>1, CopiesActivated
  <2>2. A \cap m.always = Copies(base, B \cap f.always)
    BY <1>1, <1>2 DEF Copies
  <2>3. Copies(base, V) = Copies(base, Activated(f, S, c)) \cup Copies(base, B \cap f.always)
    <3> HIDE DEF S
    <3> QED
      BY DEF Copies
  <2> QED
    BY <1>4, <2>1, <2>2, <2>3
<1>8. /\ Successors(f, V) = NextEnabled(n, S, c)
      /\ V \cap f.report = Reporting(n, S, c)
  BY <1>2, <1>3, ClonesStep
<1>9. V \subseteq Sids(f) /\ V \cap f.report \subseteq Sids(f)
  <2> HIDE DEF S
  <2> QED
    BY <1>2, <1>5 DEF Activated
<1> HIDE DEF V, S
<1>10. OriginalsOf(base, W) = V
  BY <1>7, <1>9, OriginalsOfCopies
<1>11. W \cap m.report = Copies(base, V \cap f.report)
  BY <1>1, <1>7 DEF Copies
<1>12. OriginalsOf(base, W \cap m.report) = V \cap f.report
  BY <1>9, <1>11, OriginalsOfCopies
<1>13. OriginalsOf(base, Successors(m, W)) = Successors(f, V)
  <2>1. Successors(m, W) = Copies(base, Successors(f, V))
    BY <1>1, <1>7, <1>9, CopiesEnabled
  <2>2. Successors(f, V) \subseteq Sids(f)
    BY <1>9, ClonesSuccessors
  <2> HIDE DEF V
  <2> QED
    BY <2>1, <2>2, OriginalsOfCopies
<1> QED
  BY <1>6, <1>7, <1>8, <1>10, <1>11, <1>12, <1>13 DEF Whole
=============================================================================
