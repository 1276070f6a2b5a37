---------------------- MODULE NetworkPreparationProofs ----------------------
(***************************************************************************)
(* The networks that preparation makes, for every network read, limit and   *)
(* size of a block: they are sound graphs, made of copies of the states     *)
(* read; they fit in their blocks; each component is packed once or         *)
(* deleted; and on inputs of any length they report what the network read   *)
(* does, but for the states of deleted components.                          *)
(***************************************************************************)
EXTENDS NetworkPreparation, NetworkProofs, SequenceTheorems

\* String ids, and graphs whatever their edges.
Name  == Seq(Nat)
Pools == UNION { [D -> Name] : D \in SUBSET Nat }
Lists == UNION { [D -> Seq(Name)] : D \in SUBSET Name }
Graph == [V : Nat, node_pool : Pools, adj : Lists, from_node : Lists]

Out(g, a) == ToSet(get_adj(g, a))
In(g, a)  == ToSet(get_from(g, a))
Keys(g)   == DOMAIN g.adj \cup DOMAIN g.from_node

\* An edge is in both of its lists, and once.
Listed(g) ==
    /\ g \in Graph
    /\ \A a \in Name : IsInjective(get_adj(g, a)) /\ IsInjective(get_from(g, a))
    /\ \A a, b \in Name : b \in Out(g, a) <=> a \in In(g, b)

-----------------------------------------------------------------------------
(* Lists and maps.                                                           *)

\* What a sequence has.
LEMMA ListHas ==
    ASSUME NEW T, NEW list \in Seq(T)
    PROVE  /\ Len(list) \in Nat /\ DOMAIN list = 1 .. Len(list)
           /\ \A i \in 1 .. Len(list) : list[i] \in T
           /\ ToSet(list) = { list[i] : i \in 1 .. Len(list) }
           /\ ToSet(list) \subseteq T
           /\ \A x : Contains(list, x) <=> x \in ToSet(list)
<1>1. Len(list) \in Nat /\ DOMAIN list = 1 .. Len(list) /\ list \in [1 .. Len(list) -> T]
  BY LenProperties
<1>2. \A i \in 1 .. Len(list) : list[i] \in T
  BY <1>1
<1>3. ToSet(list) = { list[i] : i \in 1 .. Len(list) }
  BY <1>1 DEF ToSet
<1>4. \A x : Contains(list, x) <=> x \in ToSet(list)
  BY <1>3 DEF Contains
<1> QED
  BY <1>1, <1>2, <1>3, <1>4

\* The empty one.
LEMMA EmptyHas == \A T : <<>> \in Seq(T) /\ Len(<<>>) = 0 /\ DOMAIN <<>> = {} /\ ToSet(<<>>) = {}
<1>1. \A T : <<>> \in Seq(T) /\ Len(<<>>) = 0
  BY EmptySeq
<1>2. DOMAIN <<>> = {}
  <2>1. DOMAIN <<>> = 1 .. Len(<<>>)
    BY <1>1, LenProperties
  <2> QED
    BY <1>1, <2>1
<1> QED
  BY <1>1, <1>2 DEF ToSet

\* addEdge puts an element at the end, if the list does not have it.
LEMMA WithLastHas ==
    ASSUME NEW T, NEW list \in Seq(T), IsInjective(list), NEW x \in T
    PROVE  /\ WithLast(list, x) \in Seq(T) /\ IsInjective(WithLast(list, x))
           /\ ToSet(WithLast(list, x)) = ToSet(list) \cup {x}
<1>1. /\ Len(list) \in Nat /\ DOMAIN list = 1 .. Len(list)
      /\ \A y : Contains(list, y) <=> y \in ToSet(list)
      /\ ToSet(list) = { list[i] : i \in 1 .. Len(list) }
  BY ListHas
<1>2. CASE x \in ToSet(list)
  <2>1. WithLast(list, x) = list
    BY <1>1, <1>2 DEF WithLast
  <2> QED
    BY <1>2, <2>1
<1>3. CASE x \notin ToSet(list)
  <2> DEFINE l == Append(list, x)
             n == Len(list)
  <2>1. WithLast(list, x) = l
    BY <1>1, <1>3 DEF WithLast
  <2>2. l \in Seq(T) /\ Len(l) = n + 1 /\ l[n + 1] = x /\ \A i \in 1 .. n : l[i] = list[i]
    BY <1>1
  <2> HIDE DEF l
  <2>3. ToSet(l) = { l[i] : i \in 1 .. Len(l) } /\ DOMAIN l = 1 .. Len(l)
    BY <2>2, ListHas
  <2>4. ToSet(l) = ToSet(list) \cup {x}
    BY <1>1, <2>2, <2>3
  <2>5. IsInjective(l)
    <3> SUFFICES ASSUME NEW i \in 1 .. n + 1, NEW k \in 1 .. n + 1, l[i] = l[k] PROVE i = k
      BY <2>2, <2>3 DEF IsInjective
    <3>1. \A j \in 1 .. n : l[j] \in ToSet(list) /\ l[j] = list[j]
      BY <1>1, <2>2
    <3>2. CASE i \in 1 .. n /\ k \in 1 .. n
      <4>1. list[i] = list[k]
        BY <3>1, <3>2
      <4> QED
        BY <1>1, <3>2, <4>1 DEF IsInjective
    <3>3. CASE i = n + 1 \/ k = n + 1
      BY <1>1, <1>3, <2>2, <3>1, <3>3
    <3> QED
      BY <1>1, <3>2, <3>3
  <2> QED
    BY <2>1, <2>2, <2>4, <2>5
<1> QED
  BY <1>2, <1>3

\* remove_node_unsafe erases an element that a list has once.
LEMMA RemoveFirstHas ==
    ASSUME NEW T, NEW list \in Seq(T), IsInjective(list), NEW x
    PROVE  /\ RemoveFirst(list, x) \in Seq(T) /\ IsInjective(RemoveFirst(list, x))
           /\ ToSet(RemoveFirst(list, x)) = ToSet(list) \ {x}
           /\ Len(RemoveFirst(list, x)) = Len(list) - IF x \in ToSet(list) THEN 1 ELSE 0
<1> DEFINE n == Len(list)
           At == { i \in 1 .. n : list[i] = x }
<1>1. /\ n \in Nat /\ DOMAIN list = 1 .. n
      /\ \A i \in 1 .. n : list[i] \in T
      /\ ToSet(list) = { list[i] : i \in 1 .. n }
  BY ListHas
<1>2. x \in ToSet(list) <=> At # {}
  BY <1>1
<1>3. CASE x \notin ToSet(list)
  <2>1. RemoveFirst(list, x) = list
    BY <1>2, <1>3 DEF RemoveFirst
  <2> QED
    BY <1>1, <1>3, <2>1
<1>4. CASE x \in ToSet(list)
  <2> DEFINE j == Min(At)
             a == SubSeq(list, 1, j - 1)
             b == SubSeq(list, j + 1, n)
             l == a \o b
  <2>1. RemoveFirst(list, x) = l
    BY <1>2, <1>4 DEF RemoveFirst, RemoveAt, SelectInSeq
  <2>2. j \in 1 .. n /\ list[j] = x
    <3>0. At \subseteq Nat /\ At # {}
      BY <1>1, <1>2, <1>4
    <3>1. \E m \in At : \A k \in At : m <= k
      <4> HIDE DEF At
      <4> QED
        BY <3>0, Least
    <3>2. j \in At
      BY <3>1 DEF Min
    <3> QED
      BY <3>2
  <2> HIDE DEF j
  <2>3. a \in Seq(T) /\ Len(a) = j - 1 /\ \A i \in 1 .. j - 1 : a[i] = list[i]
    <3>1. \A i \in 1 .. j - 1 : list[i] \in T
      BY <1>1, <2>2
    <3>2. /\ a \in Seq(T) /\ Len(a) = IF 1 <= j - 1 THEN (j - 1) - 1 + 1 ELSE 0
          /\ \A i \in 1 .. (j - 1) - 1 + 1 : a[i] = list[1 + i - 1]
      BY <2>2, <3>1, SubSeqProperties
    <3> QED
      BY <1>1, <2>2, <3>2
  <2>4. b \in Seq(T) /\ Len(b) = n - j /\ \A i \in 1 .. n - j : b[i] = list[i + j]
    <3>1. \A i \in j + 1 .. n : list[i] \in T
      BY <1>1, <2>2
    <3>2. /\ b \in Seq(T) /\ Len(b) = IF j + 1 <= n THEN n - (j + 1) + 1 ELSE 0
          /\ \A i \in 1 .. n - (j + 1) + 1 : b[i] = list[(j + 1) + i - 1]
      BY <1>1, <2>2, <3>1, SubSeqProperties
    <3> HIDE DEF n, b
    <3>3. n - (j + 1) + 1 = n - j /\ (~(j + 1 <= n) => n - j = 0)
      BY <1>1, <2>2
    <3>4. Len(b) = n - j
      BY <3>2, <3>3
    <3>5. \A i \in 1 .. n - j : (j + 1) + i - 1 = i + j
      BY <1>1, <2>2
    <3> QED
      BY <3>2, <3>3, <3>4, <3>5
  <2> HIDE DEF a, b
  <2>5. /\ l \in Seq(T) /\ Len(l) = n - 1
        /\ \A i \in 1 .. n - 1 : l[i] = list[IF i < j THEN i ELSE i + 1]
    <3>1. /\ l \in Seq(T) /\ Len(l) = Len(a) + Len(b)
          /\ \A i \in 1 .. Len(a) + Len(b) : l[i] = IF i <= Len(a) THEN a[i] ELSE b[i - Len(a)]
      BY <2>3, <2>4, ConcatProperties
    <3>2. Len(a) + Len(b) = n - 1
      BY <1>1, <2>2, <2>3, <2>4
    <3>3. ASSUME NEW i \in 1 .. n - 1 PROVE l[i] = list[IF i < j THEN i ELSE i + 1]
      <4>1. CASE i < j
        BY <1>1, <2>2, <2>3, <3>1, <3>2, <4>1
      <4>2. CASE ~(i < j)
        <5>1. i - (j - 1) \in 1 .. n - j /\ i - (j - 1) + j = i + 1
          BY <1>1, <2>2, <4>2
        <5>2. l[i] = b[i - (j - 1)]
          BY <1>1, <2>2, <2>3, <3>1, <3>2, <4>2
        <5>3. b[i - (j - 1)] = list[i + 1]
          BY <2>4, <5>1
        <5> QED
          BY <4>2, <5>2, <5>3
      <4> QED
        BY <4>1, <4>2
    <3> QED
      BY <3>1, <3>2, <3>3
  <2> HIDE DEF l
  <2>6. DOMAIN l = 1 .. n - 1 /\ ToSet(l) = { l[i] : i \in 1 .. n - 1 }
    BY <2>5, ListHas
  <2>7. \A i, k \in 1 .. n : list[i] = list[k] => i = k
    BY <1>1 DEF IsInjective
  <2>8. \A i \in 1 .. n - 1 : (IF i < j THEN i ELSE i + 1) \in (1 .. n) \ {j}
    BY <1>1, <2>2
  <2>9. IsInjective(l)
    <3> SUFFICES ASSUME NEW i \in 1 .. n - 1, NEW k \in 1 .. n - 1, l[i] = l[k] PROVE i = k
      BY <2>6 DEF IsInjective
    <3>1. (IF i < j THEN i ELSE i + 1) = (IF k < j THEN k ELSE k + 1)
      BY <2>5, <2>7, <2>8
    <3> QED
      BY <1>1, <2>2, <3>1
  <2>10. ToSet(l) = ToSet(list) \ {x}
    <3>1. ASSUME NEW y \in ToSet(l) PROVE y \in ToSet(list) /\ y # x
      <4>1. PICK i \in 1 .. n - 1 : y = l[i]
        BY <2>6, <3>1
      <4>2. PICK k \in (1 .. n) \ {j} : y = list[k]
        BY <2>5, <2>8, <4>1
      <4> QED
        BY <1>1, <2>2, <2>7, <4>2
    <3>2. ASSUME NEW y \in ToSet(list), y # x PROVE y \in ToSet(l)
      <4>1. PICK k \in 1 .. n : y = list[k]
        BY <1>1, <3>2
      <4>2. k # j
        BY <2>2, <3>2, <4>1
      <4>3. CASE k < j
        <5>1. k \in 1 .. n - 1 /\ l[k] = y
          BY <1>1, <2>2, <2>5, <4>1, <4>3
        <5> QED
          BY <2>6, <5>1
      <4>4. CASE k > j
        <5>1. k - 1 \in 1 .. n - 1 /\ ~(k - 1 < j) /\ (k - 1) + 1 = k
          BY <1>1, <2>2, <4>4
        <5>2. l[k - 1] = y
          BY <2>5, <4>1, <5>1
        <5> QED
          BY <2>6, <5>1, <5>2
      <4> QED
        BY <1>1, <2>2, <4>2, <4>3, <4>4
    <3> QED
      BY <3>1, <3>2
  <2> QED
    BY <1>1, <1>4, <2>1, <2>5, <2>9, <2>10
<1> QED
  BY <1>3, <1>4

\* Two sequences have together what each has.
LEMMA BothHave ==
    ASSUME NEW T, NEW l1 \in Seq(T), NEW l2 \in Seq(T)
    PROVE  l1 \o l2 \in Seq(T) /\ ToSet(l1 \o l2) = ToSet(l1) \cup ToSet(l2)
<1> DEFINE l == l1 \o l2
           n1 == Len(l1)
           n2 == Len(l2)
<1>1. /\ l \in Seq(T) /\ Len(l) = n1 + n2
      /\ \A i \in 1 .. n1 + n2 : l[i] = IF i <= n1 THEN l1[i] ELSE l2[i - n1]
  BY ConcatProperties
<1>2. /\ n1 \in Nat /\ n2 \in Nat
      /\ ToSet(l1) = { l1[i] : i \in 1 .. n1 } /\ ToSet(l2) = { l2[i] : i \in 1 .. n2 }
  BY ListHas
<1> HIDE DEF l
<1>3. ToSet(l) = { l[i] : i \in 1 .. n1 + n2 }
  BY <1>1, ListHas
<1> HIDE DEF n1, n2
<1>4. ASSUME NEW y \in ToSet(l) PROVE y \in ToSet(l1) \cup ToSet(l2)
  <2>1. PICK i \in 1 .. n1 + n2 : y = l[i]
    BY <1>3, <1>4
  <2>2. CASE i <= n1
    BY <1>1, <1>2, <2>1, <2>2
  <2>3. CASE ~(i <= n1)
    <3>1. i - n1 \in 1 .. n2 /\ y = l2[i - n1]
      BY <1>1, <1>2, <2>1, <2>3
    <3> QED
      BY <1>2, <3>1
  <2> QED
    BY <2>2, <2>3
<1>5. ASSUME NEW y \in ToSet(l1) PROVE y \in ToSet(l)
  <2>1. PICK i \in 1 .. n1 : y = l1[i]
    BY <1>2, <1>5
  <2>2. i \in 1 .. n1 + n2 /\ l[i] = y
    BY <1>1, <1>2, <2>1
  <2> QED
    BY <1>3, <2>2
<1>6. ASSUME NEW y \in ToSet(l2) PROVE y \in ToSet(l)
  <2>1. PICK i \in 1 .. n2 : y = l2[i]
    BY <1>2, <1>6
  <2>2. i + n1 \in 1 .. n1 + n2 /\ ~(i + n1 <= n1) /\ (i + n1) - n1 = i
    BY <1>2
  <2>3. l[i + n1] = y
    BY <1>1, <2>1, <2>2
  <2> QED
    BY <1>3, <2>2, <2>3
<1>7. ToSet(l) = ToSet(l1) \cup ToSet(l2)
  BY <1>4, <1>5, <1>6
<1> QED
  BY <1>1, <1>7 DEF l

\* A sequence given by a function of its places.
Places(f, n, T) == n \in Nat /\ f \in [1 .. n -> T]

\* It is a sequence, and has what the function gives.
LEMMA PlacesHave ==
    ASSUME NEW T, NEW n, NEW f, Places(f, n, T)
    PROVE  f \in Seq(T) /\ Len(f) = n /\ ToSet(f) = { f[i] : i \in 1 .. n }
<1> USE DEF Places
<1>1. f \in Seq(T)
  BY SeqDef
<1>2. DOMAIN f = 1 .. Len(f) /\ Len(f) \in Nat /\ DOMAIN f = 1 .. n
  BY <1>1, LenProperties
<1>3. Len(f) = n
  BY <1>2
<1> QED
  BY <1>1, <1>2, <1>3 DEF ToSet

-----------------------------------------------------------------------------
(* Loops.                                                                    *)

\* The steps F, from g on, lead through S.
Steps(F, n, S) == F \in [1 .. n -> [S -> S]]
Leads(F, n, S, g) ==
    \E f \in [0 .. n -> S] : f[0] = g /\ \A k \in 1 .. n : f[k] = F[k][f[k - 1]]

\* A step that stays in S can be iterated in S.
LEMMA Iterated ==
    ASSUME NEW S, NEW g \in S, NEW n \in Nat, NEW F, Steps(F, n, S)
    PROVE  Leads(F, n, S, g)
<1> USE DEF Steps, Leads
<1> DEFINE Up(f, m) == f[0] = g /\ \A k \in 1 .. m : f[k] = F[k][f[k - 1]]
           T == { m \in Nat : m <= n => \E f \in [0 .. m -> S] : Up(f, m) }
<1>1. 0 \in T
  <2> DEFINE e == [k \in 0 .. 0 |-> g]
  <2>1. e \in [0 .. 0 -> S] /\ Up(e, 0)
    OBVIOUS
  <2> QED
    BY <2>1
<1>2. ASSUME NEW m \in Nat, m \in T PROVE m + 1 \in T
  <2> SUFFICES ASSUME m + 1 <= n PROVE \E f \in [0 .. m + 1 -> S] : Up(f, m + 1)
    OBVIOUS
  <2>1. PICK f \in [0 .. m -> S] : Up(f, m)
    BY <1>2
  <2> DEFINE e == [k \in 0 .. m + 1 |-> IF k = m + 1 THEN F[m + 1][f[m]] ELSE f[k]]
  <2>2. F[m + 1][f[m]] \in S
    <3>1. f[m] \in S /\ m + 1 \in 1 .. n
      OBVIOUS
    <3> QED
      BY <3>1
  <2>3. e \in [0 .. m + 1 -> S]
    BY <2>2
  <2>4. e[m + 1] = F[m + 1][f[m]] /\ \A k \in 0 .. m : e[k] = f[k]
    OBVIOUS
  <2> HIDE DEF e
  <2>5. ASSUME NEW k \in 1 .. m + 1 PROVE e[k] = F[k][e[k - 1]]
    <3>1. CASE k = m + 1
      <4>1. e[k - 1] = f[m]
        BY <2>4, <3>1
      <4> QED
        BY <2>4, <3>1, <4>1
    <3>2. CASE k \in 1 .. m
      <4>1. f[k] = F[k][f[k - 1]]
        BY <2>1, <3>2
      <4>2. e[k] = f[k] /\ e[k - 1] = f[k - 1]
        BY <2>4, <3>2
      <4> QED
        BY <4>1, <4>2
    <3> QED
      BY <3>1, <3>2
  <2>6. Up(e, m + 1)
    BY <2>1, <2>4, <2>5
  <2> QED
    BY <2>3, <2>6
<1>3. Nat \subseteq T
  <2> HIDE DEF T
  <2> QED
    BY <1>1, <1>2, Induction
<1>4. n \in T
  BY <1>3
<1> QED
  BY <1>4

\* Induction up to a bound.
LEMMA UpTo ==
    ASSUME NEW n \in Nat, NEW T, 0 \in T, \A k \in 1 .. n : k - 1 \in T => k \in T
    PROVE  0 .. n \subseteq T
<1> DEFINE N == { k \in Nat : k <= n => k \in T }
<1>1. \A k \in Nat : k \in N => k + 1 \in N
  OBVIOUS
<1>2. Nat \subseteq N
  <2>1. 0 \in N
    OBVIOUS
  <2> HIDE DEF N
  <2> QED
    BY <1>1, <2>1, Induction
<1> QED
  BY <1>2

\* A choice from one value is that value.
LEMMA OnlyChoice ==
    \A x : (CHOOSE y \in {x} : TRUE) = x
  OBVIOUS

-----------------------------------------------------------------------------
(* Graphs and their lists.                                                   *)

\* A map of string ids to lists of string ids.
LEMMA MapHas ==
    ASSUME NEW map \in Lists
    PROVE  /\ DOMAIN map \subseteq Name
           /\ \A a \in Name : ListAt(map, a) \in Seq(Name) /\ ToSet(ListAt(map, a)) \subseteq Name
           /\ \A a : a \notin DOMAIN map => ListAt(map, a) = <<>> /\ ToSet(ListAt(map, a)) = {}
<1>1. PICK D \in SUBSET Name : map \in [D -> Seq(Name)]
  BY DEF Lists
<1>2. DOMAIN map = D
  BY <1>1
<1>3. \A a \in Name : ListAt(map, a) \in Seq(Name)
  BY <1>1, <1>2, EmptyHas DEF ListAt
<1>4. \A a \in Name : ToSet(ListAt(map, a)) \subseteq Name
  BY <1>3, ListHas
<1> QED
  BY <1>2, <1>3, <1>4, EmptyHas DEF ListAt

\* A map with another entry.
LEMMA PutHas ==
    ASSUME NEW map \in Lists, NEW a \in Name, NEW list \in Seq(Name)
    PROVE  /\ Put(map, a, list) \in Lists /\ DOMAIN Put(map, a, list) = DOMAIN map \cup {a}
           /\ \A x : ListAt(Put(map, a, list), x) = IF x = a THEN list ELSE ListAt(map, x)
<1>1. PICK D \in SUBSET Name : map \in [D -> Seq(Name)]
  BY DEF Lists
<1>2. DOMAIN map = D
  BY <1>1
<1>3. Put(map, a, list) \in [D \cup {a} -> Seq(Name)]
  BY <1>1, <1>2 DEF Put
<1>4. D \cup {a} \in SUBSET Name
  OBVIOUS
<1>5. Put(map, a, list) \in Lists
  BY <1>3, <1>4 DEF Lists
<1> QED
  BY <1>2, <1>5 DEF Put, ListAt

\* The parts of a graph.
LEMMA GraphHas ==
    ASSUME NEW g \in Graph
    PROVE  /\ g.V \in Nat /\ g.node_pool \in Pools /\ g.adj \in Lists /\ g.from_node \in Lists
           /\ DOMAIN g.node_pool \subseteq Nat /\ StrIds(g) \subseteq Name
           /\ Keys(g) \subseteq Name
           /\ \A a \in Name : /\ get_adj(g, a) \in Seq(Name) /\ Out(g, a) \subseteq Name
                              /\ get_from(g, a) \in Seq(Name) /\ In(g, a) \subseteq Name
           /\ \A a : a \notin Keys(g) => Out(g, a) = {} /\ In(g, a) = {}
<1>1. g.V \in Nat /\ g.node_pool \in Pools /\ g.adj \in Lists /\ g.from_node \in Lists
  BY DEF Graph
<1>2. PICK D \in SUBSET Nat : g.node_pool \in [D -> Name]
  BY <1>1 DEF Pools
<1>3. DOMAIN g.node_pool \subseteq Nat /\ StrIds(g) \subseteq Name
  BY <1>2 DEF StrIds, Range
<1> QED
  BY <1>1, <1>3, MapHas DEF Keys, get_adj, get_from, Out, In

\* NFA::addEdge adds the edge to both of its lists and changes nothing else.
LEMMA AddEdgeHas ==
    ASSUME NEW g \in Graph, NEW a \in Name, NEW b \in Name
    PROVE  /\ addEdge(g, a, b) \in Graph
           /\ addEdge(g, a, b).V = g.V /\ addEdge(g, a, b).node_pool = g.node_pool
           /\ DOMAIN addEdge(g, a, b).adj = DOMAIN g.adj \cup {a}
           /\ DOMAIN addEdge(g, a, b).from_node = DOMAIN g.from_node \cup {b}
           /\ \A x : /\ get_adj(addEdge(g, a, b), x)
                          = IF x = a THEN WithLast(get_adj(g, a), b) ELSE get_adj(g, x)
                     /\ get_from(addEdge(g, a, b), x)
                          = IF x = b THEN WithLast(get_from(g, b), a) ELSE get_from(g, x)
<1> DEFINE l1 == WithLast(get_adj(g, a), b)
           l2 == WithLast(get_from(g, b), a)
<1>1. l1 \in Seq(Name) /\ l2 \in Seq(Name)
  <2>1. get_adj(g, a) \in Seq(Name) /\ get_from(g, b) \in Seq(Name)
    BY GraphHas
  <2> QED
    BY <2>1 DEF WithLast
<1>2. g.V \in Nat /\ g.node_pool \in Pools /\ g.adj \in Lists /\ g.from_node \in Lists
  BY GraphHas
<1>3. addEdge(g, a, b) = [V |-> g.V, node_pool |-> g.node_pool,
                          adj |-> Put(g.adj, a, l1), from_node |-> Put(g.from_node, b, l2)]
  BY DEF addEdge
<1> HIDE DEF l1, l2
<1>4. /\ Put(g.adj, a, l1) \in Lists /\ Put(g.from_node, b, l2) \in Lists
      /\ DOMAIN Put(g.adj, a, l1) = DOMAIN g.adj \cup {a}
      /\ DOMAIN Put(g.from_node, b, l2) = DOMAIN g.from_node \cup {b}
      /\ \A x : ListAt(Put(g.adj, a, l1), x) = IF x = a THEN l1 ELSE ListAt(g.adj, x)
      /\ \A x : ListAt(Put(g.from_node, b, l2), x) = IF x = b THEN l2 ELSE ListAt(g.from_node, x)
  <2>1. \A m \in Lists, k \in Name, l \in Seq(Name) :
           /\ Put(m, k, l) \in Lists /\ DOMAIN Put(m, k, l) = DOMAIN m \cup {k}
           /\ \A x : ListAt(Put(m, k, l), x) = IF x = k THEN l ELSE ListAt(m, x)
    BY PutHas, Zenon
  <2>2. a \in Name /\ l1 \in Seq(Name) /\ g.adj \in Lists
    BY <1>1, <1>2
  <2>5. b \in Name /\ l2 \in Seq(Name) /\ g.from_node \in Lists
    BY <1>1, <1>2
  <2>3. /\ Put(g.adj, a, l1) \in Lists /\ DOMAIN Put(g.adj, a, l1) = DOMAIN g.adj \cup {a}
        /\ \A x : ListAt(Put(g.adj, a, l1), x) = IF x = a THEN l1 ELSE ListAt(g.adj, x)
    BY <2>1, <2>2, ZenonT(60)
  <2>4. /\ Put(g.from_node, b, l2) \in Lists
        /\ DOMAIN Put(g.from_node, b, l2) = DOMAIN g.from_node \cup {b}
        /\ \A x : ListAt(Put(g.from_node, b, l2), x) = IF x = b THEN l2 ELSE ListAt(g.from_node, x)
    BY <2>1, <2>5, ZenonT(60)
  <2> QED
    BY <2>3, <2>4, Zenon
<1>5. addEdge(g, a, b) \in Graph
  BY <1>2, <1>3, <1>4 DEF Graph
<1> QED
  BY <1>3, <1>4, <1>5 DEF get_adj, get_from, l1, l2

\* addEdges: one edge after the other.
LEMMA AddEdgesLoop ==
    ASSUME NEW g \in Graph, NEW edges \in Seq(Name \X Name)
    PROVE  \E f \in [0 .. Len(edges) -> Graph] :
              /\ f[0] = g /\ addEdges(g, edges) = f[Len(edges)]
              /\ \A k \in 1 .. Len(edges) :
                    f[k] = addEdge(f[k - 1], edges[k][1], edges[k][2])
<1> DEFINE list == edges
           n == Len(list)
           first == g
           Step(h, x) == addEdge(h, x[1], x[2])
           Follows(f, l) ==
              f = [k \in 0 .. Len(l) |->
                      IF k = 0 THEN first
                      ELSE CHOOSE next \in { Step(h, l[k]) : h \in {f[k - 1]} } : TRUE]
           End(l) == (CHOOSE f : Follows(f, l))[Len(l)]
           c == CHOOSE f : Follows(f, list)
<1>1. n \in Nat /\ \A k \in 1 .. n : list[k] \in Name \X Name
  BY ListHas
<1>2. ASSUME NEW h \in Graph, NEW x \in Name \X Name PROVE Step(h, x) \in Graph
  <2>1. x[1] \in Name /\ x[2] \in Name
    OBVIOUS
  <2> QED
    BY <2>1, AddEdgeHas
<1>3. addEdges(g, edges) = CHOOSE end \in { End(l) : l \in {list} } : TRUE
  BY DEF addEdges, Loop
<1>4. first \in Graph
  OBVIOUS
<1> HIDE DEF Step, list, first
<1>5. \E f \in [0 .. n -> Graph] : f[0] = first /\ \A k \in 1 .. n : f[k] = Step(f[k - 1], list[k])
  <2> DEFINE F == [k \in 1 .. n |-> [h \in Graph |-> Step(h, list[k])]]
  <2>1. Steps(F, n, Graph)
    BY <1>1, <1>2 DEF Steps
  <2>2. \A k \in 1 .. n, h \in Graph : F[k][h] = Step(h, list[k])
    OBVIOUS
  <2>3. n \in Nat /\ first \in Graph
    BY <1>1, <1>4
  <2> HIDE DEF F, n, c, Follows, End
  <2>4. PICK f \in [0 .. n -> Graph] : f[0] = first /\ \A k \in 1 .. n : f[k] = F[k][f[k - 1]]
    <3>1. Leads(F, n, Graph, first)
      BY <2>1, <2>3, Iterated, Zenon
    <3> QED
      BY <3>1 DEF Leads
  <2>5. ASSUME NEW k \in 1 .. n PROVE f[k] = Step(f[k - 1], list[k])
    <3>1. k - 1 \in 0 .. n
      BY <2>3
    <3>2. f[k - 1] \in Graph
      BY <3>1
    <3> QED
      BY <2>2, <2>4, <3>2
  <2> QED
    BY <2>4, <2>5
<1>6. addEdges(g, edges) = c[n]
  <2>1. addEdges(g, edges) = End(list)
    <3> HIDE DEF End
    <3>1. { End(l) : l \in {list} } = { End(list) }
      OBVIOUS
    <3> QED
      BY <1>3, <3>1, OnlyChoice
  <2> QED
    BY <2>1
<1>7. \A f : Follows(f, list) <=> f = [k \in 0 .. n |-> IF k = 0 THEN first ELSE Step(f[k - 1], list[k])]
  <2>1. \A f, k : { Step(h, list[k]) : h \in {f[k - 1]} } = { Step(f[k - 1], list[k]) }
    OBVIOUS
  <2> QED
    BY <2>1, OnlyChoice
<1>8. c = [k \in 0 .. n |-> IF k = 0 THEN first ELSE Step(c[k - 1], list[k])]
  <2>1. PICK f \in [0 .. n -> Graph] : f[0] = first /\ \A k \in 1 .. n : f[k] = Step(f[k - 1], list[k])
    BY <1>5
  <2> HIDE DEF n
  <2>2. \A k \in 0 .. n : k = 0 \/ k \in 1 .. n
    BY <1>1
  <2>3. f = [k \in 0 .. n |-> IF k = 0 THEN first ELSE Step(f[k - 1], list[k])]
    BY <2>1, <2>2
  <2>4. Follows(f, list)
    BY <1>7, <2>3
  <2> HIDE DEF Follows
  <2>5. Follows(c, list)
    BY <2>4
  <2> HIDE DEF c
  <2> QED
    BY <1>7, <2>5
<1> HIDE DEF c, Follows, End, n
<1>9. c[0] = first /\ \A k \in 1 .. n : c[k] = Step(c[k - 1], list[k])
  <2>1. 0 \in 0 .. n /\ \A k \in 1 .. n : k \in 0 .. n /\ k # 0
    BY <1>1
  <2> QED
    BY <1>8, <2>1
<1>10. c \in [0 .. n -> Graph]
  <2> DEFINE Good == { k \in 0 .. n : c[k] \in Graph }
  <2>1. 0 \in Good
    BY <1>1, <1>4, <1>9
  <2>2. \A k \in 1 .. n : k - 1 \in Good => k \in Good
    BY <1>1, <1>2, <1>9
  <2> HIDE DEF Good
  <2>3. 0 .. n \subseteq Good
    BY <1>1, <2>1, <2>2, UpTo
  <2>4. \A k \in 0 .. n : c[k] \in Graph
    BY <2>3 DEF Good
  <2> QED
    BY <1>8, <2>4
<1> QED
  BY <1>6, <1>9, <1>10 DEF n, Step, list, first

\* The edges of a graph.
Edges(g) == { e \in Name \X Name : e[2] \in Out(g, e[1]) }

\* One more edge.
LEMMA OneEdgeMore ==
    ASSUME NEW g, Listed(g), NEW a \in Name, NEW b \in Name
    PROVE  /\ Listed(addEdge(g, a, b)) /\ Edges(addEdge(g, a, b)) = Edges(g) \cup {<<a, b>>}
           /\ addEdge(g, a, b).V = g.V /\ addEdge(g, a, b).node_pool = g.node_pool
           /\ Keys(addEdge(g, a, b)) = Keys(g) \cup {a, b}
<1> DEFINE h == addEdge(g, a, b)
<1>1. /\ g \in Graph
      /\ \A x \in Name : IsInjective(get_adj(g, x)) /\ IsInjective(get_from(g, x))
      /\ \A x, y \in Name : y \in Out(g, x) <=> x \in In(g, y)
  BY DEF Listed
<1>2. \A x \in Name : get_adj(g, x) \in Seq(Name) /\ get_from(g, x) \in Seq(Name)
  BY <1>1, GraphHas
<1>3. /\ h \in Graph /\ h.V = g.V /\ h.node_pool = g.node_pool
      /\ DOMAIN h.adj = DOMAIN g.adj \cup {a}
      /\ DOMAIN h.from_node = DOMAIN g.from_node \cup {b}
  BY <1>1, AddEdgeHas
<1>4. \A x : /\ get_adj(h, x) = IF x = a THEN WithLast(get_adj(g, a), b) ELSE get_adj(g, x)
             /\ get_from(h, x) = IF x = b THEN WithLast(get_from(g, b), a) ELSE get_from(g, x)
  BY <1>1, AddEdgeHas
<1> HIDE DEF h
<1>5. /\ IsInjective(WithLast(get_adj(g, a), b))
      /\ ToSet(WithLast(get_adj(g, a), b)) = Out(g, a) \cup {b}
  BY <1>1, <1>2, WithLastHas DEF Out
<1>6. /\ IsInjective(WithLast(get_from(g, b), a))
      /\ ToSet(WithLast(get_from(g, b), a)) = In(g, b) \cup {a}
  BY <1>1, <1>2, WithLastHas DEF In
<1>7. \A x \in Name : /\ IsInjective(get_adj(h, x)) /\ IsInjective(get_from(h, x))
                      /\ Out(h, x) = IF x = a THEN Out(g, a) \cup {b} ELSE Out(g, x)
                      /\ In(h, x) = IF x = b THEN In(g, b) \cup {a} ELSE In(g, x)
  BY <1>1, <1>4, <1>5, <1>6 DEF Out, In
<1>8. Listed(h)
  BY <1>1, <1>3, <1>7 DEF Listed
<1>9. Edges(h) = Edges(g) \cup {<<a, b>>}
  <2>1. ASSUME NEW x \in Name, NEW y \in Name
        PROVE  y \in Out(h, x) <=> y \in Out(g, x) \/ <<x, y>> = <<a, b>>
    BY <1>7
  <2> QED
    BY <2>1 DEF Edges
<1>10. Keys(h) = Keys(g) \cup {a, b}
  BY <1>3 DEF Keys
<1> QED
  BY <1>3, <1>8, <1>9, <1>10 DEF h

\* Some edges more.
LEMMA EdgesMore ==
    ASSUME NEW g, Listed(g), NEW edges \in Seq(Name \X Name),
           NEW K, Keys(g) \subseteq K, \A e \in ToSet(edges) : e[1] \in K /\ e[2] \in K
    PROVE  /\ Listed(addEdges(g, edges))
           /\ Edges(addEdges(g, edges)) = Edges(g) \cup ToSet(edges)
           /\ addEdges(g, edges).V = g.V /\ addEdges(g, edges).node_pool = g.node_pool
           /\ Keys(addEdges(g, edges)) \subseteq K
<1> DEFINE n == Len(edges)
           Added(k) == { edges[i] : i \in 1 .. k }
           After(h, k) == /\ Listed(h) /\ Edges(h) = Edges(g) \cup Added(k)
                          /\ h.V = g.V /\ h.node_pool = g.node_pool /\ Keys(h) \subseteq K
<1>1. /\ n \in Nat /\ ToSet(edges) = Added(n)
      /\ \A k \in 1 .. n : edges[k] \in Name \X Name /\ edges[k] \in ToSet(edges)
  BY ListHas
<1>2. g \in Graph
  BY DEF Listed
<1>3. PICK f \in [0 .. n -> Graph] :
             /\ f[0] = g /\ addEdges(g, edges) = f[n]
             /\ \A k \in 1 .. n : f[k] = addEdge(f[k - 1], edges[k][1], edges[k][2])
  BY <1>2, AddEdgesLoop
<1> DEFINE T == { k \in 0 .. n : After(f[k], k) }
<1> HIDE DEF n
<1>4. 0 \in T
  <2>1. Added(0) = {}
    OBVIOUS
  <2> HIDE DEF Added
  <2> QED
    BY <1>1, <1>3, <2>1
<1>5. ASSUME NEW k \in 1 .. n, k - 1 \in T PROVE k \in T
  <2> DEFINE h == f[k - 1]
             a == edges[k][1]
             b == edges[k][2]
  <2>1. After(h, k - 1) /\ f[k] = addEdge(h, a, b)
    BY <1>3, <1>5
  <2>2. a \in Name /\ b \in Name /\ edges[k] = <<a, b>> /\ a \in K /\ b \in K
    BY <1>1
  <2>3. Added(k) = Added(k - 1) \cup {edges[k]}
    <3>1. 1 .. k = (1 .. k - 1) \cup {k}
      BY <1>1
    <3> QED
      BY <3>1
  <2> HIDE DEF Added, h, a, b
  <2>4. /\ Listed(addEdge(h, a, b)) /\ Edges(addEdge(h, a, b)) = Edges(h) \cup {<<a, b>>}
        /\ addEdge(h, a, b).V = h.V /\ addEdge(h, a, b).node_pool = h.node_pool
        /\ Keys(addEdge(h, a, b)) = Keys(h) \cup {a, b}
    <3>1. Listed(h) /\ a \in Name /\ b \in Name
      BY <2>1, <2>2
    <3> QED
      BY <3>1, OneEdgeMore
  <2>5. After(f[k], k)
    BY <2>1, <2>2, <2>3, <2>4
  <2> HIDE DEF After
  <2> QED
    BY <2>5
<1>6. After(f[n], n)
  <2>1. 0 .. n \subseteq T
    <3> HIDE DEF T
    <3> QED
      BY <1>1, <1>4, <1>5, UpTo
  <2> HIDE DEF After
  <2> QED
    BY <1>1, <2>1
<1> QED
  BY <1>1, <1>3, <1>6

\* What is added to a graph makes a graph.
LEMMA GraphsGrow ==
    ASSUME NEW g \in Graph
    PROVE  /\ \A s \in Name, i \in Nat : addNodeAs(g, s, i) \in Graph
           /\ \A s \in Name : addNode(g, s) \in Graph
           /\ \A edges \in Seq(Name \X Name) : addEdges(g, edges) \in Graph
<1>1. g.V \in Nat /\ g.node_pool \in Pools /\ g.adj \in Lists /\ g.from_node \in Lists
  BY GraphHas
<1>2. \A k \in Nat, s \in Name : Put(g.node_pool, k, s) \in Pools
  <2> SUFFICES ASSUME NEW k \in Nat, NEW s \in Name PROVE Put(g.node_pool, k, s) \in Pools
    OBVIOUS
  <2>1. PICK D \in SUBSET Nat : g.node_pool \in [D -> Name]
    BY <1>1 DEF Pools
  <2>2. D \cup {k} \in SUBSET Nat /\ Put(g.node_pool, k, s) \in [D \cup {k} -> Name]
    BY <2>1 DEF Put
  <2> QED
    BY <2>2 DEF Pools
<1>3. \A s \in Name, i \in Nat : addNodeAs(g, s, i) \in Graph
  BY <1>1, <1>2 DEF addNodeAs, Graph
<1>4. \A s \in Name : addNode(g, s) \in Graph
  BY <1>1, <1>2 DEF addNode, Graph
<1>5. ASSUME NEW edges \in Seq(Name \X Name) PROVE addEdges(g, edges) \in Graph
  <2>1. PICK f \in [0 .. Len(edges) -> Graph] : addEdges(g, edges) = f[Len(edges)]
    BY AddEdgesLoop
  <2>2. Len(edges) \in 0 .. Len(edges)
    BY ListHas
  <2> QED
    BY <2>1, <2>2
<1> QED
  BY <1>3, <1>4, <1>5

\* A state more, with any number.
LEMMA NodeAdded ==
    ASSUME NEW g, Listed(g), NEW s \in Name, NEW i \in Nat
    PROVE  /\ Listed(addNodeAs(g, s, i)) /\ Edges(addNodeAs(g, s, i)) = Edges(g)
           /\ addNodeAs(g, s, i).V = g.V /\ Keys(addNodeAs(g, s, i)) = Keys(g)
           /\ addNodeAs(g, s, i).node_pool = Put(g.node_pool, i, s)
           /\ Listed(addNode(g, s)) /\ Edges(addNode(g, s)) = Edges(g)
           /\ addNode(g, s).V = g.V + 1 /\ Keys(addNode(g, s)) = Keys(g)
           /\ addNode(g, s).node_pool = Put(g.node_pool, g.V, s)
<1>1. g \in Graph
  BY DEF Listed
<1>3. ASSUME NEW h, h.adj = g.adj, h.from_node = g.from_node, h \in Graph
      PROVE  Listed(h) /\ Edges(h) = Edges(g) /\ Keys(h) = Keys(g)
  <2>1. \A x : get_adj(h, x) = get_adj(g, x) /\ get_from(h, x) = get_from(g, x)
    BY <1>3 DEF get_adj, get_from
  <2>2. \A x : Out(h, x) = Out(g, x) /\ In(h, x) = In(g, x)
    BY <2>1 DEF Out, In
  <2>3. Listed(h)
    BY <1>3, <2>1, <2>2 DEF Listed
  <2>4. Edges(h) = Edges(g)
    BY <2>2 DEF Edges
  <2>5. Keys(h) = Keys(g)
    BY <1>3 DEF Keys
  <2> QED
    BY <2>3, <2>4, <2>5
<1>4. addNodeAs(g, s, i) \in Graph /\ addNode(g, s) \in Graph
  BY <1>1, GraphsGrow
<1>5. /\ addNodeAs(g, s, i).adj = g.adj /\ addNodeAs(g, s, i).from_node = g.from_node
      /\ addNode(g, s).adj = g.adj /\ addNode(g, s).from_node = g.from_node
  BY DEF addNodeAs, addNode
<1>6. /\ Listed(addNodeAs(g, s, i)) /\ Edges(addNodeAs(g, s, i)) = Edges(g)
      /\ Keys(addNodeAs(g, s, i)) = Keys(g)
  BY <1>3, <1>4, <1>5
<1>7. Listed(addNode(g, s)) /\ Edges(addNode(g, s)) = Edges(g) /\ Keys(addNode(g, s)) = Keys(g)
  BY <1>3, <1>4, <1>5
<1> QED
  BY <1>6, <1>7 DEF addNodeAs, addNode

\* The lists have an element once, and those that have s are known to be near.
Near(map, s, near) ==
    \A a \in Name : IsInjective(ListAt(map, a)) /\ (s \in ToSet(ListAt(map, a)) => a \in near)

\* What remains of the list of a.
Others(map, s, a) == IF a = s THEN {} ELSE ToSet(ListAt(map, a)) \ {s}

\* A map of lists without the list of s, and without s in the lists that have it.
LEMMA ForgetHas ==
    ASSUME NEW map \in Lists, NEW s \in Name, NEW near, Near(map, s, near)
    PROVE  /\ Forget(map, s, near) \in Lists /\ DOMAIN Forget(map, s, near) = DOMAIN map \ {s}
           /\ \A a \in Name : /\ IsInjective(ListAt(Forget(map, s, near), a))
                              /\ ToSet(ListAt(Forget(map, s, near), a)) = Others(map, s, a)
<1> DEFINE m == Forget(map, s, near)
           l(a) == RemoveFirst(map[a], s)
<1>1. PICK D \in SUBSET Name : map \in [D -> Seq(Name)]
  BY DEF Lists
<1>2. DOMAIN map = D
  BY <1>1
<1>3. ASSUME NEW a \in D
      PROVE  /\ map[a] \in Seq(Name) /\ IsInjective(map[a]) /\ ListAt(map, a) = map[a]
             /\ l(a) \in Seq(Name) /\ IsInjective(l(a)) /\ ToSet(l(a)) = ToSet(map[a]) \ {s}
             /\ s \in ToSet(map[a]) => a \in near
  <2>1. map[a] \in Seq(Name) /\ ListAt(map, a) = map[a] /\ a \in Name
    BY <1>1, <1>2 DEF ListAt
  <2>2. IsInjective(map[a]) /\ (s \in ToSet(map[a]) => a \in near)
    BY <2>1 DEF Near
  <2> QED
    BY <2>1, <2>2, RemoveFirstHas
<1> HIDE DEF l
<1>4. m = [k \in D \ {s} |-> IF k \in near THEN l(k) ELSE map[k]]
  BY <1>2 DEF Forget, l
<1>5. m \in [D \ {s} -> Seq(Name)]
  BY <1>3, <1>4
<1>6. D \ {s} \in SUBSET Name /\ DOMAIN m = D \ {s}
  BY <1>4
<1>7. m \in Lists
  BY <1>5, <1>6 DEF Lists
<1>8. ASSUME NEW a \in Name
      PROVE  /\ IsInjective(ListAt(m, a))
             /\ ToSet(ListAt(m, a)) = IF a = s THEN {} ELSE ToSet(ListAt(map, a)) \ {s}
  <2>1. CASE a \in D \ {s}
    <3>1. ListAt(m, a) = IF a \in near THEN l(a) ELSE map[a]
      BY <1>4, <1>6, <2>1 DEF ListAt
    <3>2. CASE a \in near
      BY <1>3, <2>1, <3>1, <3>2
    <3>3. CASE a \notin near
      BY <1>3, <2>1, <3>1, <3>3
    <3> QED
      BY <3>2, <3>3
  <2>2. CASE a \notin D \ {s}
    <3>1. ListAt(m, a) = <<>> /\ (a # s => ListAt(map, a) = <<>>)
      BY <1>2, <1>6, <2>2 DEF ListAt
    <3>2. ToSet(<<>>) = {} /\ DOMAIN <<>> = {}
      BY EmptyHas
    <3>3. IsInjective(<<>>)
      BY <3>2 DEF IsInjective
    <3> QED
      BY <3>1, <3>2, <3>3
  <2> QED
    BY <2>1, <2>2
<1> HIDE DEF m
<1>9. DOMAIN m = DOMAIN map \ {s}
  BY <1>2, <1>6
<1> QED
  BY <1>7, <1>8, <1>9 DEF m, Others

\* Graph h is g without state s.
IsWithout(h, g, s) ==
    /\ Listed(h) /\ Edges(h) = { e \in Edges(g) : e[1] # s /\ e[2] # s }
    /\ h.V = g.V /\ Keys(h) = Keys(g) \ {s}
    /\ DOMAIN h.node_pool = { i \in DOMAIN g.node_pool : g.node_pool[i] # s }
    /\ h.node_pool = [i \in DOMAIN h.node_pool |-> g.node_pool[i]]

\* NFA::remove_node_unsafe takes the edges of the state from all lists.
LEMMA NodeRemoved ==
    ASSUME NEW g, Listed(g), NEW s \in Name
    PROVE  IsWithout(remove_node_unsafe(g, s), g, s)
<1> DEFINE h == remove_node_unsafe(g, s)
           to == Forget(g.adj, s, In(g, s))
           from == Forget(g.from_node, s, Out(g, s))
           pool == Without(g.node_pool, s)
<1>1. g \in Graph /\ g.V \in Nat /\ g.node_pool \in Pools /\ g.adj \in Lists /\ g.from_node \in Lists
  BY GraphHas DEF Listed
<1>2. /\ \A a \in Name : IsInjective(ListAt(g.adj, a)) /\ IsInjective(ListAt(g.from_node, a))
      /\ \A a \in Name : s \in ToSet(ListAt(g.adj, a)) => a \in In(g, s)
      /\ \A a \in Name : s \in ToSet(ListAt(g.from_node, a)) => a \in Out(g, s)
  BY DEF Listed, Out, In, get_adj, get_from
<1>3. /\ to \in Lists /\ DOMAIN to = DOMAIN g.adj \ {s}
      /\ \A a \in Name : /\ IsInjective(ListAt(to, a))
                         /\ ToSet(ListAt(to, a)) = IF a = s THEN {} ELSE ToSet(ListAt(g.adj, a)) \ {s}
  <2>1. g.adj \in Lists /\ Near(g.adj, s, In(g, s))
    BY <1>1, <1>2 DEF Near
  <2>2. Forget(g.adj, s, In(g, s)) \in Lists
    BY <2>1, ForgetHas
  <2>3. DOMAIN Forget(g.adj, s, In(g, s)) = DOMAIN g.adj \ {s}
    BY <2>1, ForgetHas
  <2>4. \A a \in Name : /\ IsInjective(ListAt(Forget(g.adj, s, In(g, s)), a))
                        /\ ToSet(ListAt(Forget(g.adj, s, In(g, s)), a)) = Others(g.adj, s, a)
    BY <2>1, ForgetHas
  <2> QED
    BY <2>2, <2>3, <2>4 DEF Others
<1>4. /\ from \in Lists /\ DOMAIN from = DOMAIN g.from_node \ {s}
      /\ \A a \in Name : /\ IsInjective(ListAt(from, a))
                         /\ ToSet(ListAt(from, a))
                              = IF a = s THEN {} ELSE ToSet(ListAt(g.from_node, a)) \ {s}
  <2>1. g.from_node \in Lists /\ Near(g.from_node, s, Out(g, s))
    BY <1>1, <1>2 DEF Near
  <2>2. Forget(g.from_node, s, Out(g, s)) \in Lists
    BY <2>1, ForgetHas
  <2>3. DOMAIN Forget(g.from_node, s, Out(g, s)) = DOMAIN g.from_node \ {s}
    BY <2>1, ForgetHas
  <2>4. \A a \in Name : /\ IsInjective(ListAt(Forget(g.from_node, s, Out(g, s)), a))
                        /\ ToSet(ListAt(Forget(g.from_node, s, Out(g, s)), a)) = Others(g.from_node, s, a)
    BY <2>1, ForgetHas
  <2> QED
    BY <2>2, <2>3, <2>4 DEF Others
<1>5. /\ DOMAIN pool = { i \in DOMAIN g.node_pool : g.node_pool[i] # s }
      /\ pool = [i \in DOMAIN pool |-> g.node_pool[i]]
  BY DEF Without, RestrictValues, Restrict
<1>6. pool \in Pools
  <2>1. PICK D \in SUBSET Nat : g.node_pool \in [D -> Name]
    BY <1>1 DEF Pools
  <2>2. DOMAIN pool \in SUBSET Nat /\ pool \in [DOMAIN pool -> Name]
    BY <1>5, <2>1 DEF Without, RestrictValues, Restrict
  <2> QED
    BY <2>2 DEF Pools
<1>7. h = [V |-> g.V, node_pool |-> pool, adj |-> to, from_node |-> from]
  BY DEF remove_node_unsafe, Out, In
<1> HIDE DEF h, to, from, pool
<1>8. h \in Graph /\ h.V = g.V /\ h.node_pool = pool /\ Keys(h) = Keys(g) \ {s}
  BY <1>1, <1>3, <1>4, <1>6, <1>7 DEF Graph, Keys
<1>9. \A a \in Name : /\ IsInjective(get_adj(h, a)) /\ IsInjective(get_from(h, a))
                      /\ Out(h, a) = IF a = s THEN {} ELSE Out(g, a) \ {s}
                      /\ In(h, a) = IF a = s THEN {} ELSE In(g, a) \ {s}
  BY <1>3, <1>4, <1>7 DEF get_adj, get_from, Out, In
<1>10. Listed(h)
  BY <1>8, <1>9 DEF Listed
<1>11. Edges(h) = { e \in Edges(g) : e[1] # s /\ e[2] # s }
  <2>1. ASSUME NEW x \in Name, NEW y \in Name
        PROVE  y \in Out(h, x) <=> y \in Out(g, x) /\ x # s /\ y # s
    BY <1>9
  <2> QED
    BY <2>1 DEF Edges
<1> QED
  BY <1>5, <1>8, <1>10, <1>11 DEF h, IsWithout

\* The numbers below n are a sequence.
LEMMA NumbersHave ==
    ASSUME NEW n \in Nat
    PROVE  /\ Numbers(n) \in Seq(Nat) /\ Len(Numbers(n)) = n
           /\ \A k \in 1 .. n : Numbers(n)[k] = k - 1
<1>1. Places(Numbers(n), n, Nat) /\ \A k \in 1 .. n : Numbers(n)[k] = k - 1
  BY DEF Numbers, Places
<1> QED
  BY <1>1, PlacesHave

-----------------------------------------------------------------------------
(* Splitting.                                                                *)

\* The edges of copy number p of a state.
CopyHas(copy, p, room, loop, from, to, e) ==
    \/ loop /\ e = <<copy, copy>>
    \/ \E k \in 1 .. room : p * room + k <= Len(to) /\ e = <<copy, to[p * room + k]>>
    \/ \E a \in ToSet(from) : e = <<a, copy>>

\* CopyEdges lists these edges and no others.
LEMMA CopyEdgesHave ==
    ASSUME NEW copy \in Name, NEW p \in Nat, NEW room \in Nat \ {0}, NEW loop \in BOOLEAN,
           NEW from \in Seq(Name), NEW to \in Seq(Name)
    PROVE  /\ CopyEdges(copy, p, room, loop, from, to) \in Seq(Name \X Name)
           /\ \A e : e \in ToSet(CopyEdges(copy, p, room, loop, from, to))
                        <=> CopyHas(copy, p, room, loop, from, to, e)
<1> DEFINE start == p * room
           n == IF room < Len(to) - start THEN room ELSE Len(to) - start
           own == IF loop THEN << <<copy, copy>> >> ELSE <<>>
           part == [k \in 1 .. n |-> <<copy, to[start + k]>>]
           into == [k \in 1 .. Len(from) |-> <<from[k], copy>>]
<1>1. /\ Len(to) \in Nat /\ \A k \in 1 .. Len(to) : to[k] \in Name
      /\ Len(from) \in Nat /\ \A k \in 1 .. Len(from) : from[k] \in Name
      /\ ToSet(from) = { from[k] : k \in 1 .. Len(from) }
  BY ListHas
<1>2. start \in Nat
  OBVIOUS
<1>3. CopyEdges(copy, p, room, loop, from, to) = (own \o part) \o into
  BY DEF CopyEdges
<1> HIDE DEF start
<1>4. own \in Seq(Name \X Name) /\ \A e : e \in ToSet(own) <=> loop /\ e = <<copy, copy>>
  <2>1. CASE loop
    <3>1. own = << <<copy, copy>> >>
      BY <2>1
    <3> HIDE DEF own
    <3>2. own \in Seq(Name \X Name)
      BY <3>1
    <3>3. Len(own) = 1 /\ own[1] = <<copy, copy>>
      BY <3>1
    <3>4. ToSet(own) = { own[k] : k \in 1 .. Len(own) }
      BY <3>2, ListHas
    <3> QED
      BY <2>1, <3>2, <3>3, <3>4
  <2>2. CASE ~loop
    BY <2>2, EmptyHas
  <2> QED
    BY <2>1, <2>2
<1>5. /\ part \in Seq(Name \X Name)
      /\ \A e : e \in ToSet(part) <=>
                   \E k \in 1 .. room : start + k <= Len(to) /\ e = <<copy, to[start + k]>>
  <2>1. n \in Int /\ \A k \in Nat \ {0} : k <= n <=> k <= room /\ start + k <= Len(to)
    BY <1>1, <1>2
  <2> HIDE DEF n
  <2>2. CASE n \in Nat
    <3>1. part \in [1 .. n -> Name \X Name]
      <4> SUFFICES ASSUME NEW k \in 1 .. n PROVE to[start + k] \in Name
        OBVIOUS
      <4>1. k \in Nat \ {0} /\ k <= n
        BY <2>2
      <4>2. start + k <= Len(to)
        BY <2>1, <4>1
      <4>3. start + k \in 1 .. Len(to)
        BY <1>1, <1>2, <4>1, <4>2
      <4> QED
        BY <1>1, <4>3
    <3>2. \A k \in 1 .. n : part[k] = <<copy, to[start + k]>>
      OBVIOUS
    <3> HIDE DEF part
    <3>3. part \in Seq(Name \X Name) /\ ToSet(part) = { part[k] : k \in 1 .. n }
      <4>1. Places(part, n, Name \X Name)
        BY <2>2, <3>1 DEF Places
      <4> QED
        BY <4>1, PlacesHave, Zenon
    <3>4. ToSet(part) = { <<copy, to[start + k]>> : k \in 1 .. n }
      BY <3>2, <3>3
    <3>5. \A k : k \in 1 .. n <=> k \in 1 .. room /\ start + k <= Len(to)
      BY <1>1, <1>2, <2>1, <2>2
    <3> QED
      BY <3>3, <3>4, <3>5
  <2>3. CASE n \notin Nat
    <3>1. part = <<>>
      BY <2>1, <2>3
    <3>2. \A k \in 1 .. room : ~(start + k <= Len(to))
      BY <1>1, <1>2, <2>1, <2>3
    <3> QED
      BY <3>1, <3>2, EmptyHas
  <2> QED
    BY <2>2, <2>3
<1>6. into \in Seq(Name \X Name) /\ \A e : e \in ToSet(into) <=> \E a \in ToSet(from) : e = <<a, copy>>
  <2> DEFINE n1 == Len(from)
  <2>1. n1 \in Nat /\ into \in [1 .. n1 -> Name \X Name]
    BY <1>1
  <2>2. \A k \in 1 .. n1 : into[k] = <<from[k], copy>>
    OBVIOUS
  <2> HIDE DEF into, n1
  <2>3. into \in Seq(Name \X Name) /\ ToSet(into) = { into[k] : k \in 1 .. n1 }
    <3>1. Places(into, n1, Name \X Name)
      BY <2>1 DEF Places
    <3> QED
      BY <3>1, PlacesHave, Zenon
  <2> QED
    BY <1>1, <2>2, <2>3 DEF n1
<1> HIDE DEF own, part, into
<1>7. /\ own \o part \in Seq(Name \X Name)
      /\ ToSet(own \o part) = ToSet(own) \cup ToSet(part)
  <2> DEFINE T == Name \X Name
  <2>1. own \in Seq(T) /\ part \in Seq(T)
    BY <1>4, <1>5
  <2> HIDE DEF T
  <2>2. own \o part \in Seq(T) /\ ToSet(own \o part) = ToSet(own) \cup ToSet(part)
    BY <2>1, BothHave
  <2> QED
    BY <2>2 DEF T
<1>8. /\ (own \o part) \o into \in Seq(Name \X Name)
      /\ ToSet((own \o part) \o into) = ToSet(own \o part) \cup ToSet(into)
  <2> DEFINE T == Name \X Name
             first == own \o part
  <2>1. first \in Seq(T) /\ into \in Seq(T)
    BY <1>6, <1>7
  <2> HIDE DEF T, first
  <2>2. first \o into \in Seq(T) /\ ToSet(first \o into) = ToSet(first) \cup ToSet(into)
    BY <2>1, BothHave
  <2> QED
    BY <2>2 DEF T, first
<1> QED
  BY <1>3, <1>4, <1>5, <1>6, <1>7, <1>8 DEF CopyHas, start

\* Splitting makes one copy after the other.
SplitRun(g, i, s, room, loop, to, from) ==
    \E f \in [0 .. Len(Numbers((Len(to) + room - 1) \div room)) -> Graph] :
       /\ f[0] = remove_node_unsafe(g, s) /\ SplitInto(g, i, s, room, loop, to, from) = f[Len(Numbers((Len(to) + room - 1) \div room))]
       /\ \A k \in 1 .. Len(Numbers((Len(to) + room - 1) \div room)) :
             f[k] = addCopy(f[k - 1], Numbers((Len(to) + room - 1) \div room)[k], i, s, room, loop, to, from)

\* The while loop of limit_out_degree_on_nfa is such a run.
LEMMA SplitLoop ==
    ASSUME NEW g, Listed(g), NEW s \in Name, NEW i \in Nat, NEW room \in Nat \ {0},
           NEW loop \in BOOLEAN, NEW to \in Seq(Name), NEW from \in Seq(Name)
    PROVE  SplitRun(g, i, s, room, loop, to, from)
<1> DEFINE list == Numbers((Len(to) + room - 1) \div room)
           n == Len(list)
           first == remove_node_unsafe(g, s)
           Step(h, x) == addCopy(h, x, i, s, room, loop, to, from)
           Follows(f, l) ==
              f = [k \in 0 .. Len(l) |->
                      IF k = 0 THEN first
                      ELSE CHOOSE next \in { Step(h, l[k]) : h \in {f[k - 1]} } : TRUE]
           End(l) == (CHOOSE f : Follows(f, l))[Len(l)]
           c == CHOOSE f : Follows(f, list)
<1>1. n \in Nat /\ \A k \in 1 .. n : list[k] \in Nat
  <2>1. Len(to) \in Nat
    BY ListHas
  <2>2. (Len(to) + room - 1) \div room \in Nat
    BY <2>1, SMTT(30)
  <2> DEFINE m == (Len(to) + room - 1) \div room
  <2> HIDE DEF m
  <2>3. Numbers(m) \in Seq(Nat) /\ Len(Numbers(m)) \in Nat
    BY <2>2, NumbersHave DEF m
  <2>4. \A k \in 1 .. Len(Numbers(m)) : Numbers(m)[k] \in Nat
    BY <2>3, ListHas
  <2> QED
    BY <2>3, <2>4 DEF m
<1>2. ASSUME NEW h \in Graph, NEW x \in Nat PROVE Step(h, x) \in Graph
  <2>1. x \in Nat /\ Append(s, x) \in Name
    BY DEF Name
  <2>2. CopyEdges(Append(s, x), x, room, loop, from, to) \in Seq(Name \X Name)
    BY <2>1, CopyEdgesHave
  <2>3. addNodeAs(h, Append(s, x), i) \in Graph /\ addNode(h, Append(s, x)) \in Graph
    BY <2>1, GraphsGrow
  <2> DEFINE u == IF x = 0 THEN addNodeAs(h, Append(s, x), i) ELSE addNode(h, Append(s, x))
  <2>4. u \in Graph
    BY <2>3
  <2>5. Step(h, x) = addEdges(u, CopyEdges(Append(s, x), x, room, loop, from, to))
    BY DEF addCopy
  <2> HIDE DEF u
  <2> QED
    BY <2>2, <2>4, <2>5, GraphsGrow
<1>3. SplitInto(g, i, s, room, loop, to, from) = CHOOSE end \in { End(l) : l \in {list} } : TRUE
  BY DEF SplitInto, Loop
<1>4. first \in Graph
  <2>1. Listed(remove_node_unsafe(g, s))
    BY NodeRemoved DEF IsWithout
  <2> QED
    BY <2>1 DEF Listed
<1> HIDE DEF Step, list, first
<1>5. \E f \in [0 .. n -> Graph] : f[0] = first /\ \A k \in 1 .. n : f[k] = Step(f[k - 1], list[k])
  <2> DEFINE F == [k \in 1 .. n |-> [h \in Graph |-> Step(h, list[k])]]
  <2>1. Steps(F, n, Graph)
    BY <1>1, <1>2 DEF Steps
  <2>2. \A k \in 1 .. n, h \in Graph : F[k][h] = Step(h, list[k])
    OBVIOUS
  <2>3. n \in Nat /\ first \in Graph
    BY <1>1, <1>4
  <2> HIDE DEF F, n, c, Follows, End
  <2>4. PICK f \in [0 .. n -> Graph] : f[0] = first /\ \A k \in 1 .. n : f[k] = F[k][f[k - 1]]
    <3>1. Leads(F, n, Graph, first)
      BY <2>1, <2>3, Iterated, Zenon
    <3> QED
      BY <3>1 DEF Leads
  <2>5. ASSUME NEW k \in 1 .. n PROVE f[k] = Step(f[k - 1], list[k])
    <3>1. k - 1 \in 0 .. n
      BY <2>3
    <3>2. f[k - 1] \in Graph
      BY <3>1
    <3> QED
      BY <2>2, <2>4, <3>2
  <2> QED
    BY <2>4, <2>5
<1>6. SplitInto(g, i, s, room, loop, to, from) = c[n]
  <2>1. SplitInto(g, i, s, room, loop, to, from) = End(list)
    <3> HIDE DEF End
    <3>1. { End(l) : l \in {list} } = { End(list) }
      OBVIOUS
    <3> QED
      BY <1>3, <3>1, OnlyChoice
  <2> QED
    BY <2>1
<1>7. \A f : Follows(f, list) <=> f = [k \in 0 .. n |-> IF k = 0 THEN first ELSE Step(f[k - 1], list[k])]
  <2>1. \A f, k : { Step(h, list[k]) : h \in {f[k - 1]} } = { Step(f[k - 1], list[k]) }
    OBVIOUS
  <2> QED
    BY <2>1, OnlyChoice
<1>8. c = [k \in 0 .. n |-> IF k = 0 THEN first ELSE Step(c[k - 1], list[k])]
  <2>1. PICK f \in [0 .. n -> Graph] : f[0] = first /\ \A k \in 1 .. n : f[k] = Step(f[k - 1], list[k])
    BY <1>5
  <2> HIDE DEF n
  <2>2. \A k \in 0 .. n : k = 0 \/ k \in 1 .. n
    BY <1>1
  <2>3. f = [k \in 0 .. n |-> IF k = 0 THEN first ELSE Step(f[k - 1], list[k])]
    BY <2>1, <2>2
  <2>4. Follows(f, list)
    BY <1>7, <2>3
  <2> HIDE DEF Follows
  <2>5. Follows(c, list)
    BY <2>4
  <2> HIDE DEF c
  <2> QED
    BY <1>7, <2>5
<1> HIDE DEF c, Follows, End, n
<1>9. c[0] = first /\ \A k \in 1 .. n : c[k] = Step(c[k - 1], list[k])
  <2>1. 0 \in 0 .. n /\ \A k \in 1 .. n : k \in 0 .. n /\ k # 0
    BY <1>1
  <2> QED
    BY <1>8, <2>1
<1>10. c \in [0 .. n -> Graph]
  <2> DEFINE Good == { k \in 0 .. n : c[k] \in Graph }
  <2>1. 0 \in Good
    BY <1>1, <1>4, <1>9
  <2>2. \A k \in 1 .. n : k - 1 \in Good => k \in Good
    BY <1>1, <1>2, <1>9
  <2> HIDE DEF Good
  <2>3. 0 .. n \subseteq Good
    BY <1>1, <2>1, <2>2, UpTo
  <2>4. \A k \in 0 .. n : c[k] \in Graph
    BY <2>3 DEF Good
  <2> QED
    BY <1>8, <2>4
<1> QED
  BY <1>6, <1>9, <1>10 DEF n, Step, list, first, SplitRun

\* The numbers are those below V, each of another string id.
Numbered(g) == DOMAIN g.node_pool = 0 .. g.V - 1 /\ IsInjective(g.node_pool)

\* The states when state s, numbered i, has been replaced by k copies, and how many.
PoolAfter(g, i, s, k) ==
    [j \in { x \in 0 .. g.V - 1 : x # i \/ k # 0 } \cup g.V .. g.V + k - 2 |->
        IF j = i THEN Append(s, 0)
        ELSE IF j < g.V THEN g.node_pool[j] ELSE Append(s, j - g.V + 1)]
SizeAfter(g, k) == IF k = 0 THEN g.V ELSE g.V + k - 1

\* The edges then.
EdgeAfter(g, s, k, room, loop, from, to, e) ==
    \/ e \in Edges(g) /\ e[1] # s /\ e[2] # s
    \/ \E p \in 0 .. k - 1 : CopyHas(Append(s, p), p, room, loop, from, to, e)

\* The pool grows by a copy.
LEMMA PoolGrows ==
    ASSUME NEW g, g.V \in Nat, Numbered(g), NEW i \in 0 .. g.V - 1, NEW s, NEW k \in Nat
    PROVE  /\ k = 0 => PoolAfter(g, i, s, 1) = Put(PoolAfter(g, i, s, 0), i, Append(s, 0))
           /\ k # 0 => PoolAfter(g, i, s, k + 1)
                          = Put(PoolAfter(g, i, s, k), g.V + k - 1, Append(s, k))
<1> DEFINE D(q) == { x \in 0 .. g.V - 1 : x # i \/ q # 0 } \cup g.V .. g.V + q - 2
           at(j) == IF j = i THEN Append(s, 0)
                    ELSE IF j < g.V THEN g.node_pool[j] ELSE Append(s, j - g.V + 1)
<1>1. \A q : PoolAfter(g, i, s, q) = [j \in D(q) |-> at(j)]
  BY DEF PoolAfter
<1>2. at(i) = Append(s, 0) /\ (k # 0 => at(g.V + k - 1) = Append(s, k))
  <2>1. k # 0 => g.V + k - 1 # i /\ ~(g.V + k - 1 < g.V) /\ (g.V + k - 1) - g.V + 1 = k
    OBVIOUS
  <2> QED
    BY <2>1
<1>3. D(1) = D(0) \cup {i} /\ (k # 0 => D(k + 1) = D(k) \cup {g.V + k - 1})
  <2>1. g.V .. g.V + 1 - 2 = {} /\ g.V .. g.V + 0 - 2 = {}
    OBVIOUS
  <2>2. D(0) = (0 .. g.V - 1) \ {i} /\ D(1) = 0 .. g.V - 1
    BY <2>1
  <2>3. k # 0 => /\ D(k) = (0 .. g.V - 1) \cup g.V .. g.V + k - 2
                 /\ D(k + 1) = (0 .. g.V - 1) \cup g.V .. g.V + k - 1
    <3>1. ASSUME NEW q, q # 0 PROVE D(q) = (0 .. g.V - 1) \cup g.V .. g.V + q - 2
      <4>1. { x \in 0 .. g.V - 1 : x # i \/ q # 0 } = 0 .. g.V - 1
        BY <3>1
      <4> QED
        BY <4>1, Zenon
    <3>2. g.V + (k + 1) - 2 = g.V + k - 1 /\ k + 1 # 0
      OBVIOUS
    <3> HIDE DEF D
    <3> QED
      BY <3>1, <3>2
  <2>4. k # 0 => g.V .. g.V + k - 1 = (g.V .. g.V + k - 2) \cup {g.V + k - 1}
    OBVIOUS
  <2>5. D(1) = D(0) \cup {i}
    BY <2>2
  <2>6. k # 0 => D(k + 1) = D(k) \cup {g.V + k - 1}
    <3> HIDE DEF D
    <3> QED
      BY <2>3, <2>4
  <2> QED
    BY <2>5, <2>6
<1> HIDE DEF D, at
<1>4. [j \in D(1) |-> at(j)] = Put([j \in D(0) |-> at(j)], i, at(i))
  BY <1>3 DEF Put
<1>5. k # 0 => [j \in D(k + 1) |-> at(j)] = Put([j \in D(k) |-> at(j)], g.V + k - 1, at(g.V + k - 1))
  BY <1>3 DEF Put
<1> QED
  BY <1>1, <1>2, <1>4, <1>5

\* What copy k and the edges of h and of the copy are between.
Within(h, k, s, to, from, K) ==
    Keys(h) \subseteq K /\ Append(s, k) \in K /\ ToSet(to) \subseteq K /\ ToSet(from) \subseteq K

\* Graph a is h with copy k.
HasCopy(a, h, k, i, s, room, loop, to, from, K) ==
    /\ Listed(a) /\ Keys(a) \subseteq K
    /\ \A e : e \in Edges(a) <=>
                 e \in Edges(h) \/ CopyHas(Append(s, k), k, room, loop, from, to, e)
    /\ a.V = IF k = 0 THEN h.V ELSE h.V + 1
    /\ a.node_pool = Put(h.node_pool, IF k = 0 THEN i ELSE h.V, Append(s, k))

\* A copy more.
LEMMA CopyMore ==
    ASSUME NEW h, Listed(h), NEW s \in Name, NEW k \in Nat, NEW i \in Nat,
           NEW room \in Nat \ {0}, NEW loop \in BOOLEAN, NEW to \in Seq(Name), NEW from \in Seq(Name),
           NEW K, Within(h, k, s, to, from, K)
    PROVE  HasCopy(addCopy(h, k, i, s, room, loop, to, from), h, k, i, s, room, loop, to, from, K)
<1> DEFINE copy == Append(s, k)
           u == IF k = 0 THEN addNodeAs(h, copy, i) ELSE addNode(h, copy)
           edges == CopyEdges(copy, k, room, loop, from, to)
           a == addCopy(h, k, i, s, room, loop, to, from)
<1> USE DEF Within
<1>1. copy \in Name
  BY DEF Name
<1>2. a = addEdges(u, edges)
  BY DEF addCopy
<1> HIDE DEF copy, a
<1>3. /\ Listed(u) /\ Edges(u) = Edges(h) /\ Keys(u) = Keys(h)
      /\ u.V = IF k = 0 THEN h.V ELSE h.V + 1
      /\ u.node_pool = Put(h.node_pool, IF k = 0 THEN i ELSE h.V, copy)
  <2>1. /\ Listed(addNodeAs(h, copy, i)) /\ Edges(addNodeAs(h, copy, i)) = Edges(h)
        /\ addNodeAs(h, copy, i).V = h.V /\ Keys(addNodeAs(h, copy, i)) = Keys(h)
        /\ addNodeAs(h, copy, i).node_pool = Put(h.node_pool, i, copy)
    BY <1>1, NodeAdded, Zenon
  <2>2. /\ Listed(addNode(h, copy)) /\ Edges(addNode(h, copy)) = Edges(h)
        /\ addNode(h, copy).V = h.V + 1 /\ Keys(addNode(h, copy)) = Keys(h)
        /\ addNode(h, copy).node_pool = Put(h.node_pool, h.V, copy)
    BY <1>1, NodeAdded, Zenon
  <2> QED
    BY <2>1, <2>2
<1>4. edges \in Seq(Name \X Name)
  BY <1>1, CopyEdgesHave, Zenon
<1>5. \A e : e \in ToSet(edges) <=> CopyHas(copy, k, room, loop, from, to, e)
  BY <1>1, CopyEdgesHave, Zenon
<1> HIDE DEF u, edges
<1>6. ASSUME NEW e \in ToSet(edges) PROVE e[1] \in K /\ e[2] \in K
  <2>1. copy \in K
    BY DEF copy
  <2>2. CASE loop /\ e = <<copy, copy>>
    BY <2>1, <2>2
  <2>3. CASE \E q \in 1 .. room : k * room + q <= Len(to) /\ e = <<copy, to[k * room + q]>>
    <3>1. PICK q \in 1 .. room : k * room + q <= Len(to) /\ e = <<copy, to[k * room + q]>>
      BY <2>3
    <3> DEFINE j == k * room + q
    <3>2. k * room \in Nat
      OBVIOUS
    <3>3. j \in Nat /\ j >= 1 /\ j <= Len(to) /\ e = <<copy, to[j]>>
      BY <3>1, <3>2
    <3> HIDE DEF j
    <3>4. Len(to) \in Nat /\ ToSet(to) = { to[x] : x \in 1 .. Len(to) }
      BY ListHas
    <3>5. to[j] \in ToSet(to)
      BY <3>3, <3>4
    <3> QED
      BY <2>1, <3>3, <3>5
  <2>4. CASE \E x \in ToSet(from) : e = <<x, copy>>
    BY <2>1, <2>4
  <2> QED
    BY <1>5, <1>6, <2>2, <2>3, <2>4 DEF CopyHas
<1>7. Keys(u) \subseteq K
  BY <1>3
<1>8. /\ Listed(a) /\ Edges(a) = Edges(u) \cup ToSet(edges)
      /\ a.V = u.V /\ a.node_pool = u.node_pool /\ Keys(a) \subseteq K
  <2>1. \A e \in ToSet(edges) : e[1] \in K /\ e[2] \in K
    BY <1>6
  <2> QED
    BY <1>2, <1>3, <1>4, <1>7, <2>1, EdgesMore, Zenon
<1> QED
  BY <1>3, <1>5, <1>8 DEF a, copy, HasCopy

\* State s has number i.
IsAt(g, i, s) == Numbered(g) /\ i \in 0 .. g.V - 1 /\ s = g.node_pool[i]

\* What the edges after splitting are between.
WithinAll(g, s, m, to, from, K) ==
    /\ Keys(g) \ {s} \subseteq K /\ ToSet(to) \subseteq K /\ ToSet(from) \subseteq K
    /\ \A p \in 0 .. m - 1 : Append(s, p) \in K

\* Graph h is g with m copies for state s.
IsSplit(h, g, i, s, m, room, loop, to, from, K) ==
    /\ Listed(h) /\ Keys(h) \subseteq K
    /\ \A e : e \in Edges(h) <=> EdgeAfter(g, s, m, room, loop, from, to, e)
    /\ h.V = SizeAfter(g, m) /\ h.node_pool = PoolAfter(g, i, s, m)

\* After the last copy.
LEMMA SplitMakes ==
    ASSUME NEW g, Listed(g), NEW i, NEW s \in Name, IsAt(g, i, s),
           NEW room \in Nat \ {0}, NEW loop \in BOOLEAN, NEW to \in Seq(Name), NEW from \in Seq(Name),
           NEW m \in Nat, m = (Len(to) + room - 1) \div room,
           NEW K, WithinAll(g, s, m, to, from, K)
    PROVE  IsSplit(SplitInto(g, i, s, room, loop, to, from), g, i, s, m, room, loop, to, from, K)
<1> USE DEF WithinAll
<1> DEFINE E(k, e) == EdgeAfter(g, s, k, room, loop, from, to, e)
           After(h, k) == /\ Listed(h) /\ Keys(h) \subseteq K
                          /\ \A e : e \in Edges(h) <=> E(k, e)
                          /\ h.V = SizeAfter(g, k) /\ h.node_pool = PoolAfter(g, i, s, k)
<1>0. g.V \in Nat /\ i \in Nat /\ i \in 0 .. g.V - 1 /\ Numbered(g)
  BY GraphHas DEF Listed, IsAt
<1>1. Len(Numbers(m)) = m /\ \A k \in 1 .. m : Numbers(m)[k] = k - 1
  BY NumbersHave
<1>2. PICK f \in [0 .. m -> Graph] :
             /\ f[0] = remove_node_unsafe(g, s)
             /\ SplitInto(g, i, s, room, loop, to, from) = f[m]
             /\ \A k \in 1 .. m : f[k] = addCopy(f[k - 1], k - 1, i, s, room, loop, to, from)
  <2>1. SplitRun(g, i, s, room, loop, to, from)
    BY <1>0, SplitLoop
  <2>2. \E f \in [0 .. Len(Numbers(m)) -> Graph] :
             /\ f[0] = remove_node_unsafe(g, s)
             /\ SplitInto(g, i, s, room, loop, to, from) = f[Len(Numbers(m))]
             /\ \A k \in 1 .. Len(Numbers(m)) :
                    f[k] = addCopy(f[k - 1], Numbers(m)[k], i, s, room, loop, to, from)
    BY <2>1 DEF SplitRun
  <2>3. PICK f \in [0 .. Len(Numbers(m)) -> Graph] :
             /\ f[0] = remove_node_unsafe(g, s)
             /\ SplitInto(g, i, s, room, loop, to, from) = f[Len(Numbers(m))]
             /\ \A k \in 1 .. Len(Numbers(m)) :
                    f[k] = addCopy(f[k - 1], Numbers(m)[k], i, s, room, loop, to, from)
    BY <2>2
  <2>4. /\ f \in [0 .. m -> Graph] /\ f[0] = remove_node_unsafe(g, s)
        /\ SplitInto(g, i, s, room, loop, to, from) = f[m]
    BY <1>1, <2>3
  <2>5. ASSUME NEW k \in 1 .. m PROVE f[k] = addCopy(f[k - 1], k - 1, i, s, room, loop, to, from)
    <3>1. Numbers(m)[k] = k - 1 /\ k \in 1 .. Len(Numbers(m))
      BY <1>1
    <3>2. f[k] = addCopy(f[k - 1], Numbers(m)[k], i, s, room, loop, to, from)
      BY <2>3, <3>1
    <3> QED
      BY <3>1, <3>2
  <2> QED
    BY <2>4, <2>5
<1>3. After(f[0], 0)
  <2> DEFINE h == remove_node_unsafe(g, s)
             pool == h.node_pool
  <2>0. IsWithout(h, g, s)
    BY NodeRemoved
  <2>1. /\ Listed(h) /\ Edges(h) = { e \in Edges(g) : e[1] # s /\ e[2] # s }
        /\ h.V = g.V /\ Keys(h) = Keys(g) \ {s}
        /\ DOMAIN pool = { j \in DOMAIN g.node_pool : g.node_pool[j] # s }
        /\ pool = [j \in DOMAIN pool |-> g.node_pool[j]]
    <3> HIDE DEF h
    <3> QED
      BY <2>0 DEF IsWithout
  <2>2. f[0] = h
    BY <1>2
  <2>3. pool = PoolAfter(g, i, s, 0)
    <3>1. \A j \in 0 .. g.V - 1 : g.node_pool[j] # s <=> j # i
      BY DEF IsAt, Numbered, IsInjective
    <3>2. DOMAIN pool = { j \in 0 .. g.V - 1 : j # i }
      BY <1>0, <2>1, <3>1 DEF Numbered
    <3>3. pool = [j \in { x \in 0 .. g.V - 1 : x # i } |-> g.node_pool[j]]
      <4> HIDE DEF pool
      <4> QED
        BY <2>1, <3>2
    <3>4. g.V .. g.V + 0 - 2 = {} /\ \A j \in 0 .. g.V - 1 : j < g.V
      BY <1>0
    <3>5. { x \in 0 .. g.V - 1 : x # i \/ 0 # 0 } \cup g.V .. g.V + 0 - 2 = { x \in 0 .. g.V - 1 : x # i }
      BY <3>4
    <3> HIDE DEF pool
    <3> QED
      BY <3>3, <3>4, <3>5 DEF PoolAfter
  <2>4. \A e : E(0, e) <=> e \in Edges(g) /\ e[1] # s /\ e[2] # s
    <3>1. 0 .. 0 - 1 = {}
      OBVIOUS
    <3> QED
      BY <3>1 DEF EdgeAfter
  <2> HIDE DEF h, pool, E
  <2> QED
    BY <2>1, <2>2, <2>3, <2>4 DEF SizeAfter, pool
<1> DEFINE T == { k \in 0 .. m : After(f[k], k) }
<1>4. ASSUME NEW k \in 1 .. m, k - 1 \in T PROVE k \in T
  <2> DEFINE h == f[k - 1]
             p == k - 1
             a == addCopy(h, p, i, s, room, loop, to, from)
  <2>1. p \in Nat /\ p \in 0 .. m - 1 /\ k = p + 1 /\ a = f[k]
    BY <1>2
  <2>2. After(h, p)
    BY <1>4
  <2>3. Append(s, p) \in K
    BY <2>1
  <2> HIDE DEF h, p, a, E
  <2>4. /\ Listed(a) /\ Keys(a) \subseteq K
        /\ \A e : e \in Edges(a) <=> e \in Edges(h) \/ CopyHas(Append(s, p), p, room, loop, from, to, e)
        /\ a.V = IF p = 0 THEN h.V ELSE h.V + 1
        /\ a.node_pool = Put(h.node_pool, IF p = 0 THEN i ELSE h.V, Append(s, p))
    <3>1. Listed(h) /\ Keys(h) \subseteq K
      BY <2>2
    <3>2. i \in Nat /\ p \in Nat
      BY <1>0, <2>1
    <3>3. HasCopy(addCopy(h, p, i, s, room, loop, to, from), h, p, i, s, room, loop, to, from, K)
      <4>1. Within(h, p, s, to, from, K)
        BY <2>3, <3>1 DEF Within
      <4> QED
        BY <3>1, <3>2, <4>1, CopyMore
    <3> QED
      BY <3>3 DEF HasCopy, a
  <2>5. \A e : E(k, e) <=> E(p, e) \/ CopyHas(Append(s, p), p, room, loop, from, to, e)
    <3>1. \A q : q \in 0 .. k - 1 <=> q \in 0 .. p - 1 \/ q = p
      BY <2>1
    <3> QED
      BY <3>1 DEF E, EdgeAfter
  <2>6. a.V = SizeAfter(g, k)
    BY <1>0, <2>1, <2>2, <2>4 DEF SizeAfter
  <2>7. a.node_pool = PoolAfter(g, i, s, k)
    <3>1. p # 0 => h.V = g.V + p - 1
      BY <2>2 DEF SizeAfter
    <3>2. h.node_pool = PoolAfter(g, i, s, p)
      BY <2>2
    <3>3. /\ p = 0 => PoolAfter(g, i, s, 1) = Put(PoolAfter(g, i, s, 0), i, Append(s, 0))
          /\ p # 0 => PoolAfter(g, i, s, p + 1)
                         = Put(PoolAfter(g, i, s, p), g.V + p - 1, Append(s, p))
      BY <1>0, <2>1, PoolGrows
    <3>4. CASE p = 0
      BY <2>1, <2>4, <3>2, <3>3, <3>4
    <3>5. CASE p # 0
      BY <2>1, <2>4, <3>1, <3>2, <3>3, <3>5
    <3> QED
      BY <3>4, <3>5
  <2>8. After(a, k)
    BY <2>2, <2>4, <2>5, <2>6, <2>7
  <2> HIDE DEF After
  <2> QED
    BY <2>1, <2>8
<1>5. After(f[m], m)
  <2>1. 0 \in T
    BY <1>3
  <2>2. 0 .. m \subseteq T
    <3> HIDE DEF T
    <3> QED
      BY <1>4, <2>1, UpTo
  <2> HIDE DEF After
  <2> QED
    BY <2>2
<1> HIDE DEF E
<1> QED
  BY <1>2, <1>5 DEF E, IsSplit

\* String id b is a, or a with numbers after it.
Begins(b, a) == Len(a) <= Len(b) /\ \A k \in 1 .. Len(a) : a[k] = b[k]

\* No state's string id is the beginning of another's.
PrefixFree(g) == \A a, b \in StrIds(g) : Begins(b, a) => a = b

\* The ids of copies.
LEMMA CopyIds ==
    ASSUME NEW s \in Name, s # <<>>
    PROVE  /\ \A p \in Nat : /\ Append(s, p) \in Name /\ Append(s, p) # <<>>
                             /\ Original(Append(s, p)) = Original(s)
                             /\ Begins(Append(s, p), s) /\ Append(s, p) # s
           /\ \A p, q \in Nat : Append(s, p) = Append(s, q) => p = q
           /\ \A p, q \in Nat : Begins(Append(s, p), Append(s, q)) => p = q
           /\ \A a \in Name, p \in Nat :
                 /\ Begins(a, Append(s, p)) => Begins(a, s)
                 /\ Begins(Append(s, p), a) => Begins(s, a) \/ a = Append(s, p)
<1> DEFINE n == Len(s)
<1>1. n \in Nat /\ n >= 1
  BY DEF Name
<1>2. \A p \in Nat : /\ Append(s, p) \in Name /\ Len(Append(s, p)) = n + 1
                     /\ Append(s, p)[n + 1] = p /\ \A k \in 1 .. n : Append(s, p)[k] = s[k]
  BY DEF Name
<1> HIDE DEF n
<1>3. ASSUME NEW p \in Nat
      PROVE  /\ Append(s, p) # <<>> /\ Original(Append(s, p)) = Original(s)
             /\ Begins(Append(s, p), s) /\ Append(s, p) # s
  <2>1. Append(s, p) # <<>> /\ Append(s, p) # s
    BY <1>1, <1>2 DEF n
  <2>2. Append(s, p)[1] = s[1]
    BY <1>1, <1>2
  <2>3. Head(Append(s, p)) = Append(s, p)[1] /\ Head(s) = s[1]
    BY <1>2 DEF Name
  <2>4. Begins(Append(s, p), s)
    BY <1>1, <1>2 DEF Begins, n
  <2> QED
    BY <2>1, <2>2, <2>3, <2>4 DEF Original
<1>4. \A p, q \in Nat : Append(s, p) = Append(s, q) => p = q
  BY <1>2
<1>5. ASSUME NEW p \in Nat, NEW q \in Nat, Begins(Append(s, p), Append(s, q)) PROVE p = q
  <2>1. n + 1 \in 1 .. n + 1
    BY <1>1
  <2>2. Append(s, q)[n + 1] = Append(s, p)[n + 1]
    BY <1>2, <1>5, <2>1 DEF Begins
  <2> QED
    BY <1>2, <2>2
<1>6. ASSUME NEW a \in Name, NEW p \in Nat, Begins(a, Append(s, p)) PROVE Begins(a, s)
  <2>1. Len(a) \in Nat /\ n + 1 <= Len(a) /\ \A k \in 1 .. n + 1 : Append(s, p)[k] = a[k]
    BY <1>2, <1>6 DEF Begins, Name
  <2>2. \A k \in 1 .. n : k \in 1 .. n + 1
    BY <1>1
  <2>3. \A k \in 1 .. n : s[k] = a[k]
    BY <1>2, <2>1, <2>2
  <2> QED
    BY <1>1, <2>1, <2>3 DEF Begins, n
<1>7. ASSUME NEW a \in Name, NEW p \in Nat, Begins(Append(s, p), a)
      PROVE  Begins(s, a) \/ a = Append(s, p)
  <2>1. /\ Len(a) \in Nat /\ Len(a) <= n + 1 /\ \A k \in 1 .. Len(a) : a[k] = Append(s, p)[k]
    BY <1>2, <1>7 DEF Begins, Name
  <2>2. CASE Len(a) <= n
    <3>1. \A k \in 1 .. Len(a) : k \in 1 .. n
      BY <1>1, <2>1, <2>2
    <3>2. \A k \in 1 .. Len(a) : a[k] = s[k]
      BY <1>2, <2>1, <3>1
    <3> QED
      BY <2>2, <3>2 DEF Begins, n
  <2>3. CASE Len(a) = n + 1
    <3>1. a \in Seq(Nat) /\ Append(s, p) \in Seq(Nat) /\ Len(a) = Len(Append(s, p))
      BY <1>2, <2>3 DEF Name
    <3>2. \A k \in 1 .. Len(a) : a[k] = Append(s, p)[k]
      BY <2>1
    <3>3. a = Append(s, p)
      BY <3>1, <3>2, SeqEqual
    <3> QED
      BY <3>3
  <2> QED
    BY <1>1, <2>1, <2>2, <2>3
<1> QED
  BY <1>2, <1>3, <1>4, <1>5, <1>6, <1>7

CopiesOf(s, m) == { Append(s, p) : p \in 0 .. m - 1 }

\* The states after splitting.
LEMMA SplitIds ==
    ASSUME NEW g, Listed(g), NEW i, NEW s \in Name, IsAt(g, i, s), s # <<>>, PrefixFree(g),
           NEW m \in Nat, m >= 1, NEW h, h.V = SizeAfter(g, m), h.node_pool = PoolAfter(g, i, s, m)
    PROVE  /\ Numbered(h) /\ StrIds(h) = (StrIds(g) \ {s}) \cup CopiesOf(s, m)
           /\ s \in StrIds(g) /\ StrIds(g) \cap CopiesOf(s, m) = {}
<1> DEFINE pool == h.node_pool
           V == g.V
<1>1. V \in Nat /\ i \in 0 .. V - 1 /\ s = g.node_pool[i] /\ DOMAIN g.node_pool = 0 .. V - 1
  BY GraphHas DEF Listed, IsAt, Numbered
<1>2. \A j, k \in 0 .. V - 1 : g.node_pool[j] = g.node_pool[k] => j = k
  BY <1>1 DEF IsAt, Numbered, IsInjective
<1>3. StrIds(g) = { g.node_pool[j] : j \in 0 .. V - 1 }
  BY <1>1 DEF StrIds, Range
<1>4. s \in StrIds(g)
  BY <1>1, <1>3
<1>5. \A p \in Nat : Append(s, p) \notin StrIds(g)
  BY <1>4, CopyIds DEF PrefixFree
<1>6. h.V = V + m - 1 /\ DOMAIN pool = 0 .. V + m - 2
  <2>1. h.V = V + m - 1
    BY DEF SizeAfter
  <2>2. DOMAIN pool = { x \in 0 .. V - 1 : x # i \/ m # 0 } \cup V .. V + m - 2
    BY DEF PoolAfter
  <2>3. { x \in 0 .. V - 1 : x # i \/ m # 0 } = 0 .. V - 1
    OBVIOUS
  <2>4. (0 .. V - 1) \cup V .. V + m - 2 = 0 .. V + m - 2
    BY <1>1
  <2> QED
    BY <2>1, <2>2, <2>3, <2>4
<1>7. \A j \in 0 .. V + m - 2 :
         pool[j] = IF j = i THEN Append(s, 0)
                   ELSE IF j < V THEN g.node_pool[j] ELSE Append(s, j - V + 1)
  BY <1>6 DEF PoolAfter
<1>8. /\ i \in 0 .. V + m - 2 /\ pool[i] = Append(s, 0)
      /\ \A j \in 0 .. V - 1 : j # i => j \in 0 .. V + m - 2 /\ pool[j] = g.node_pool[j]
      /\ \A p \in 1 .. m - 1 : V + p - 1 \in 0 .. V + m - 2 /\ pool[V + p - 1] = Append(s, p)
  <2>1. i \in 0 .. V + m - 2
    BY <1>1
  <2>2. ASSUME NEW j \in 0 .. V - 1, j # i PROVE j \in 0 .. V + m - 2 /\ pool[j] = g.node_pool[j]
    <3>1. j \in 0 .. V + m - 2 /\ j < V
      BY <1>1
    <3> QED
      BY <1>7, <2>2, <3>1
  <2>3. ASSUME NEW p \in 1 .. m - 1
        PROVE  V + p - 1 \in 0 .. V + m - 2 /\ pool[V + p - 1] = Append(s, p)
    <3>1. V + p - 1 \in 0 .. V + m - 2 /\ V + p - 1 # i /\ ~(V + p - 1 < V) /\ (V + p - 1) - V + 1 = p
      BY <1>1
    <3> QED
      BY <1>7, <3>1
  <2> QED
    BY <1>7, <2>1, <2>2, <2>3
<1> HIDE DEF pool, V
<1>9. ASSUME NEW j \in 0 .. V + m - 2
      PROVE  \/ j = i /\ pool[j] = Append(s, 0)
             \/ j \in 0 .. V - 1 /\ j # i /\ pool[j] = g.node_pool[j]
             \/ j \notin 0 .. V - 1 /\ j - V + 1 \in 1 .. m - 1 /\ pool[j] = Append(s, j - V + 1)
  <2>1. j = i \/ (j \in 0 .. V - 1 /\ j # i) \/ (j \notin 0 .. V - 1 /\ j - V + 1 \in 1 .. m - 1 /\ V + (j - V + 1) - 1 = j)
    BY <1>1
  <2> QED
    BY <1>8, <2>1
<1>10. \A p, q \in Nat : Append(s, p) = Append(s, q) => p = q
  BY CopyIds
<1>11. \A j, k \in 0 .. V + m - 2 : pool[j] = pool[k] => j = k
  <2> SUFFICES ASSUME NEW j \in 0 .. V + m - 2, NEW k \in 0 .. V + m - 2, pool[j] = pool[k] PROVE j = k
    OBVIOUS
  <2>1. \A x \in 0 .. V - 1, p \in Nat : g.node_pool[x] # Append(s, p)
    BY <1>3, <1>5
  <2>2. \A x \in 0 .. V + m - 2 : x - V + 1 \in 1 .. m - 1 => x - V + 1 \in Nat /\ x - V + 1 # 0
    OBVIOUS
  <2>3. CASE j \in 0 .. V - 1 /\ j # i
    <3>1. pool[j] = g.node_pool[j] /\ \A p \in Nat : pool[k] # Append(s, p)
      BY <1>8, <2>1, <2>3
    <3>2. k \in 0 .. V - 1 /\ k # i /\ pool[k] = g.node_pool[k]
      BY <1>9, <2>2, <3>1
    <3> QED
      BY <1>2, <2>3, <3>1, <3>2
  <2>4. CASE j = i
    <3>1. \A x \in 0 .. V - 1 : pool[k] # g.node_pool[x]
      BY <1>8, <2>1, <2>4
    <3>2. k = i \/ (k - V + 1 \in Nat /\ k - V + 1 # 0 /\ Append(s, 0) = Append(s, k - V + 1))
      BY <1>8, <1>9, <2>2, <2>4, <3>1
    <3> QED
      BY <1>10, <2>4, <3>2
  <2>5. CASE j \notin 0 .. V - 1
    <3>1. /\ j - V + 1 \in Nat /\ j - V + 1 # 0 /\ pool[j] = Append(s, j - V + 1)
      BY <1>1, <1>9, <2>2, <2>5
    <3>2. \A x \in 0 .. V - 1 : pool[k] # g.node_pool[x]
      BY <2>1, <3>1
    <3>3. k = i => FALSE
      BY <1>8, <1>10, <3>1
    <3>4. k - V + 1 \in Nat /\ Append(s, j - V + 1) = Append(s, k - V + 1)
      BY <1>9, <2>2, <3>1, <3>2, <3>3
    <3>5. j - V + 1 = k - V + 1
      BY <1>10, <3>1, <3>4
    <3> QED
      BY <1>1, <3>5
  <2> QED
    BY <2>3, <2>4, <2>5
<1>12. Numbered(h)
  <2>1. V + m - 2 = h.V - 1
    BY <1>1, <1>6
  <2> QED
    BY <1>6, <1>11, <2>1 DEF Numbered, IsInjective, pool
<1>13. StrIds(h) = { pool[j] : j \in 0 .. V + m - 2 }
  BY <1>6 DEF StrIds, Range, pool
<1>14. StrIds(h) = (StrIds(g) \ {s}) \cup CopiesOf(s, m)
  <2>1. ASSUME NEW j \in 0 .. V + m - 2 PROVE pool[j] \in (StrIds(g) \ {s}) \cup CopiesOf(s, m)
    <3>1. CASE j = i
      BY <1>8, <3>1 DEF CopiesOf
    <3>2. CASE j \in 0 .. V - 1 /\ j # i
      <4>1. pool[j] = g.node_pool[j] /\ pool[j] # s
        BY <1>1, <1>2, <1>8, <3>2
      <4> QED
        BY <1>3, <3>2, <4>1
    <3>3. CASE j \notin 0 .. V - 1
      <4>1. j - V + 1 \in 0 .. m - 1 /\ pool[j] = Append(s, j - V + 1)
        BY <1>1, <1>9, <3>3
      <4> QED
        BY <4>1 DEF CopiesOf
    <3> QED
      BY <3>1, <3>2, <3>3
  <2>2. ASSUME NEW a \in StrIds(g) \ {s} PROVE a \in StrIds(h)
    <3>1. PICK j \in 0 .. V - 1 : a = g.node_pool[j]
      BY <1>3
    <3>2. j # i
      BY <1>1, <2>2, <3>1
    <3> QED
      BY <1>8, <1>13, <3>1, <3>2
  <2>3. ASSUME NEW p \in 0 .. m - 1 PROVE Append(s, p) \in StrIds(h)
    <3>1. CASE p = 0
      BY <1>8, <1>13, <3>1
    <3>2. CASE p # 0
      <4>1. p \in 1 .. m - 1
        BY <3>2
      <4> QED
        BY <1>8, <1>13, <4>1
    <3> QED
      BY <3>1, <3>2
  <2> QED
    BY <1>13, <2>1, <2>2, <2>3 DEF CopiesOf
<1>15. StrIds(g) \cap CopiesOf(s, m) = {}
  <2>1. \A p \in 0 .. m - 1 : Append(s, p) \notin StrIds(g)
    BY <1>5
  <2> QED
    BY <2>1 DEF CopiesOf
<1> QED
  BY <1>4, <1>12, <1>14, <1>15

\* Copies numbered below m, with room each, have room for len successors.
Chunked(m, room, len) ==
    /\ m \in Nat /\ (len >= 1 => m >= 1)
    /\ \A j \in 1 .. len : \E p \in 0 .. m - 1, k \in 1 .. room : p * room + k = j

\* As many copies as the while loop makes are enough for all successors.
LEMMA Chunks ==
    ASSUME NEW len \in Nat, NEW room \in Nat \ {0}, NEW m, m = (len + room - 1) \div room
    PROVE  Chunked(m, room, len)
<1>1. m \in Nat /\ len <= m * room
  <2> DEFINE x == len + room - 1
             r == x % room
  <2>1. x \in Nat
    OBVIOUS
  <2> HIDE DEF x
  <2>2. x \div room \in Nat /\ r \in 0 .. room - 1 /\ x = ((x \div room) * room) + r
    BY <2>1, SMTT(30)
  <2> HIDE DEF r
  <2>3. m = x \div room
    BY DEF x
  <2>4. m \in Nat /\ x = (m * room) + r
    BY <2>2, <2>3
  <2>5. m * room \in Nat
    BY <2>4
  <2>6. len = x - room + 1
    BY DEF x
  <2> QED
    BY <2>1, <2>2, <2>4, <2>5, <2>6
<1>2. len >= 1 => m >= 1
  <2>1. CASE m = 0
    <3>1. m * room = 0
      BY <2>1
    <3> QED
      BY <1>1, <3>1
  <2> QED
    BY <1>1, <2>1
<1>3. ASSUME NEW j \in 1 .. len PROVE \E p \in 0 .. m - 1, k \in 1 .. room : p * room + k = j
  <2> DEFINE p == (j - 1) \div room
             r == (j - 1) % room
  <2>1. p \in Nat /\ r \in 0 .. room - 1 /\ j - 1 = (p * room) + r
    <3>1. j - 1 \in Nat
      OBVIOUS
    <3> QED
      BY <3>1, SMTT(30)
  <2> HIDE DEF p, r
  <2>2. p < m
    <3>1. CASE p >= m
      <4>1. p - m \in Nat
        BY <1>1, <2>1, <3>1
      <4>2. (p - m) * room >= 0
        BY <4>1
      <4>3. p * room = ((p - m) * room) + (m * room)
        BY <1>1, <2>1
      <4>4. p * room \in Int /\ m * room \in Int /\ (p - m) * room \in Int
        BY <1>1, <2>1
      <4>5. p * room >= len
        BY <1>1, <4>2, <4>3, <4>4
      <4> QED
        BY <2>1, <4>4, <4>5
    <3> QED
      BY <1>1, <2>1, <3>1
  <2>3. r + 1 \in 1 .. room /\ p \in 0 .. m - 1
    BY <1>1, <2>1, <2>2
  <2>4. p * room + (r + 1) = j
    <3>1. p * room \in Int
      BY <2>1
    <3> QED
      BY <2>1, <3>1
  <2> QED
    BY <2>3, <2>4
<1> QED
  BY <1>1, <1>2, <1>3 DEF Chunked

\* Edges and lists.
LEMMA EdgeHas ==
    ASSUME NEW g, Listed(g)
    PROVE  /\ \A a, b : <<a, b>> \in Edges(g) <=> a \in Name /\ b \in Out(g, a)
           /\ \A a, b : <<a, b>> \in Edges(g) <=> b \in Name /\ a \in In(g, b)
           /\ \A e \in Edges(g) : e = <<e[1], e[2]>> /\ e[1] \in Name /\ e[2] \in Name
           /\ \A a, b : <<a, b>> \in Edges(g) => a \in Keys(g) /\ b \in Keys(g)
<1>1. /\ \A a \in Name : Out(g, a) \subseteq Name /\ In(g, a) \subseteq Name
      /\ \A a : a \notin Keys(g) => Out(g, a) = {} /\ In(g, a) = {}
  BY GraphHas DEF Listed
<1>2. \A a, b \in Name : b \in Out(g, a) <=> a \in In(g, b)
  BY DEF Listed
<1>3. \A a, b : <<a, b>> \in Edges(g) <=> a \in Name /\ b \in Name /\ b \in Out(g, a)
  BY DEF Edges
<1>4. \A e \in Edges(g) : e = <<e[1], e[2]>> /\ e[1] \in Name /\ e[2] \in Name
  BY DEF Edges
<1> QED
  BY <1>1, <1>2, <1>3, <1>4

\* Graph g is made of copies of the states of n: every edge has an original, and
\* an original edge is there for every copy of where it ends.
EdgesAreOriginal(g, n) ==
    \A a, b : <<a, b>> \in Edges(g) => Original(b) \in n.edges[Original(a)]
EdgesAreKept(g, n) ==
    \A b \in StrIds(g), u \in Sids(n) :
        Original(b) \in n.edges[u] => \E a \in StrIds(g) : Original(a) = u /\ <<a, b>> \in Edges(g)
Faithful(g, n) ==
    /\ Listed(g) /\ Numbered(g) /\ Keys(g) \subseteq StrIds(g)
    /\ \A a \in StrIds(g) : a # <<>> /\ Original(a) \in Sids(n)
    /\ EdgesAreOriginal(g, n) /\ EdgesAreKept(g, n)

\* The sids a graph has copies of.
LEMMA OriginalsHave ==
    \A g : Originals(g) = { Original(a) : a \in StrIds(g) }
<1> SUFFICES ASSUME NEW g PROVE Originals(g) = { Original(a) : a \in StrIds(g) }
  OBVIOUS
<1>1. DOMAIN Base(g) = DOMAIN g.node_pool /\ \A i \in DOMAIN g.node_pool : Base(g)[i] = Original(g.node_pool[i])
  BY DEF Base
<1> QED
  BY <1>1 DEF Originals, StrIds, Range

\* What a splitting is given: state s, numbered i, its successors and predecessors
\* without itself, and whether it has a loop.
MaySplit(g, i, s, loop, to, from) ==
    /\ IsAt(g, i, s)
    /\ loop \in BOOLEAN /\ (loop <=> <<s, s>> \in Edges(g))
    /\ to \in Seq(Name) /\ \A b : b \in ToSet(to) <=> <<s, b>> \in Edges(g) /\ b # s
    /\ from \in Seq(Name) /\ \A a : a \in ToSet(from) <=> <<a, s>> \in Edges(g) /\ a # s
    /\ Len(to) >= 1

\* The graph with copies for the state is faithful as well.
LEMMA SplitKeeps ==
    ASSUME NEW n, NEW g, Faithful(g, n), PrefixFree(g), NEW i, NEW s, NEW room \in Nat \ {0},
           NEW loop, NEW to, NEW from, MaySplit(g, i, s, loop, to, from)
    PROVE  /\ Faithful(SplitInto(g, i, s, room, loop, to, from), n)
           /\ PrefixFree(SplitInto(g, i, s, room, loop, to, from))
           /\ Originals(SplitInto(g, i, s, room, loop, to, from)) = Originals(g)
<1> DEFINE h == SplitInto(g, i, s, room, loop, to, from)
           m == (Len(to) + room - 1) \div room
           K == (StrIds(g) \ {s}) \cup CopiesOf(s, m)
<1>1. Listed(g) /\ Numbered(g) /\ Keys(g) \subseteq StrIds(g) /\ StrIds(g) \subseteq Name
  BY GraphHas DEF Faithful, Listed
<1>2. s \in StrIds(g) /\ s \in Name /\ s # <<>>
  <2>1. s \in StrIds(g)
    BY DEF MaySplit, IsAt, Numbered, StrIds, Range
  <2> QED
    BY <1>1, <2>1 DEF Faithful
<1>3. Len(to) \in Nat /\ Len(to) >= 1 /\ ToSet(to) = { to[k] : k \in 1 .. Len(to) }
  BY ListHas DEF MaySplit
<1>0. m = (Len(to) + room - 1) \div room
  OBVIOUS
<1> HIDE DEF m
<1>4. /\ m \in Nat /\ m >= 1
      /\ \A j \in 1 .. Len(to) : \E p \in 0 .. m - 1, k \in 1 .. room : p * room + k = j
  <2> DEFINE len == Len(to)
  <2>1. len \in Nat /\ len >= 1 /\ m = (len + room - 1) \div room
    BY <1>0, <1>3
  <2> HIDE DEF len
  <2>2. Chunked(m, room, len)
    BY <2>1, Chunks
  <2> QED
    BY <2>1, <2>2 DEF len, Chunked
<1>5. /\ \A p \in Nat : /\ Append(s, p) \in Name /\ Append(s, p) # <<>>
                        /\ Original(Append(s, p)) = Original(s) /\ Append(s, p) # s
      /\ \A a \in CopiesOf(s, m) : \E p \in 0 .. m - 1 : a = Append(s, p)
      /\ \A p \in 0 .. m - 1 : Append(s, p) \in CopiesOf(s, m)
  BY <1>2, CopyIds DEF CopiesOf
<1>6. /\ \A a, b : <<a, b>> \in Edges(g) => a \in StrIds(g) /\ b \in StrIds(g)
      /\ \A e \in Edges(g) : e = <<e[1], e[2]>>
  BY <1>1, EdgeHas
<1>7. /\ Listed(h) /\ Keys(h) \subseteq K
      /\ \A e : e \in Edges(h) <=> EdgeAfter(g, s, m, room, loop, from, to, e)
      /\ h.V = SizeAfter(g, m) /\ h.node_pool = PoolAfter(g, i, s, m)
  <2>1. Keys(g) \ {s} \subseteq K /\ ToSet(to) \subseteq K /\ ToSet(from) \subseteq K
    BY <1>1, <1>6 DEF MaySplit
  <2>2. \A p \in 0 .. m - 1 : Append(s, p) \in K
    BY <1>5
  <2>3. IsAt(g, i, s) /\ loop \in BOOLEAN /\ to \in Seq(Name) /\ from \in Seq(Name)
    BY DEF MaySplit
  <2> HIDE DEF K
  <2>4. WithinAll(g, s, m, to, from, K)
    BY <2>1, <2>2 DEF WithinAll
  <2>5. IsSplit(h, g, i, s, m, room, loop, to, from, K)
    BY <1>0, <1>1, <1>2, <1>4, <2>3, <2>4, SplitMakes
  <2> HIDE DEF h
  <2> QED
    BY <2>5 DEF IsSplit
<1> HIDE DEF h
<1>8. Numbered(h) /\ StrIds(h) = K /\ StrIds(g) \cap CopiesOf(s, m) = {}
  <2>1. IsAt(g, i, s)
    BY DEF MaySplit
  <2> QED
    BY <1>1, <1>2, <1>4, <1>7, <2>1, SplitIds
<1>9. ASSUME NEW a \in K PROVE a # <<>> /\ Original(a) \in Sids(n)
  <2>1. CASE a \in StrIds(g)
    BY <2>1 DEF Faithful
  <2>2. CASE a \in CopiesOf(s, m)
    <3>1. PICK p \in 0 .. m - 1 : a = Append(s, p)
      BY <1>5, <2>2
    <3>2. p \in Nat
      BY <1>4
    <3> QED
      BY <1>2, <1>5, <3>1, <3>2 DEF Faithful
  <2> QED
    BY <2>1, <2>2
<1>10. EdgesAreOriginal(h, n)
  <2> SUFFICES ASSUME NEW a, NEW b, <<a, b>> \in Edges(h) PROVE Original(b) \in n.edges[Original(a)]
    BY DEF EdgesAreOriginal
  <2>1. \A x, y : <<x, y>> \in Edges(g) => Original(y) \in n.edges[Original(x)]
    BY DEF Faithful, EdgesAreOriginal
  <2>2. CASE <<a, b>> \in Edges(g)
    BY <2>1, <2>2
  <2>3. CASE \E p \in 0 .. m - 1 : CopyHas(Append(s, p), p, room, loop, from, to, <<a, b>>)
    <3>1. PICK p \in 0 .. m - 1 : CopyHas(Append(s, p), p, room, loop, from, to, <<a, b>>)
      BY <2>3
    <3>2. Original(Append(s, p)) = Original(s)
      BY <1>4, <1>5
    <3>3. CASE loop /\ <<a, b>> = <<Append(s, p), Append(s, p)>>
      <4>1. <<s, s>> \in Edges(g)
        BY <3>3 DEF MaySplit
      <4> QED
        BY <2>1, <3>2, <3>3, <4>1
    <3>4. CASE \E k \in 1 .. room : p * room + k <= Len(to) /\ <<a, b>> = <<Append(s, p), to[p * room + k]>>
      <4>1. PICK k \in 1 .. room : p * room + k <= Len(to) /\ <<a, b>> = <<Append(s, p), to[p * room + k]>>
        BY <3>4
      <4>2. p * room \in Nat
        <5>1. p \in Nat
          BY <1>4
        <5> QED
          BY <5>1
      <4>3. p * room + k \in 1 .. Len(to)
        BY <1>3, <4>1, <4>2
      <4>4. b \in ToSet(to) /\ a = Append(s, p)
        BY <1>3, <4>1, <4>3
      <4>5. <<s, b>> \in Edges(g)
        BY <4>4 DEF MaySplit
      <4> QED
        BY <2>1, <3>2, <4>4, <4>5
    <3>5. CASE \E x \in ToSet(from) : <<a, b>> = <<x, Append(s, p)>>
      <4>1. a \in ToSet(from) /\ b = Append(s, p)
        BY <3>5
      <4>2. <<a, s>> \in Edges(g)
        BY <4>1 DEF MaySplit
      <4> QED
        BY <2>1, <3>2, <4>1, <4>2
    <3> QED
      BY <3>1, <3>3, <3>4, <3>5 DEF CopyHas
  <2> QED
    BY <1>7, <2>2, <2>3 DEF EdgeAfter
<1>11. EdgesAreKept(h, n)
  <2> SUFFICES ASSUME NEW b \in K, NEW u \in Sids(n), Original(b) \in n.edges[u]
               PROVE  \E a \in K : Original(a) = u /\ <<a, b>> \in Edges(h)
    BY <1>8 DEF EdgesAreKept
  <2>1. \A y \in StrIds(g) : Original(y) \in n.edges[u]
            => \E x \in StrIds(g) : Original(x) = u /\ <<x, y>> \in Edges(g)
    BY DEF Faithful, EdgesAreKept
  <2>2. CASE b \in StrIds(g) /\ b # s
    <3>1. PICK a \in StrIds(g) : Original(a) = u /\ <<a, b>> \in Edges(g)
      BY <2>1, <2>2
    <3>2. CASE a # s
      <4>1. <<a, b>>[1] # s /\ <<a, b>>[2] # s
        BY <2>2, <3>2
      <4>2. <<a, b>> \in Edges(h)
        BY <1>7, <3>1, <4>1 DEF EdgeAfter
      <4> QED
        BY <3>1, <3>2, <4>2
    <3>3. CASE a = s
      <4>1. b \in ToSet(to)
        BY <2>2, <3>1, <3>3 DEF MaySplit
      <4>2. PICK j \in 1 .. Len(to) : b = to[j]
        BY <1>3, <4>1
      <4>3. PICK p \in 0 .. m - 1, k \in 1 .. room : p * room + k = j
        BY <1>4
      <4>4. CopyHas(Append(s, p), p, room, loop, from, to, <<Append(s, p), b>>)
        <5>1. j <= Len(to)
          BY <1>3
        <5>2. p * room + k <= Len(to) /\ b = to[p * room + k]
          BY <4>2, <4>3, <5>1, Zenon
        <5> QED
          BY <5>2, Zenon DEF CopyHas
      <4>5. <<Append(s, p), b>> \in Edges(h)
        BY <1>7, <4>4 DEF EdgeAfter
      <4>6. Append(s, p) \in K /\ Original(Append(s, p)) = u
        BY <1>4, <1>5, <3>1, <3>3
      <4> QED
        BY <4>5, <4>6
    <3> QED
      BY <3>2, <3>3
  <2>3. CASE b \in CopiesOf(s, m)
    <3>1. PICK p \in 0 .. m - 1 : b = Append(s, p)
      BY <1>5, <2>3
    <3>2. Original(b) = Original(s)
      BY <1>4, <1>5, <3>1
    <3>3. PICK a \in StrIds(g) : Original(a) = u /\ <<a, s>> \in Edges(g)
      BY <1>2, <2>1, <3>2
    <3>4. CASE a # s
      <4>1. a \in ToSet(from)
        BY <3>3, <3>4 DEF MaySplit
      <4>2. CopyHas(Append(s, p), p, room, loop, from, to, <<a, b>>)
        BY <3>1, <4>1 DEF CopyHas
      <4>3. <<a, b>> \in Edges(h)
        BY <1>7, <4>2 DEF EdgeAfter
      <4> QED
        BY <3>3, <3>4, <4>3
    <3>5. CASE a = s
      <4>1. loop
        BY <3>3, <3>5 DEF MaySplit
      <4>2. CopyHas(Append(s, p), p, room, loop, from, to, <<b, b>>)
        BY <3>1, <4>1 DEF CopyHas
      <4>3. <<b, b>> \in Edges(h)
        BY <1>7, <4>2 DEF EdgeAfter
      <4> QED
        BY <3>2, <3>3, <3>5, <4>3
    <3> QED
      BY <3>4, <3>5
  <2> QED
    BY <2>2, <2>3
<1>12. PrefixFree(h)
  <2> SUFFICES ASSUME NEW a \in K, NEW b \in K, Begins(b, a) PROVE a = b
    BY <1>8 DEF PrefixFree
  <2>0. /\ \A x, y \in StrIds(g) : Begins(y, x) => x = y
        /\ 0 .. m - 1 \subseteq Nat
    BY <1>4 DEF PrefixFree
  <2>1. /\ \A p, q \in Nat : Begins(Append(s, p), Append(s, q)) => p = q
        /\ \A x \in Name, p \in Nat :
                 /\ Begins(x, Append(s, p)) => Begins(x, s)
                 /\ Begins(Append(s, p), x) => Begins(s, x) \/ x = Append(s, p)
    BY <1>2, CopyIds
  <2>2. CASE a \in StrIds(g) /\ a # s /\ b \in StrIds(g)
    BY <2>0, <2>2
  <2>3. CASE a \in StrIds(g) /\ a # s /\ b \in CopiesOf(s, m)
    <3>1. PICK p \in 0 .. m - 1 : b = Append(s, p)
      BY <1>5, <2>3
    <3>2. Begins(s, a) \/ a = b
      BY <1>1, <2>0, <2>1, <2>3, <3>1
    <3> QED
      BY <1>2, <2>0, <2>3, <3>2
  <2>4. CASE a \in CopiesOf(s, m) /\ b \in StrIds(g) /\ b # s
    <3>1. PICK p \in 0 .. m - 1 : a = Append(s, p)
      BY <1>5, <2>4
    <3>2. Begins(b, s)
      BY <1>1, <2>0, <2>1, <2>4, <3>1
    <3> QED
      BY <1>2, <2>0, <2>4, <3>2
  <2>5. CASE a \in CopiesOf(s, m) /\ b \in CopiesOf(s, m)
    <3>1. PICK p \in 0 .. m - 1 : a = Append(s, p)
      BY <1>5, <2>5
    <3>2. PICK q \in 0 .. m - 1 : b = Append(s, q)
      BY <1>5, <2>5
    <3> QED
      BY <2>0, <2>1, <3>1, <3>2
  <2> QED
    BY <2>2, <2>3, <2>4, <2>5
<1>13. Originals(h) = Originals(g)
  <2>1. Originals(h) = { Original(a) : a \in K } /\ Originals(g) = { Original(a) : a \in StrIds(g) }
    BY <1>8, OriginalsHave
  <2>2. ASSUME NEW a \in CopiesOf(s, m) PROVE Original(a) = Original(s)
    <3>1. PICK p \in 0 .. m - 1 : a = Append(s, p)
      BY <1>5
    <3>2. p \in Nat
      BY <1>4
    <3> QED
      BY <1>5, <3>1, <3>2
  <2>3. Append(s, 0) \in CopiesOf(s, m)
    BY <1>4, <1>5
  <2> QED
    BY <1>2, <2>1, <2>2, <2>3
<1> QED
  BY <1>7, <1>8, <1>9, <1>10, <1>11, <1>12, <1>13 DEF Faithful, h

\* Graph h is sound if g is, and made of copies of the same states.
KeepsGraph(h, g, n) == Faithful(h, n) /\ PrefixFree(h) /\ Originals(h) = Originals(g)

\* A run was started on one of the jobs.
JobOK == job \in Jobs

\* limit_out_degree_on_nfa splits a state that is over the limit.
LEMMA SplitFaithful ==
    ASSUME JobOK, NEW n, NEW g, Faithful(g, n), PrefixFree(g), NEW i \in Big(g)
    PROVE  KeepsGraph(Split(g, i), g, n)
<1> DEFINE s == g.node_pool[i]
           adj == get_adj(g, s)
           loop == Contains(adj, s)
           to == RemoveFirst(adj, s)
           from == RemoveFirst(get_from(g, s), s)
<1>1. Listed(g) /\ Numbered(g) /\ StrIds(g) \subseteq Name
  BY GraphHas DEF Faithful, Listed
<1>2. i \in DOMAIN g.node_pool /\ Len(adj) > job.limit
  BY DEF Big, OutDegree
<1>3. s \in Name /\ i \in 0 .. g.V - 1
  BY <1>1, <1>2 DEF Numbered, StrIds, Range
<1>4. job.limit \in Nat /\ job.limit >= 2
  BY JobsAssumption DEF JobOK
<1>5. /\ adj \in Seq(Name) /\ IsInjective(adj)
      /\ get_from(g, s) \in Seq(Name) /\ IsInjective(get_from(g, s))
  BY <1>1, <1>3, GraphHas DEF Listed
<1>6. IsAt(g, i, s)
  BY <1>1, <1>3 DEF IsAt
<1> HIDE DEF s
<1>7. \A b : b \in ToSet(adj) <=> <<s, b>> \in Edges(g)
  BY <1>1, <1>3, EdgeHas DEF Out
<1>8. \A a : a \in ToSet(get_from(g, s)) <=> <<a, s>> \in Edges(g)
  BY <1>1, <1>3, EdgeHas DEF In
<1> HIDE DEF adj
<1>9. loop \in BOOLEAN /\ (loop <=> <<s, s>> \in Edges(g))
  BY <1>5, <1>7, ListHas DEF Contains
<1>10. /\ to \in Seq(Name) /\ ToSet(to) = ToSet(adj) \ {s}
       /\ Len(to) = Len(adj) - IF s \in ToSet(adj) THEN 1 ELSE 0
  BY <1>5, RemoveFirstHas
<1>11. from \in Seq(Name) /\ ToSet(from) = ToSet(get_from(g, s)) \ {s}
  BY <1>5, RemoveFirstHas
<1>12. Len(to) >= 1
  <2>1. Len(adj) \in Nat
    BY <1>5, ListHas
  <2> QED
    BY <1>2, <1>4, <1>10, <2>1
<1> HIDE DEF loop, to, from
<1>13. MaySplit(g, i, s, loop, to, from)
  BY <1>6, <1>7, <1>8, <1>9, <1>10, <1>11, <1>12 DEF MaySplit
<1>14. Share(loop) \in Nat \ {0}
  BY <1>4 DEF Share
<1>15. Split(g, i) = SplitInto(g, i, s, Share(loop), loop, to, from)
  <2>1. { SplitInto(g, i, x, Share(l), l, t, f) : x \in {s}, l \in {loop}, t \in {to}, f \in {from} }
            = {SplitInto(g, i, s, Share(loop), loop, to, from)}
    OBVIOUS
  <2>2. Split(g, i) = CHOOSE h \in { SplitInto(g, i, x, Share(l), l, t, f) :
                                       x \in {s}, l \in {loop}, t \in {to}, f \in {from} } : TRUE
    BY DEF Split, s, loop, to, from, adj
  <2> QED
    BY <2>1, <2>2, OnlyChoice
<1> DEFINE room == Share(loop)
<1> HIDE DEF room
<1>16. KeepsGraph(SplitInto(g, i, s, room, loop, to, from), g, n)
  BY <1>13, <1>14, SplitKeeps DEF KeepsGraph, room
<1> QED
  BY <1>15, <1>16 DEF room

\* The state to split is over the limit.
LEMMA SplitsBig ==
    ASSUME NEW n, NEW g, Faithful(g, n), Big(g) # {}
    PROVE  ToSplit(g) \in Big(g)
<1> DEFINE D == { OutDegree(g, i) : i \in Big(g) }
<1>1. Listed(g) /\ Numbered(g) /\ StrIds(g) \subseteq Name
  BY GraphHas DEF Faithful, Listed
<1>2. \A i \in Big(g) : i \in 0 .. g.V - 1 /\ g.node_pool[i] \in Name
  BY <1>1 DEF Big, Numbered, StrIds, Range
<1>3. g.V \in Nat
  BY <1>1, GraphHas DEF Listed
<1>4. \A i \in Big(g) : OutDegree(g, i) \in Nat
  <2>1. \A a \in Name : get_adj(g, a) \in Seq(Name)
    BY <1>1, GraphHas DEF Listed
  <2> QED
    BY <1>2, <2>1, LenProperties DEF OutDegree
<1>5. PICK d \in D : \A k \in D : d <= k
  <2>1. D \subseteq Nat /\ D # {}
    BY <1>4
  <2> HIDE DEF D
  <2> QED
    BY <2>1, Least
<1> DEFINE T == { i \in Big(g) : OutDegree(g, i) = d }
<1>6. PICK m \in T : \A k \in T : k <= m
  <2>1. T \subseteq Nat /\ T # {} /\ \A k \in T : k <= g.V
    BY <1>2, <1>3, <1>5
  <2> HIDE DEF T
  <2> QED
    BY <1>3, <2>1, Greatest
<1>7. ASSUME NEW k \in Big(g)
      PROVE  \/ OutDegree(g, m) < OutDegree(g, k)
             \/ OutDegree(g, m) = OutDegree(g, k) /\ m >= k
  <2>1. d <= OutDegree(g, k) /\ OutDegree(g, k) \in Nat /\ d \in Nat /\ OutDegree(g, m) = d
    BY <1>4, <1>5, <1>6
  <2>2. OutDegree(g, k) = d => k <= m
    BY <1>6
  <2>3. k \in Int /\ m \in Int
    BY <1>2, <1>3, <1>6
  <2> QED
    BY <2>1, <2>2, <2>3
<1>8. m \in Big(g)
  BY <1>6
<1> HIDE DEF T, D
<1> QED
  BY <1>7, <1>8 DEF ToSplit

-----------------------------------------------------------------------------
(* Sound graphs.                                                             *)

\* The two lists of an edge agree.
LEMMA FaithfulIsConsistent ==
    ASSUME NEW n, NEW g, Faithful(g, n)
    PROVE  Consistent(g)
<1>1. Listed(g) /\ Numbered(g) /\ Keys(g) \subseteq StrIds(g) /\ StrIds(g) \subseteq Name
  BY GraphHas DEF Faithful, Listed
<1>2. /\ \A a, b : <<a, b>> \in Edges(g) <=> a \in Name /\ b \in Out(g, a)
      /\ \A a, b : <<a, b>> \in Edges(g) <=> b \in Name /\ a \in In(g, b)
      /\ \A a, b : <<a, b>> \in Edges(g) => a \in Keys(g) /\ b \in Keys(g)
  BY <1>1, EdgeHas
<1>3. ASSUME NEW a \in StrIds(g)
      PROVE  /\ IsInjective(get_adj(g, a)) /\ IsInjective(get_from(g, a))
             /\ ToSet(get_adj(g, a)) = { b \in StrIds(g) : Contains(get_from(g, b), a) }
             /\ ToSet(get_from(g, a)) \subseteq StrIds(g)
  <2>1. IsInjective(get_adj(g, a)) /\ IsInjective(get_from(g, a))
    BY <1>1 DEF Listed
  <2>2. \A b : b \in ToSet(get_adj(g, a)) => b \in StrIds(g) /\ a \in ToSet(get_from(g, b))
    BY <1>1, <1>2 DEF Out, In
  <2>3. \A b \in StrIds(g) : a \in ToSet(get_from(g, b)) => b \in ToSet(get_adj(g, a))
    BY <1>1, <1>2 DEF Out, In
  <2>4. \A b \in StrIds(g) : a \in ToSet(get_from(g, b)) <=> Contains(get_from(g, b), a)
    <3>1. \A b \in StrIds(g) : get_from(g, b) \in Seq(Name)
      BY <1>1, GraphHas DEF Listed
    <3> QED
      BY <3>1, ListHas
  <2>5. ToSet(get_from(g, a)) \subseteq StrIds(g)
    BY <1>1, <1>2 DEF In
  <2> QED
    BY <2>1, <2>2, <2>3, <2>4, <2>5
<1>4. DOMAIN g.node_pool = 0 .. g.V - 1 /\ IsInjective(g.node_pool)
  BY <1>1 DEF Numbered
<1>5. DOMAIN g.adj \cup DOMAIN g.from_node \subseteq StrIds(g)
  BY <1>1 DEF Keys
<1> QED
  BY <1>3, <1>4, <1>5 DEF Consistent

\* A string id has one number.
LEMMA NumberOf ==
    ASSUME NEW g, Numbered(g)
    PROVE  /\ \A a \in StrIds(g) : IntId(g, a) \in DOMAIN g.node_pool /\ g.node_pool[IntId(g, a)] = a
           /\ \A i \in DOMAIN g.node_pool : g.node_pool[i] \in StrIds(g) /\ IntId(g, g.node_pool[i]) = i
<1>1. \A a \in StrIds(g) : IntId(g, a) \in DOMAIN g.node_pool /\ g.node_pool[IntId(g, a)] = a
  <2> SUFFICES ASSUME NEW a \in StrIds(g)
               PROVE  IntId(g, a) \in DOMAIN g.node_pool /\ g.node_pool[IntId(g, a)] = a
    OBVIOUS
  <2>1. \E i \in DOMAIN g.node_pool : g.node_pool[i] = a
    BY DEF StrIds, Range
  <2> QED
    BY <2>1 DEF IntId
<1>2. \A i \in DOMAIN g.node_pool : g.node_pool[i] \in StrIds(g)
  BY DEF StrIds, Range
<1>3. \A i, k \in DOMAIN g.node_pool : g.node_pool[i] = g.node_pool[k] => i = k
  BY DEF Numbered, IsInjective
<1> QED
  BY <1>1, <1>2, <1>3

\* A faithful graph is a network of copies.
LEMMA FaithfulIsCopy ==
    ASSUME NEW n, DOMAIN n.edges = Sids(n), NEW g, Faithful(g, n)
    PROVE  IsCopyOf(AsNetwork(g, n), n, Base(g))
<1> DEFINE base == Base(g)
           net == AsNetwork(g, n)
           pool == g.node_pool
<1>1. Listed(g) /\ Numbered(g) /\ Keys(g) \subseteq StrIds(g) /\ StrIds(g) \subseteq Name
  BY GraphHas DEF Faithful, Listed
<1>2. /\ \A a, b : <<a, b>> \in Edges(g) <=> a \in Name /\ b \in Out(g, a)
      /\ \A a, b : <<a, b>> \in Edges(g) => a \in Keys(g) /\ b \in Keys(g)
  BY <1>1, EdgeHas
<1>3. /\ \A a \in StrIds(g) : IntId(g, a) \in DOMAIN pool /\ pool[IntId(g, a)] = a
      /\ \A i \in DOMAIN pool : pool[i] \in StrIds(g) /\ IntId(g, pool[i]) = i
  BY <1>1, NumberOf
<1>4. DOMAIN base = DOMAIN pool /\ \A i \in DOMAIN pool : base[i] = Original(pool[i])
  BY DEF Base
<1>5. /\ DOMAIN net.edges = DOMAIN base
      /\ \A v \in DOMAIN base : net.edges[v] = { IntId(g, a) : a \in Out(g, pool[v]) }
  BY DEF AsNetwork, Out
<1>6. SameAttributes(net, n, base)
  BY DEF AsNetwork, SameAttributes
<1> HIDE DEF base, net, pool
<1>7. \A v, w \in DOMAIN base : w \in net.edges[v] <=> <<pool[v], pool[w]>> \in Edges(g)
  <2> SUFFICES ASSUME NEW v \in DOMAIN base, NEW w \in DOMAIN base
               PROVE  w \in net.edges[v] <=> <<pool[v], pool[w]>> \in Edges(g)
    OBVIOUS
  <2>1. ASSUME w \in net.edges[v] PROVE <<pool[v], pool[w]>> \in Edges(g)
    <3>1. PICK a \in Out(g, pool[v]) : w = IntId(g, a)
      BY <1>5, <2>1
    <3>2. <<pool[v], a>> \in Edges(g)
      BY <1>1, <1>2, <1>3, <1>4, <3>1
    <3>3. pool[w] = a
      BY <1>1, <1>2, <1>3, <3>1, <3>2
    <3> QED
      BY <3>2, <3>3
  <2>2. ASSUME <<pool[v], pool[w]>> \in Edges(g) PROVE w \in net.edges[v]
    <3>1. pool[w] \in Out(g, pool[v])
      BY <1>2, <2>2
    <3>2. IntId(g, pool[w]) = w
      BY <1>3, <1>4
    <3> QED
      BY <1>5, <3>1, <3>2
  <2> QED
    BY <2>1, <2>2
<1>8. \A v \in DOMAIN base : net.edges[v] \subseteq DOMAIN base
  <2>1. \A v \in DOMAIN base : Out(g, pool[v]) \subseteq StrIds(g)
    BY <1>1, <1>2, <1>3, <1>4
  <2> QED
    BY <1>3, <1>4, <1>5, <2>1
<1>9. \A v \in DOMAIN base : base[v] \in DOMAIN n.edges
  BY <1>3, <1>4 DEF Faithful
<1>10. \A v \in DOMAIN base : net.edges[v] \subseteq Copies(base, n.edges[base[v]])
  <2>1. \A a, b : <<a, b>> \in Edges(g) => Original(b) \in n.edges[Original(a)]
    BY DEF Faithful, EdgesAreOriginal
  <2>2. ASSUME NEW v \in DOMAIN base, NEW w \in DOMAIN base, w \in net.edges[v]
        PROVE  base[w] \in n.edges[base[v]]
    <3>1. <<pool[v], pool[w]>> \in Edges(g)
      BY <1>7, <2>2
    <3>2. Original(pool[w]) \in n.edges[Original(pool[v])]
      BY <2>1, <3>1
    <3>3. base[v] = Original(pool[v]) /\ base[w] = Original(pool[w])
      BY <1>4
    <3> QED
      BY <3>2, <3>3
  <2> QED
    BY <1>8, <2>2 DEF Copies
<1>11. ASSUME NEW w \in DOMAIN base, NEW u \in DOMAIN n.edges, base[w] \in n.edges[u]
       PROVE  \E v \in DOMAIN base : base[v] = u /\ w \in net.edges[v]
  <2>1. pool[w] \in StrIds(g) /\ Original(pool[w]) \in n.edges[u]
    BY <1>3, <1>4, <1>11
  <2>2. PICK a \in StrIds(g) : Original(a) = u /\ <<a, pool[w]>> \in Edges(g)
    BY <2>1 DEF Faithful, EdgesAreKept
  <2>3. PICK v \in DOMAIN base : a = pool[v]
    BY <1>3, <1>4, <2>2
  <2> QED
    BY <1>4, <1>7, <2>2, <2>3
<1> QED
  BY <1>5, <1>6, <1>9, <1>10, <1>11 DEF IsCopyOf, base, net

-----------------------------------------------------------------------------
(* The components of the network read.                                       *)

\* A sequence that has each member of a finite set once.
Enumerates(list, S) ==
    list \in Seq(S) /\ IsInjective(list) /\ ToSet(list) = S /\ Len(list) = Cardinality(S)

\* A loop over ids meets each member of the set once.
LEMMA AscendingHas ==
    ASSUME NEW S, S \subseteq Nat, IsFiniteSet(S)
    PROVE  Enumerates(Ascending(S), S)
<1> DEFINE list == Ascending(S)
           n == Cardinality(S)
           Of(k) == CHOOSE x \in S : Rank(S, x) = k - 1
<1>1. /\ n \in Nat
      /\ \A s \in S : Rank(S, s) \in 0 .. n - 1
      /\ \A k \in 0 .. n - 1 : \E s \in S : Rank(S, s) = k
      /\ \A s, u \in S : Rank(S, s) = Rank(S, u) => s = u
  BY Ranks
<1>2. list = [k \in 1 .. n |-> Of(k)]
  BY DEF Ascending, Rank
<1> HIDE DEF list
<1>3. ASSUME NEW k \in 1 .. n PROVE Of(k) \in S /\ Rank(S, Of(k)) = k - 1
  <2>1. k - 1 \in 0 .. n - 1
    BY <1>1
  <2>2. \E x \in S : Rank(S, x) = k - 1
    BY <1>1, <2>1
  <2> QED
    BY <2>2
<1> HIDE DEF Of, n
<1>4. Places(list, n, S)
  BY <1>1, <1>2, <1>3 DEF Places
<1>5. list \in Seq(S) /\ Len(list) = n /\ ToSet(list) = { list[k] : k \in 1 .. n }
  BY <1>4, PlacesHave
<1>6. \A k \in 1 .. n : list[k] \in S /\ Rank(S, list[k]) = k - 1
  BY <1>2, <1>3
<1>7. IsInjective(list)
  <2> SUFFICES ASSUME NEW i \in 1 .. n, NEW k \in 1 .. n, list[i] = list[k] PROVE i = k
    BY <1>2 DEF IsInjective
  <2>1. i - 1 = k - 1
    BY <1>6
  <2> QED
    BY <1>1, <2>1
<1>8. S \subseteq ToSet(list)
  <2> SUFFICES ASSUME NEW s \in S PROVE \E k \in 1 .. n : list[k] = s
    BY <1>5
  <2> DEFINE k == Rank(S, s) + 1
  <2>1. k \in 1 .. n /\ Rank(S, s) = k - 1
    BY <1>1
  <2> HIDE DEF k
  <2>2. list[k] = s
    BY <1>1, <1>6, <2>1
  <2> QED
    BY <2>1, <2>2
<1>9. ToSet(list) = S
  BY <1>5, <1>6, <1>8
<1> QED
  BY <1>5, <1>7, <1>9 DEF Enumerates, n, list

\* What a network has.
ReadOK(n) ==
    /\ n.size \in Nat /\ DOMAIN n.edges = Sids(n)
    /\ \A s \in Sids(n) : n.edges[s] \subseteq Sids(n)

\* Its sets of states.
LEMMA SidsHave ==
    ASSUME NEW n, ReadOK(n)
    PROVE  Sids(n) \subseteq Nat /\ \A S \in SUBSET Sids(n) : S \subseteq Nat /\ IsFiniteSet(S)
<1>1. n.size \in Nat /\ Sids(n) \subseteq Nat
  BY DEF ReadOK, Sids
<1>2. IsFiniteSet(Sids(n))
  <2>1. 0 \in Int /\ n.size - 1 \in Int
    BY <1>1
  <2> QED
    BY <2>1, FS_Interval DEF Sids
<1> QED
  BY <1>1, <1>2, FS_Subset

\* A string id of one number.
LEMMA OneHas ==
    /\ \A s \in Nat : <<s>> \in Name /\ <<s>> # <<>> /\ Original(<<s>>) = s /\ Len(<<s>>) = 1
    /\ \A s, t : <<s>> = <<t>> => s = t
    /\ \A s, t \in Nat : Begins(<<s>>, <<t>>) => <<s>> = <<t>>
<1>1. \A s \in Nat : <<s>> \in Name /\ Len(<<s>>) = 1 /\ <<s>>[1] = s /\ <<s>> # <<>>
  BY DEF Name
<1>2. \A s, t : <<s>> = <<t>> => s = t
  OBVIOUS
<1>3. \A s \in Nat : Original(<<s>>) = s
  BY <1>1 DEF Original, Name
<1>4. ASSUME NEW s \in Nat, NEW t \in Nat, Begins(<<s>>, <<t>>) PROVE <<s>> = <<t>>
  <2>1. 1 \in 1 .. Len(<<t>>)
    BY <1>1
  <2>2. <<t>>[1] = <<s>>[1]
    BY <1>4, <2>1 DEF Begins
  <2> QED
    BY <1>1, <2>2
<1> QED
  BY <1>1, <1>2, <1>3, <1>4

\* The edges of a state, under string ids.
LEMMA EdgesFromHave ==
    ASSUME NEW n, ReadOK(n), NEW s \in Sids(n)
    PROVE  /\ EdgesFrom(n, s) \in Seq(Name \X Name)
           /\ ToSet(EdgesFrom(n, s)) = { <<<<s>>, <<t>>>> : t \in n.edges[s] }
<1> DEFINE to == Ascending(n.edges[s])
           list == EdgesFrom(n, s)
           m == Len(to)
<1>1. n.edges[s] \subseteq Sids(n)
  BY DEF ReadOK
<1>2. Enumerates(to, n.edges[s]) /\ n.edges[s] \subseteq Nat /\ s \in Nat
  BY <1>1, SidsHave, AscendingHas
<1>3. /\ m \in Nat /\ \A k \in 1 .. m : to[k] \in n.edges[s]
      /\ { to[k] : k \in 1 .. m } = n.edges[s]
  BY <1>2, ListHas DEF Enumerates
<1>4. list = [k \in 1 .. m |-> <<<<s>>, <<to[k]>>>>]
  BY DEF EdgesFrom
<1> HIDE DEF to, list, m
<1>5. \A k \in 1 .. m : <<<<s>>, <<to[k]>>>> \in Name \X Name
  BY <1>2, <1>3, OneHas
<1>6. Places(list, m, Name \X Name)
  BY <1>3, <1>4, <1>5 DEF Places
<1>7. list \in Seq(Name \X Name) /\ ToSet(list) = { list[k] : k \in 1 .. m }
  BY <1>6, PlacesHave
<1>8. ToSet(list) = { <<<<s>>, <<t>>>> : t \in n.edges[s] }
  <2>1. \A k \in 1 .. m : list[k] = <<<<s>>, <<to[k]>>>>
    BY <1>4
  <2>2. \A e \in ToSet(list) : \E t \in n.edges[s] : e = <<<<s>>, <<t>>>>
    BY <1>3, <1>7, <2>1
  <2>3. ASSUME NEW t \in n.edges[s] PROVE <<<<s>>, <<t>>>> \in ToSet(list)
    <3>1. PICK k \in 1 .. m : t = to[k]
      BY <1>3
    <3> QED
      BY <1>7, <2>1, <3>1
  <2> QED
    BY <2>2, <2>3
<1> QED
  BY <1>7, <1>8 DEF list

\* The empty graph.
LEMMA NewIsListed ==
    Listed(NewNFA) /\ Edges(NewNFA) = {} /\ Keys(NewNFA) = {} /\ NewNFA.V = 0
      /\ NewNFA.node_pool = <<>>
<1>1. <<>> \in [{} -> Name] /\ <<>> \in [{} -> Seq(Name)] /\ DOMAIN <<>> = {}
  BY EmptyHas
<1>2. <<>> \in Pools /\ <<>> \in Lists
  BY <1>1 DEF Pools, Lists
<1>3. NewNFA \in Graph
  BY <1>2 DEF NewNFA, Graph
<1>4. /\ NewNFA.V = 0 /\ NewNFA.node_pool = <<>>
      /\ \A a : get_adj(NewNFA, a) = <<>> /\ get_from(NewNFA, a) = <<>>
  BY <1>1 DEF NewNFA, get_adj, get_from, ListAt
<1>5. Keys(NewNFA) = {}
  BY <1>1 DEF NewNFA, Keys
<1>6. \A a : Out(NewNFA, a) = {} /\ In(NewNFA, a) = {}
  BY <1>4, EmptyHas DEF Out, In
<1>7. IsInjective(<<>>)
  BY <1>1 DEF IsInjective
<1>8. Listed(NewNFA)
  BY <1>3, <1>4, <1>6, <1>7 DEF Listed
<1>9. Edges(NewNFA) = {}
  BY <1>6 DEF Edges
<1> QED
  BY <1>4, <1>5, <1>8, <1>9

\* split_nfa_by_ccs adds one state after the other.
ComponentRun(net, members) ==
    \E f \in [0 .. Len(members) -> Graph] :
       /\ f[0] = NewNFA /\ ComponentNFA(net, members) = f[Len(members)]
       /\ \A k \in 1 .. Len(members) :
             f[k] = addEdges(addNode(f[k - 1], <<members[k]>>), EdgesFrom(net, members[k]))

\* The loop of split_nfa_by_ccs over the states of a component is such a run.
LEMMA ComponentLoop ==
    ASSUME NEW net, ReadOK(net), NEW members \in Seq(Sids(net))
    PROVE  ComponentRun(net, members)
<1> DEFINE list == members
           n == Len(list)
           first == NewNFA
           Step(h, x) == addEdges(addNode(h, <<x>>), EdgesFrom(net, x))
           Follows(f, l) ==
              f = [k \in 0 .. Len(l) |->
                      IF k = 0 THEN first
                      ELSE CHOOSE next \in { Step(h, l[k]) : h \in {f[k - 1]} } : TRUE]
           End(l) == (CHOOSE f : Follows(f, l))[Len(l)]
           c == CHOOSE f : Follows(f, list)
<1>1. n \in Nat /\ \A k \in 1 .. n : list[k] \in Sids(net)
  BY ListHas
<1>2. ASSUME NEW h \in Graph, NEW x \in Sids(net) PROVE Step(h, x) \in Graph
  <2>1. <<x>> \in Name
    BY SidsHave, OneHas
  <2>2. EdgesFrom(net, x) \in Seq(Name \X Name)
    BY EdgesFromHave
  <2>3. addNode(h, <<x>>) \in Graph
    BY <2>1, GraphsGrow
  <2> DEFINE u == addNode(h, <<x>>)
  <2> HIDE DEF u
  <2>4. addEdges(u, EdgesFrom(net, x)) \in Graph
    BY <2>2, <2>3, GraphsGrow DEF u
  <2> QED
    BY <2>4 DEF u
<1>3. ComponentNFA(net, members) = CHOOSE end \in { End(l) : l \in {list} } : TRUE
  BY DEF ComponentNFA, Loop
<1>4. first \in Graph
  BY NewIsListed DEF Listed
<1> HIDE DEF Step, list, first
<1>5. \E f \in [0 .. n -> Graph] : f[0] = first /\ \A k \in 1 .. n : f[k] = Step(f[k - 1], list[k])
  <2> DEFINE F == [k \in 1 .. n |-> [h \in Graph |-> Step(h, list[k])]]
  <2>1. Steps(F, n, Graph)
    BY <1>1, <1>2 DEF Steps
  <2>2. \A k \in 1 .. n, h \in Graph : F[k][h] = Step(h, list[k])
    OBVIOUS
  <2>3. n \in Nat /\ first \in Graph
    BY <1>1, <1>4
  <2> HIDE DEF F, n, c, Follows, End
  <2>4. PICK f \in [0 .. n -> Graph] : f[0] = first /\ \A k \in 1 .. n : f[k] = F[k][f[k - 1]]
    <3>1. Leads(F, n, Graph, first)
      BY <2>1, <2>3, Iterated, Zenon
    <3> QED
      BY <3>1 DEF Leads
  <2>5. ASSUME NEW k \in 1 .. n PROVE f[k] = Step(f[k - 1], list[k])
    <3>1. k - 1 \in 0 .. n
      BY <2>3
    <3>2. f[k - 1] \in Graph
      BY <3>1
    <3> QED
      BY <2>2, <2>4, <3>2
  <2> QED
    BY <2>4, <2>5
<1>6. ComponentNFA(net, members) = c[n]
  <2>1. ComponentNFA(net, members) = End(list)
    <3> HIDE DEF End
    <3>1. { End(l) : l \in {list} } = { End(list) }
      OBVIOUS
    <3> QED
      BY <1>3, <3>1, OnlyChoice
  <2> QED
    BY <2>1
<1>7. \A f : Follows(f, list) <=> f = [k \in 0 .. n |-> IF k = 0 THEN first ELSE Step(f[k - 1], list[k])]
  <2>1. \A f, k : { Step(h, list[k]) : h \in {f[k - 1]} } = { Step(f[k - 1], list[k]) }
    OBVIOUS
  <2> QED
    BY <2>1, OnlyChoice
<1>8. c = [k \in 0 .. n |-> IF k = 0 THEN first ELSE Step(c[k - 1], list[k])]
  <2>1. PICK f \in [0 .. n -> Graph] : f[0] = first /\ \A k \in 1 .. n : f[k] = Step(f[k - 1], list[k])
    BY <1>5
  <2> HIDE DEF n
  <2>2. \A k \in 0 .. n : k = 0 \/ k \in 1 .. n
    BY <1>1
  <2>3. f = [k \in 0 .. n |-> IF k = 0 THEN first ELSE Step(f[k - 1], list[k])]
    BY <2>1, <2>2
  <2>4. Follows(f, list)
    BY <1>7, <2>3
  <2> HIDE DEF Follows
  <2>5. Follows(c, list)
    BY <2>4
  <2> HIDE DEF c
  <2> QED
    BY <1>7, <2>5
<1> HIDE DEF c, Follows, End, n
<1>9. c[0] = first /\ \A k \in 1 .. n : c[k] = Step(c[k - 1], list[k])
  <2>1. 0 \in 0 .. n /\ \A k \in 1 .. n : k \in 0 .. n /\ k # 0
    BY <1>1
  <2> QED
    BY <1>8, <2>1
<1>10. c \in [0 .. n -> Graph]
  <2> DEFINE Good == { k \in 0 .. n : c[k] \in Graph }
  <2>1. 0 \in Good
    BY <1>1, <1>4, <1>9
  <2>2. \A k \in 1 .. n : k - 1 \in Good => k \in Good
    BY <1>1, <1>2, <1>9
  <2> HIDE DEF Good
  <2>3. 0 .. n \subseteq Good
    BY <1>1, <2>1, <2>2, UpTo
  <2>4. \A k \in 0 .. n : c[k] \in Graph
    BY <2>3 DEF Good
  <2> QED
    BY <1>8, <2>4
<1> QED
  BY <1>6, <1>9, <1>10 DEF n, Step, list, first, ComponentRun

\* What is inside K.
Inside(h, s, E, K) ==
    Keys(h) \subseteq K /\ s \in K /\ \A e \in E : e[1] \in K /\ e[2] \in K

\* Graph a is h with state s and the edges E.
HasState(a, h, s, E, K) ==
    /\ Listed(a) /\ Keys(a) \subseteq K /\ Edges(a) = Edges(h) \cup E
    /\ a.V = h.V + 1 /\ a.node_pool = Put(h.node_pool, h.V, s)

\* addNode, and addEdge for each of its edges, add just these.
LEMMA StateMore ==
    ASSUME NEW h, Listed(h), NEW s \in Name, NEW list \in Seq(Name \X Name),
           NEW K, Inside(h, s, ToSet(list), K)
    PROVE  HasState(addEdges(addNode(h, s), list), h, s, ToSet(list), K)
<1> DEFINE u == addNode(h, s)
<1>1. /\ Listed(u) /\ Edges(u) = Edges(h) /\ u.V = h.V + 1 /\ Keys(u) = Keys(h)
      /\ u.node_pool = Put(h.node_pool, h.V, s)
  BY NodeAdded
<1> HIDE DEF u
<1>2. Keys(u) \subseteq K /\ \A e \in ToSet(list) : e[1] \in K /\ e[2] \in K
  BY <1>1 DEF Inside
<1>3. /\ Listed(addEdges(u, list)) /\ Edges(addEdges(u, list)) = Edges(u) \cup ToSet(list)
      /\ addEdges(u, list).V = u.V /\ addEdges(u, list).node_pool = u.node_pool
      /\ Keys(addEdges(u, list)) \subseteq K
  BY <1>1, <1>2, EdgesMore
<1> QED
  BY <1>1, <1>3 DEF HasState, u

\* Graph g is the part of network n with the states C.
IsComponent(g, n, C) ==
    /\ Listed(g) /\ Numbered(g)
    /\ StrIds(g) = { <<s>> : s \in C } /\ Keys(g) \subseteq StrIds(g)
    /\ \A a, b : <<a, b>> \in Edges(g) <=> \E s \in C : \E t \in n.edges[s] : a = <<s>> /\ b = <<t>>

\* The edges of state s.
From(n, s) == { <<<<s>>, <<t>>>> : t \in n.edges[s] }

\* The graph when k members have been added.
HasMembers(g, n, members, k, K) ==
    /\ Listed(g) /\ Keys(g) \subseteq K /\ g.V = k
    /\ g.node_pool = [j \in 0 .. k - 1 |-> <<members[j + 1]>>]
    /\ \A e : e \in Edges(g) <=> \E j \in 1 .. k : e \in From(n, members[j])

\* One member more.
LEMMA MemberMore ==
    ASSUME NEW n, ReadOK(n), NEW members \in Seq(Sids(n)), NEW k \in 1 .. Len(members), NEW K,
           \A s \in ToSet(members) : <<s>> \in K /\ \A t \in n.edges[s] : <<t>> \in K,
           NEW h, HasMembers(h, n, members, k - 1, K)
    PROVE  HasMembers(addEdges(addNode(h, <<members[k]>>), EdgesFrom(n, members[k])), n, members, k, K)
<1> DEFINE s == members[k]
           list == EdgesFrom(n, s)
           a == addEdges(addNode(h, <<s>>), list)
<1>1. s \in Sids(n) /\ s \in ToSet(members) /\ <<s>> \in Name /\ Len(members) \in Nat
  BY ListHas, SidsHave, OneHas
<1> HIDE DEF s
<1>2. list \in Seq(Name \X Name) /\ ToSet(list) = From(n, s)
  BY <1>1, EdgesFromHave DEF From
<1> HIDE DEF list
<1>3. Listed(h) /\ Keys(h) \subseteq K /\ h.V = k - 1
  BY DEF HasMembers
<1>4. Inside(h, <<s>>, ToSet(list), K)
  <2>1. \A e \in From(n, s) : \E t \in n.edges[s] : e = <<<<s>>, <<t>>>>
    BY DEF From
  <2>0. <<s>> \in K /\ \A t \in n.edges[s] : <<t>> \in K
    BY <1>1
  <2>2. ASSUME NEW e \in From(n, s) PROVE e[1] \in K /\ e[2] \in K
    <3>1. PICK t \in n.edges[s] : e = <<<<s>>, <<t>>>>
      BY <2>1
    <3>2. e[1] = <<s>> /\ e[2] = <<t>>
      BY <3>1
    <3> QED
      BY <2>0, <3>2
  <2> QED
    BY <1>1, <1>2, <1>3, <2>2 DEF Inside
<1>5. HasState(a, h, <<s>>, ToSet(list), K)
  <2> DEFINE x == <<s>>
  <2>1. x \in Name /\ Inside(h, x, ToSet(list), K)
    BY <1>1, <1>4
  <2> HIDE DEF x
  <2>2. HasState(addEdges(addNode(h, x), list), h, x, ToSet(list), K)
    BY <1>2, <1>3, <2>1, StateMore
  <2> QED
    BY <2>2 DEF x
<1>6. a.V = k
  BY <1>3, <1>5 DEF HasState
<1>7. a.node_pool = [j \in 0 .. k - 1 |-> <<members[j + 1]>>]
  <2> DEFINE p == [j \in 0 .. (k - 1) - 1 |-> <<members[j + 1]>>]
             q == [j \in 0 .. k - 1 |-> <<members[j + 1]>>]
  <2>1. a.node_pool = Put(p, k - 1, <<s>>)
    BY <1>3, <1>5 DEF HasState, HasMembers
  <2>2. k \in Int /\ (0 .. (k - 1) - 1) \cup {k - 1} = 0 .. k - 1 /\ (k - 1) + 1 = k
    BY <1>1
  <2>3. DOMAIN p = 0 .. (k - 1) - 1 /\ \A j \in 0 .. (k - 1) - 1 : p[j] = <<members[j + 1]>>
    OBVIOUS
  <2>4. \A j \in 0 .. k - 1 : j = k - 1 \/ j \in 0 .. (k - 1) - 1
    BY <2>2
  <2> HIDE DEF p
  <2>5. Put(p, k - 1, <<s>>) = q
    <3>1. Put(p, k - 1, <<s>>) = [j \in 0 .. k - 1 |-> IF j = k - 1 THEN <<s>> ELSE p[j]]
      BY <2>2, <2>3 DEF Put
    <3>2. \A j \in 0 .. k - 1 : (IF j = k - 1 THEN <<s>> ELSE p[j]) = <<members[j + 1]>>
      <4> TAKE j \in 0 .. k - 1
      <4>1. CASE j = k - 1
        BY <2>2, <4>1 DEF s
      <4>2. CASE j # k - 1
        BY <2>3, <2>4, <4>2
      <4> QED
        BY <4>1, <4>2
    <3> QED
      BY <3>1, <3>2
  <2> QED
    BY <2>1, <2>5
<1>8. \A e : e \in Edges(a) <=> \E j \in 1 .. k : e \in From(n, members[j])
  <2>1. \A e : e \in Edges(a) <=> (\E j \in 1 .. k - 1 : e \in From(n, members[j])) \/ e \in From(n, s)
    BY <1>2, <1>5 DEF HasState, HasMembers
  <2>2. \A j : j \in 1 .. k <=> j \in 1 .. k - 1 \/ j = k
    BY <1>1
  <2> QED
    BY <2>1, <2>2 DEF s
<1> QED
  BY <1>5, <1>6, <1>7, <1>8 DEF HasState, HasMembers, a, list, s

\* split_nfa_by_ccs makes the part of the network with these states.
LEMMA ComponentMakes ==
    ASSUME NEW n, ReadOK(n), NEW C, C \subseteq Sids(n), NEW members, Enumerates(members, C),
           \A s \in C : n.edges[s] \subseteq C
    PROVE  IsComponent(ComponentNFA(n, members), n, C)
<1> DEFINE K == { <<s>> : s \in C }
           m == Len(members)
           g == ComponentNFA(n, members)
<1>1. /\ members \in Seq(C) /\ IsInjective(members) /\ ToSet(members) = C
  BY DEF Enumerates
<1>2. /\ m \in Nat /\ DOMAIN members = 1 .. m /\ \A k \in 1 .. m : members[k] \in C
      /\ \A s \in C : \E k \in 1 .. m : s = members[k]
  BY <1>1, ListHas
<1>3. members \in Seq(Sids(n))
  <2>1. members \in [1 .. m -> C]
    BY <1>1, LenProperties
  <2>2. members \in [1 .. m -> Sids(n)]
    BY <1>2, <2>1
  <2> QED
    BY <1>2, <2>2, SeqDef
<1>4. \A s \in ToSet(members) : <<s>> \in K /\ \A t \in n.edges[s] : <<t>> \in K
  BY <1>1
<1>5. PICK f \in [0 .. m -> Graph] :
           /\ f[0] = NewNFA /\ g = f[m]
           /\ \A k \in 1 .. m : f[k] = addEdges(addNode(f[k - 1], <<members[k]>>), EdgesFrom(n, members[k]))
  BY <1>3, ComponentLoop DEF ComponentRun
<1> DEFINE Good == { k \in 0 .. m : HasMembers(f[k], n, members, k, K) }
<1>6. 0 \in Good
  <2>1. [j \in 0 .. 0 - 1 |-> <<members[j + 1]>>] = <<>>
    OBVIOUS
  <2>2. HasMembers(NewNFA, n, members, 0, K)
    BY <2>1, NewIsListed DEF HasMembers
  <2> QED
    BY <1>2, <1>5, <2>2
<1> HIDE DEF K, m, g
<1>7. ASSUME NEW k \in 1 .. m, k - 1 \in Good PROVE k \in Good
  <2> DEFINE h == f[k - 1]
  <2>1. HasMembers(h, n, members, k - 1, K)
    BY <1>7
  <2>2. k \in 1 .. Len(members)
    BY DEF m
  <2>3. f[k] = addEdges(addNode(h, <<members[k]>>), EdgesFrom(n, members[k]))
    BY <1>5
  <2> HIDE DEF h, Good
  <2>4. HasMembers(addEdges(addNode(h, <<members[k]>>), EdgesFrom(n, members[k])), n, members, k, K)
    BY <1>3, <1>4, <2>1, <2>2, MemberMore
  <2>5. HasMembers(f[k], n, members, k, K)
    BY <2>3, <2>4
  <2> QED
    BY <1>2, <2>5 DEF Good
<1>8. HasMembers(g, n, members, m, K)
  <2> HIDE DEF Good
  <2>1. 0 .. m \subseteq Good
    BY <1>2, <1>6, <1>7, UpTo
  <2>2. m \in Good
    BY <1>2, <2>1
  <2> QED
    BY <1>5, <2>2 DEF Good
<1>9. /\ Listed(g) /\ Keys(g) \subseteq K /\ g.V = m
      /\ g.node_pool = [j \in 0 .. m - 1 |-> <<members[j + 1]>>]
      /\ \A e : e \in Edges(g) <=> \E j \in 1 .. m : e \in From(n, members[j])
  BY <1>8 DEF HasMembers
<1>10. Numbered(g)
  <2>1. ASSUME NEW i \in 0 .. m - 1, NEW k \in 0 .. m - 1, <<members[i + 1]>> = <<members[k + 1]>> PROVE i = k
    <3>1. members[i + 1] = members[k + 1]
      BY <2>1
    <3>2. i + 1 \in 1 .. m /\ k + 1 \in 1 .. m
      BY <1>2
    <3>3. i + 1 = k + 1
      BY <1>1, <1>2, <3>1, <3>2 DEF IsInjective
    <3> QED
      BY <3>3
  <2> QED
    BY <1>9, <2>1 DEF Numbered, IsInjective
<1>11. StrIds(g) = K
  <2>1. StrIds(g) = { <<members[j + 1]>> : j \in 0 .. m - 1 }
    BY <1>9 DEF StrIds, Range
  <2>2. \A j \in 0 .. m - 1 : members[j + 1] \in C
    BY <1>2
  <2>3. \A s \in C : \E j \in 0 .. m - 1 : s = members[j + 1]
    <3> TAKE s \in C
    <3>1. PICK k \in 1 .. m : s = members[k]
      BY <1>2
    <3>2. k - 1 \in 0 .. m - 1 /\ (k - 1) + 1 = k
      BY <1>2
    <3> QED
      BY <3>1, <3>2
  <2> QED
    BY <2>1, <2>2, <2>3 DEF K
<1>12. ASSUME NEW a, NEW b
       PROVE  <<a, b>> \in Edges(g) <=> \E s \in C : \E t \in n.edges[s] : a = <<s>> /\ b = <<t>>
  <2>1. \A s : <<a, b>> \in From(n, s) <=> \E t \in n.edges[s] : a = <<s>> /\ b = <<t>>
    BY DEF From
  <2>2. (\E j \in 1 .. m : <<a, b>> \in From(n, members[j])) <=> \E s \in C : <<a, b>> \in From(n, s)
    BY <1>2
  <2> QED
    BY <1>9, <2>1, <2>2
<1> QED
  BY <1>9, <1>10, <1>11, <1>12 DEF IsComponent, K, g

\* No edge of the network joins C with another state.
ClosedBothWays(n, C) ==
    /\ C \subseteq Sids(n)
    /\ \A v \in C, u \in Sids(n) : u \in n.edges[v] \/ v \in n.edges[u] => u \in C

\* Then the part with the states C is a graph of copies, one of each.
LEMMA ComponentFaithful ==
    ASSUME NEW n, ReadOK(n), NEW C, ClosedBothWays(n, C), NEW g, IsComponent(g, n, C)
    PROVE  Faithful(g, n) /\ PrefixFree(g) /\ Originals(g) = C
<1>1. C \subseteq Nat /\ C \subseteq Sids(n) /\ \A s \in C : n.edges[s] \subseteq C
  <2>1. \A s \in C : n.edges[s] \subseteq Sids(n)
    BY DEF ClosedBothWays, ReadOK
  <2> QED
    BY <2>1, SidsHave DEF ClosedBothWays
<1>2. /\ \A s \in C : <<s>> # <<>> /\ Original(<<s>>) = s
      /\ \A s, t \in C : Begins(<<s>>, <<t>>) => <<s>> = <<t>>
  BY <1>1, OneHas
<1>3. StrIds(g) = { <<s>> : s \in C }
  BY DEF IsComponent
<1>4. \A a, b : <<a, b>> \in Edges(g) <=> \E s \in C : \E t \in n.edges[s] : a = <<s>> /\ b = <<t>>
  BY DEF IsComponent
<1>5. \A a \in StrIds(g) : a # <<>> /\ Original(a) \in Sids(n)
  BY <1>1, <1>2, <1>3
<1>6. EdgesAreOriginal(g, n)
  <2> SUFFICES ASSUME NEW a, NEW b, <<a, b>> \in Edges(g) PROVE Original(b) \in n.edges[Original(a)]
    BY DEF EdgesAreOriginal
  <2>1. PICK s \in C : \E t \in n.edges[s] : a = <<s>> /\ b = <<t>>
    BY <1>4
  <2>2. PICK t \in n.edges[s] : a = <<s>> /\ b = <<t>>
    BY <2>1
  <2>3. t \in C
    BY <1>1, <2>2
  <2> QED
    BY <1>2, <2>2, <2>3
<1>7. EdgesAreKept(g, n)
  <2> SUFFICES ASSUME NEW b \in StrIds(g), NEW u \in Sids(n), Original(b) \in n.edges[u]
               PROVE  \E a \in StrIds(g) : Original(a) = u /\ <<a, b>> \in Edges(g)
    BY DEF EdgesAreKept
  <2>1. PICK t \in C : b = <<t>>
    BY <1>3
  <2>2. t \in n.edges[u]
    BY <1>2, <2>1
  <2>3. u \in C
    BY <2>2 DEF ClosedBothWays
  <2>4. <<u>> \in StrIds(g) /\ Original(<<u>>) = u
    BY <1>2, <1>3, <2>3
  <2>5. <<<<u>>, b>> \in Edges(g)
    BY <1>4, <2>1, <2>2, <2>3
  <2> QED
    BY <2>4, <2>5
<1>8. PrefixFree(g)
  BY <1>2, <1>3 DEF PrefixFree
<1>9. Originals(g) = C
  <2>1. Originals(g) = { Original(a) : a \in StrIds(g) }
    BY OriginalsHave
  <2>2. \A x \in Originals(g) : x \in C
    BY <1>2, <1>3, <2>1
  <2>3. ASSUME NEW s \in C PROVE s \in Originals(g)
    <3>1. <<s>> \in StrIds(g) /\ Original(<<s>>) = s
      BY <1>2, <1>3
    <3> QED
      BY <2>1, <3>1
  <2> QED
    BY <2>2, <2>3
<1> QED
  BY <1>5, <1>6, <1>7, <1>8, <1>9 DEF Faithful, IsComponent

\* States that undirected paths connect.
Neighbours(n, S) == S \cup { u \in Sids(n) : \E v \in S : u \in n.edges[v] \/ v \in n.edges[u] }

\* How mark_cc_id reaches them from state s.
Reaches(f, n, s) ==
    /\ f \in [0 .. n.size -> SUBSET Sids(n)] /\ f[0] = {s}
    /\ \A k \in 1 .. n.size : f[k] = Neighbours(n, f[k - 1])

\* mark_cc_id runs like this for as many turns as there are states.
LEMMA ConnectedRun ==
    ASSUME NEW n, ReadOK(n), NEW s \in Sids(n)
    PROVE  \E f : Reaches(f, n, s) /\ Connected(n, s) = f[n.size]
<1> DEFINE T == SUBSET Sids(n)
           m == n.size
           Follows(f) == f = [k \in 0 .. m |-> IF k = 0 THEN {s} ELSE Neighbours(n, f[k - 1])]
           c == CHOOSE f : Follows(f)
<1>1. Connected(n, s) = c[m]
  BY DEF Connected, Neighbours
<1>2. m \in Nat /\ {s} \in T /\ \A S \in T : Neighbours(n, S) \in T
  BY DEF ReadOK, Neighbours
<1> HIDE DEF T, m
<1>3. PICK f \in [0 .. m -> T] : f[0] = {s} /\ \A k \in 1 .. m : f[k] = Neighbours(n, f[k - 1])
  <2> DEFINE F == [k \in 1 .. m |-> [S \in T |-> Neighbours(n, S)]]
             g == {s}
  <2>1. Steps(F, m, T)
    BY <1>2 DEF Steps
  <2>2. \A k \in 1 .. m, S \in T : F[k][S] = Neighbours(n, S)
    OBVIOUS
  <2>3. g \in T
    BY <1>2
  <2> HIDE DEF F, g
  <2>4. Leads(F, m, T, g)
    BY <1>2, <2>1, <2>3, Iterated, Zenon
  <2>5. PICK f \in [0 .. m -> T] : f[0] = g /\ \A k \in 1 .. m : f[k] = F[k][f[k - 1]]
    BY <2>4 DEF Leads
  <2>6. \A k \in 1 .. m : f[k - 1] \in T
    <3>1. \A k \in 1 .. m : k - 1 \in 0 .. m
      BY <1>2
    <3> QED
      BY <2>5, <3>1
  <2>7. \A k \in 1 .. m : f[k] = Neighbours(n, f[k - 1])
    BY <2>2, <2>5, <2>6
  <2> QED
    BY <2>5, <2>7 DEF g
<1>4. Follows(f)
  <2>1. \A k \in 0 .. m : k = 0 \/ k \in 1 .. m
    BY <1>2
  <2> QED
    BY <1>3, <2>1
<1> HIDE DEF Follows
<1>5. Follows(c)
  BY <1>4
<1> HIDE DEF c
<1>6. c = [k \in 0 .. m |-> IF k = 0 THEN {s} ELSE Neighbours(n, c[k - 1])]
  BY <1>5 DEF Follows
<1>7. c[0] = {s} /\ \A k \in 1 .. m : c[k] = Neighbours(n, c[k - 1])
  <2>1. 0 \in 0 .. m /\ \A k \in 1 .. m : k \in 0 .. m /\ k # 0
    BY <1>2
  <2> QED
    BY <1>6, <2>1
<1>8. \A k \in 0 .. m : c[k] \in T
  <2> DEFINE Good == { k \in 0 .. m : c[k] \in T }
  <2>1. 0 \in Good
    <3>1. 0 \in 0 .. m
      BY <1>2
    <3>2. c[0] \in T
      BY <1>2, <1>7, Zenon
    <3> QED
      BY <3>1, <3>2
  <2>2. ASSUME NEW k \in 1 .. m, k - 1 \in Good PROVE k \in Good
    <3>1. c[k - 1] \in T /\ c[k] = Neighbours(n, c[k - 1]) /\ k \in 0 .. m
      BY <1>2, <1>7, <2>2
    <3>2. c[k] \in T
      BY <1>2, <3>1
    <3> QED
      BY <3>1, <3>2
  <2> HIDE DEF Good
  <2>3. 0 .. m \subseteq Good
    BY <1>2, <2>1, <2>2, UpTo
  <2> QED
    BY <2>3 DEF Good
<1>9. c \in [0 .. m -> T]
  BY <1>6, <1>8
<1>10. Reaches(c, n, s)
  BY <1>7, <1>9 DEF Reaches, m, T
<1> QED
  BY <1>1, <1>10 DEF m

\* The smallest set with s that no edge leaves or enters.
IsConnected(n, s, C) ==
    ClosedBothWays(n, C) /\ s \in C /\ \A D : ClosedBothWays(n, D) /\ s \in D => C \subseteq D

\* That many turns are enough: a turn that reaches no new state is the last one that
\* matters.
LEMMA ConnectedHas ==
    ASSUME NEW n, ReadOK(n), NEW s \in Sids(n)
    PROVE  IsConnected(n, s, Connected(n, s))
<1> DEFINE m == n.size
           C == Connected(n, s)
<1>1. PICK f : Reaches(f, n, s) /\ C = f[m]
  BY ConnectedRun
<1>2. /\ m \in Nat /\ m >= 1 /\ f[0] = {s}
      /\ \A k \in 0 .. m : f[k] \subseteq Sids(n)
      /\ \A k \in 1 .. m : f[k] = Neighbours(n, f[k - 1])
  <2>1. m \in Nat /\ m >= 1
    BY DEF ReadOK, Sids
  <2> QED
    BY <1>1, <2>1 DEF Reaches
<1> HIDE DEF m, C
<1>3. ASSUME NEW k \in 1 .. m PROVE k - 1 \in 0 .. m /\ f[k - 1] \subseteq f[k]
  <2>1. k - 1 \in 0 .. m
    BY <1>2
  <2>2. f[k] = Neighbours(n, f[k - 1])
    BY <1>2
  <2> QED
    BY <2>1, <2>2 DEF Neighbours
<1>4. \A S : S \subseteq Sids(n) => (ClosedBothWays(n, S) <=> Neighbours(n, S) = S)
  BY DEF ClosedBothWays, Neighbours
<1>5. \A k \in 0 .. m : IsFiniteSet(f[k]) /\ Cardinality(f[k]) \in Nat
  BY <1>2, SidsHave, FS_CardinalityType
<1> DEFINE Good == { k \in 0 .. m : s \in f[k] /\ (ClosedBothWays(n, f[k]) \/ Cardinality(f[k]) >= k + 1) }
<1>6. 0 \in Good
  <2>1. 0 \in 0 .. m
    BY <1>2
  <2>2. s \in f[0] /\ Cardinality(f[0]) = 1
    BY <1>2, FS_Singleton
  <2>3. Cardinality(f[0]) >= 0 + 1
    BY <2>2
  <2> QED
    BY <2>1, <2>2, <2>3
<1>7. ASSUME NEW k \in 1 .. m, k - 1 \in Good PROVE k \in Good
  <2>1. f[k - 1] \subseteq f[k] /\ s \in f[k] /\ k - 1 \in 0 .. m /\ k \in 0 .. m /\ k \in Nat
    BY <1>2, <1>3, <1>7
  <2>2. f[k] = Neighbours(n, f[k - 1])
    BY <1>2
  <2>3. CASE f[k] = f[k - 1]
    <3>1. ClosedBothWays(n, f[k - 1])
      BY <1>2, <1>4, <2>1, <2>2, <2>3
    <3> QED
      BY <2>1, <2>3, <3>1
  <2>4. CASE f[k] # f[k - 1]
    <3>1. ~ClosedBothWays(n, f[k - 1])
      BY <1>2, <1>4, <2>1, <2>2, <2>4
    <3>2. Cardinality(f[k - 1]) >= k
      <4>1. (k - 1) + 1 = k
        BY <2>1
      <4> QED
        BY <1>7, <3>1, <4>1
    <3> DEFINE A == f[k - 1]
               B == f[k]
    <3>3. PICK x \in B : x \notin A
      BY <2>1, <2>4
    <3>4. IsFiniteSet(A) /\ IsFiniteSet(B) /\ Cardinality(A) \in Nat /\ Cardinality(B) \in Nat /\ A \subseteq B
      BY <1>5, <2>1
    <3> HIDE DEF A, B
    <3>5. IsFiniteSet(A \cup {x}) /\ Cardinality(A \cup {x}) = Cardinality(A) + 1
      BY <3>3, <3>4, FS_AddElement
    <3>6. A \cup {x} \subseteq B
      BY <3>3, <3>4
    <3>7. Cardinality(A \cup {x}) <= Cardinality(B)
      BY <3>4, <3>5, <3>6, FS_Subset
    <3>8. Cardinality(B) >= k + 1
      BY <2>1, <3>2, <3>4, <3>5, <3>7 DEF A
    <3> QED
      BY <2>1, <3>8 DEF B
  <2> QED
    BY <2>3, <2>4
<1>8. m \in Good
  <2> HIDE DEF Good
  <2>1. 0 .. m \subseteq Good
    BY <1>2, <1>6, <1>7, UpTo
  <2> QED
    BY <1>2, <2>1
<1>9. ClosedBothWays(n, C) /\ s \in C
  <2>1. CASE ClosedBothWays(n, f[m])
    BY <1>1, <1>8, <2>1
  <2>2. CASE Cardinality(f[m]) >= m + 1
    <3>1. 0 \in Int /\ m - 1 \in Int /\ Sids(n) = 0 .. m - 1
      BY <1>2 DEF Sids, m
    <3>2. IsFiniteSet(0 .. m - 1) /\ Cardinality(0 .. m - 1) = m
      BY <1>2, <3>1, FS_Interval
    <3>3. f[m] \subseteq 0 .. m - 1
      BY <1>2, <3>1
    <3>4. Cardinality(f[m]) <= Cardinality(0 .. m - 1)
      BY <3>2, <3>3, FS_Subset
    <3> QED
      BY <1>2, <1>5, <2>2, <3>2, <3>4
  <2> QED
    BY <1>1, <1>8, <2>1, <2>2
<1>10. ASSUME NEW D, ClosedBothWays(n, D), s \in D PROVE C \subseteq D
  <2> DEFINE In2 == { k \in 0 .. m : f[k] \subseteq D }
  <2>1. 0 \in In2
    BY <1>2, <1>10
  <2>2. ASSUME NEW k \in 1 .. m, k - 1 \in In2 PROVE k \in In2
    <3>1. f[k] = Neighbours(n, f[k - 1]) /\ f[k - 1] \subseteq D
      BY <1>2, <2>2
    <3>2. f[k] \subseteq D
      BY <1>10, <3>1 DEF Neighbours, ClosedBothWays
    <3> QED
      BY <3>2
  <2> HIDE DEF In2
  <2>3. 0 .. m \subseteq In2
    BY <1>2, <2>1, <2>2, UpTo
  <2>4. m \in In2
    BY <1>2, <2>3
  <2> QED
    BY <1>1, <2>4 DEF In2
<1> QED
  BY <1>9, <1>10 DEF IsConnected, C

\* Connected sets are disjoint or the same.
LEMMA ConnectedMeet ==
    ASSUME NEW n, ReadOK(n), NEW s, NEW u, NEW C, NEW D,
           IsConnected(n, s, C), IsConnected(n, u, D), C \cap D # {}
    PROVE  C = D
<1>1. /\ ClosedBothWays(n, C) /\ s \in C /\ \A S : ClosedBothWays(n, S) /\ s \in S => C \subseteq S
      /\ ClosedBothWays(n, D) /\ u \in D /\ \A S : ClosedBothWays(n, S) /\ u \in S => D \subseteq S
  BY DEF IsConnected
<1>2. \A S, R : ClosedBothWays(n, S) /\ ClosedBothWays(n, R) => ClosedBothWays(n, S \ R)
  BY DEF ClosedBothWays
<1>3. s \in D
  <2>1. ClosedBothWays(n, C \ D)
    BY <1>1, <1>2
  <2>2. s \in C \ D => C \subseteq C \ D
    BY <1>1, <2>1
  <2> QED
    BY <1>1, <2>2
<1>4. u \in C
  <2>1. ClosedBothWays(n, D \ C)
    BY <1>1, <1>2
  <2>2. u \in D \ C => D \subseteq D \ C
    BY <1>1, <2>1
  <2> QED
    BY <1>1, <2>2
<1> QED
  BY <1>1, <1>3, <1>4

\* The graphs share no states of the network, and which they have.
Disjoint(gs, n) ==
    /\ \E m \in Nat : DOMAIN gs = 1 .. m /\ Len(gs) = m
    /\ \A k \in DOMAIN gs : Faithful(gs[k], n) /\ PrefixFree(gs[k]) /\ Originals(gs[k]) # {}
    /\ \A k, l \in DOMAIN gs : k # l => Originals(gs[k]) \cap Originals(gs[l]) = {}
Covers(gs) == UNION { Originals(gs[k]) : k \in DOMAIN gs }

\* The components share no state, and no state is missing.
LEMMA ComponentsHave ==
    ASSUME NEW n, ReadOK(n)
    PROVE  Disjoint(Components(n), n) /\ Covers(Components(n)) = Sids(n)
<1> DEFINE Firsts == { s \in Sids(n) : \A u \in Connected(n, s) : s <= u }
           ordered == Ascending(Firsts)
           m == Len(ordered)
           gs == Components(n)
           Of(k) == Connected(n, ordered[k])
<1>1. gs = [k \in 1 .. m |-> ComponentNFA(n, Ascending(Of(k)))]
  BY DEF Components
<1>2. \A s \in Sids(n) : IsConnected(n, s, Connected(n, s))
  BY ConnectedHas
<1>3. \A s \in Firsts : s \in Sids(n) /\ \A u \in Connected(n, s) : s <= u
  OBVIOUS
<1>4. \A s \in Sids(n) : (\A u \in Connected(n, s) : s <= u) => s \in Firsts
  OBVIOUS
<1>5. Firsts \subseteq Nat /\ IsFiniteSet(Firsts) /\ Sids(n) \subseteq Nat
  BY SidsHave
<1> HIDE DEF Firsts
<1>6. Enumerates(ordered, Firsts)
  BY <1>5, AscendingHas
<1>7. /\ m \in Nat /\ DOMAIN ordered = 1 .. m /\ \A k \in 1 .. m : ordered[k] \in Firsts
      /\ \A s \in Firsts : \E k \in 1 .. m : s = ordered[k]
  BY <1>6, ListHas DEF Enumerates
<1> HIDE DEF ordered, m, gs
<1>8. ASSUME NEW k \in 1 .. m PROVE IsConnected(n, ordered[k], Of(k))
  BY <1>2, <1>3, <1>7
<1>9. DOMAIN gs = 1 .. m /\ Len(gs) = m
  <2>1. DOMAIN gs = 1 .. m
    BY <1>1
  <2>2. Places(gs, m, Range(gs))
    BY <1>1, <1>7 DEF Places, Range
  <2> QED
    BY <2>1, <2>2, PlacesHave
<1>10. ASSUME NEW k \in 1 .. m
       PROVE  Faithful(gs[k], n) /\ PrefixFree(gs[k]) /\ Originals(gs[k]) = Of(k)
  <2> DEFINE C == Of(k)
             members == Ascending(C)
             g == ComponentNFA(n, members)
  <2>1. ClosedBothWays(n, C) /\ C \subseteq Sids(n) /\ \A s \in C : n.edges[s] \subseteq C
    <3>1. ClosedBothWays(n, C)
      BY <1>8 DEF IsConnected
    <3> HIDE DEF C
    <3>2. C \subseteq Sids(n) /\ \A s \in C : n.edges[s] \subseteq Sids(n)
      BY <3>1 DEF ClosedBothWays, ReadOK
    <3> QED
      BY <3>1, <3>2 DEF ClosedBothWays
  <2>2. gs[k] = g
    BY <1>1
  <2> HIDE DEF C
  <2>3. Enumerates(members, C)
    BY <2>1, SidsHave, AscendingHas
  <2> HIDE DEF members
  <2>4. IsComponent(g, n, C)
    BY <2>1, <2>3, ComponentMakes
  <2> HIDE DEF g
  <2> QED
    BY <2>1, <2>2, <2>4, ComponentFaithful DEF C
<1>11. \A k \in 1 .. m : ordered[k] \in Of(k) /\ Of(k) \subseteq Sids(n)
  BY <1>8 DEF IsConnected, ClosedBothWays
<1>12. ASSUME NEW k \in 1 .. m, NEW l \in 1 .. m, Of(k) \cap Of(l) # {} PROVE k = l
  <2>1. Of(k) = Of(l)
    <3> DEFINE C == Of(k)
               D == Of(l)
               s == ordered[k]
               u == ordered[l]
    <3>1. IsConnected(n, s, C) /\ IsConnected(n, u, D) /\ C \cap D # {}
      BY <1>8, <1>12
    <3> HIDE DEF C, D, s, u
    <3>2. C = D
      BY <3>1, ConnectedMeet
    <3> QED
      BY <3>2 DEF C, D
  <2>2. ordered[k] <= ordered[l] /\ ordered[l] <= ordered[k]
    BY <1>3, <1>7, <1>11, <2>1
  <2>3. ordered[k] \in Nat /\ ordered[l] \in Nat
    BY <1>5, <1>7
  <2>4. ordered[k] = ordered[l]
    BY <2>2, <2>3
  <2> QED
    BY <1>6, <1>7, <2>4 DEF Enumerates, IsInjective
<1>13. ASSUME NEW s \in Sids(n) PROVE \E k \in 1 .. m : s \in Of(k)
  <2> DEFINE C == Connected(n, s)
  <2>1. IsConnected(n, s, C)
    BY <1>2
  <2> HIDE DEF C
  <2>2. C \subseteq Nat /\ C \subseteq Sids(n) /\ s \in C
    BY <1>5, <2>1 DEF IsConnected, ClosedBothWays
  <2>3. PICK x \in C : \A u \in C : x <= u
    BY <2>2, Least
  <2> DEFINE D == Connected(n, x)
  <2>4. IsConnected(n, x, D)
    BY <1>2, <2>2, <2>3
  <2>5. C = D
    <3> HIDE DEF D
    <3>1. x \in D
      BY <2>4 DEF IsConnected
    <3> QED
      BY <2>1, <2>3, <2>4, <3>1, ConnectedMeet
  <2>6. x \in Firsts
    BY <1>4, <2>2, <2>3, <2>5
  <2>7. PICK k \in 1 .. m : x = ordered[k]
    BY <1>7, <2>6
  <2> QED
    BY <2>2, <2>5, <2>7
<1> HIDE DEF Of
<1>14. \A k \in DOMAIN gs : Faithful(gs[k], n) /\ PrefixFree(gs[k]) /\ Originals(gs[k]) # {}
  BY <1>9, <1>10, <1>11
<1>15. \A k, l \in DOMAIN gs : k # l => Originals(gs[k]) \cap Originals(gs[l]) = {}
  BY <1>9, <1>10, <1>12
<1>16. UNION { Originals(gs[k]) : k \in DOMAIN gs } = Sids(n)
  <2>1. \A k \in DOMAIN gs : Originals(gs[k]) \subseteq Sids(n)
    BY <1>9, <1>10, <1>11
  <2>2. \A s \in Sids(n) : \E k \in DOMAIN gs : s \in Originals(gs[k])
    BY <1>9, <1>10, <1>13
  <2> QED
    BY <2>1, <2>2
<1> QED
  BY <1>7, <1>9, <1>14, <1>15, <1>16 DEF Disjoint, Covers, gs

-----------------------------------------------------------------------------
(* Merging.                                                                  *)

\* The edges that merge_nfas adds with a state.
EdgesTo(s, to) == [k \in 1 .. Len(to) |-> <<s, to[k]>>]

\* A state that merge_nfas adds comes with all its edges, and no others.
LEMMA EdgesToHave ==
    ASSUME NEW s \in Name, NEW to \in Seq(Name)
    PROVE  /\ EdgesTo(s, to) \in Seq(Name \X Name)
           /\ \A e : e \in ToSet(EdgesTo(s, to)) <=> \E b \in ToSet(to) : e = <<s, b>>
           /\ \A h : addState(h, s, to) = addEdges(addNode(h, s), EdgesTo(s, to))
<1> DEFINE list == EdgesTo(s, to)
           m == Len(to)
<1>1. m \in Nat /\ (\A k \in 1 .. m : to[k] \in Name) /\ ToSet(to) = { to[k] : k \in 1 .. m }
  BY ListHas
<1>2. list = [k \in 1 .. m |-> <<s, to[k]>>]
  BY DEF EdgesTo
<1>3. \A h : addState(h, s, to) = addEdges(addNode(h, s), list)
  BY DEF addState, EdgesTo
<1> HIDE DEF list, m
<1>4. Places(list, m, Name \X Name)
  BY <1>1, <1>2 DEF Places
<1>5. list \in Seq(Name \X Name) /\ ToSet(list) = { list[k] : k \in 1 .. m }
  BY <1>4, PlacesHave
<1>6. \A e : e \in ToSet(list) <=> \E b \in ToSet(to) : e = <<s, b>>
  <2>1. \A k \in 1 .. m : list[k] = <<s, to[k]>>
    BY <1>2
  <2> QED
    BY <1>1, <1>5, <2>1
<1> QED
  BY <1>3, <1>5, <1>6 DEF list

\* merge_nfas adds the states of a graph one after the other.
AddAllRun(res, g) ==
    \E f \in [0 .. Len(Numbers(g.V)) -> Graph] :
       /\ f[0] = res /\ addAll(res, g) = f[Len(Numbers(g.V))]
       /\ \A k \in 1 .. Len(Numbers(g.V)) :
             f[k] = addState(f[k - 1], g.node_pool[Numbers(g.V)[k]], get_adj(g, g.node_pool[Numbers(g.V)[k]]))

\* The inner loop of merge_nfas is such a run.
LEMMA AddAllLoop ==
    ASSUME NEW res \in Graph, NEW g, Listed(g), Numbered(g)
    PROVE  AddAllRun(res, g)
<1> DEFINE list == Numbers(g.V)
           n == Len(list)
           first == res
           Step(h, x) == addState(h, g.node_pool[x], get_adj(g, g.node_pool[x]))
           Follows(f, l) ==
              f = [k \in 0 .. Len(l) |->
                      IF k = 0 THEN first
                      ELSE CHOOSE next \in { Step(h, l[k]) : h \in {f[k - 1]} } : TRUE]
           End(l) == (CHOOSE f : Follows(f, l))[Len(l)]
           c == CHOOSE f : Follows(f, list)
<1>1. n \in Nat /\ \A k \in 1 .. n : list[k] \in (0 .. g.V - 1)
  <2>1. g.V \in Nat
    BY GraphHas DEF Listed
  <2>2. Len(Numbers(g.V)) = g.V /\ \A k \in 1 .. g.V : Numbers(g.V)[k] = k - 1
    BY <2>1, NumbersHave
  <2> QED
    BY <2>1, <2>2
<1>2. ASSUME NEW h \in Graph, NEW x \in (0 .. g.V - 1) PROVE Step(h, x) \in Graph
  <2> DEFINE s == g.node_pool[x]
             to == get_adj(g, s)
  <2>1. s \in Name
    BY GraphHas DEF Listed, Numbered, StrIds, Range
  <2>2. to \in Seq(Name)
    BY <2>1, GraphHas DEF Listed
  <2>3. Step(h, x) = addState(h, s, to)
    OBVIOUS
  <2> HIDE DEF s, to, Step
  <2>4. EdgesTo(s, to) \in Seq(Name \X Name) /\ addState(h, s, to) = addEdges(addNode(h, s), EdgesTo(s, to))
    BY <2>1, <2>2, EdgesToHave
  <2> DEFINE u == addNode(h, s)
  <2>5. u \in Graph
    BY <2>1, GraphsGrow
  <2> HIDE DEF u
  <2>6. addEdges(u, EdgesTo(s, to)) \in Graph
    BY <2>4, <2>5, GraphsGrow
  <2> QED
    BY <2>3, <2>4, <2>6 DEF u
<1>3. addAll(res, g) = CHOOSE end \in { End(l) : l \in {list} } : TRUE
  BY DEF addAll, Loop
<1>4. first \in Graph
  OBVIOUS
<1> HIDE DEF Step, list, first
<1>5. \E f \in [0 .. n -> Graph] : f[0] = first /\ \A k \in 1 .. n : f[k] = Step(f[k - 1], list[k])
  <2> DEFINE F == [k \in 1 .. n |-> [h \in Graph |-> Step(h, list[k])]]
  <2>1. Steps(F, n, Graph)
    BY <1>1, <1>2 DEF Steps
  <2>2. \A k \in 1 .. n, h \in Graph : F[k][h] = Step(h, list[k])
    OBVIOUS
  <2>3. n \in Nat /\ first \in Graph
    BY <1>1, <1>4
  <2> HIDE DEF F, n, c, Follows, End
  <2>4. PICK f \in [0 .. n -> Graph] : f[0] = first /\ \A k \in 1 .. n : f[k] = F[k][f[k - 1]]
    <3>1. Leads(F, n, Graph, first)
      BY <2>1, <2>3, Iterated, Zenon
    <3> QED
      BY <3>1 DEF Leads
  <2>5. ASSUME NEW k \in 1 .. n PROVE f[k] = Step(f[k - 1], list[k])
    <3>1. k - 1 \in 0 .. n
      BY <2>3
    <3>2. f[k - 1] \in Graph
      BY <3>1
    <3> QED
      BY <2>2, <2>4, <3>2
  <2> QED
    BY <2>4, <2>5
<1>6. addAll(res, g) = c[n]
  <2>1. addAll(res, g) = End(list)
    <3> HIDE DEF End
    <3>1. { End(l) : l \in {list} } = { End(list) }
      OBVIOUS
    <3> QED
      BY <1>3, <3>1, OnlyChoice
  <2> QED
    BY <2>1
<1>7. \A f : Follows(f, list) <=> f = [k \in 0 .. n |-> IF k = 0 THEN first ELSE Step(f[k - 1], list[k])]
  <2>1. \A f, k : { Step(h, list[k]) : h \in {f[k - 1]} } = { Step(f[k - 1], list[k]) }
    OBVIOUS
  <2> QED
    BY <2>1, OnlyChoice
<1>8. c = [k \in 0 .. n |-> IF k = 0 THEN first ELSE Step(c[k - 1], list[k])]
  <2>1. PICK f \in [0 .. n -> Graph] : f[0] = first /\ \A k \in 1 .. n : f[k] = Step(f[k - 1], list[k])
    BY <1>5
  <2> HIDE DEF n
  <2>2. \A k \in 0 .. n : k = 0 \/ k \in 1 .. n
    BY <1>1
  <2>3. f = [k \in 0 .. n |-> IF k = 0 THEN first ELSE Step(f[k - 1], list[k])]
    BY <2>1, <2>2
  <2>4. Follows(f, list)
    BY <1>7, <2>3
  <2> HIDE DEF Follows
  <2>5. Follows(c, list)
    BY <2>4
  <2> HIDE DEF c
  <2> QED
    BY <1>7, <2>5
<1> HIDE DEF c, Follows, End, n
<1>9. c[0] = first /\ \A k \in 1 .. n : c[k] = Step(c[k - 1], list[k])
  <2>1. 0 \in 0 .. n /\ \A k \in 1 .. n : k \in 0 .. n /\ k # 0
    BY <1>1
  <2> QED
    BY <1>8, <2>1
<1>10. c \in [0 .. n -> Graph]
  <2> DEFINE Good == { k \in 0 .. n : c[k] \in Graph }
  <2>1. 0 \in Good
    BY <1>1, <1>4, <1>9
  <2>2. \A k \in 1 .. n : k - 1 \in Good => k \in Good
    BY <1>1, <1>2, <1>9
  <2> HIDE DEF Good
  <2>3. 0 .. n \subseteq Good
    BY <1>1, <2>1, <2>2, UpTo
  <2>4. \A k \in 0 .. n : c[k] \in Graph
    BY <2>3 DEF Good
  <2> QED
    BY <1>8, <2>4
<1> QED
  BY <1>6, <1>9, <1>10 DEF n, Step, list, first, AddAllRun

\* merge_nfas adds one graph after the other.
MergeRun(gs) ==
    \E f \in [0 .. Len(gs) -> Graph] :
       /\ f[0] = NewNFA /\ merge_nfas(gs) = f[Len(gs)]
       /\ \A k \in 1 .. Len(gs) :
             f[k] = addAll(f[k - 1], gs[k])

\* The outer loop of merge_nfas is such a run.
LEMMA MergeLoop ==
    ASSUME NEW gs, NEW T, gs \in Seq(T), \A g \in T : Listed(g) /\ Numbered(g)
    PROVE  MergeRun(gs)
<1> DEFINE list == gs
           n == Len(list)
           first == NewNFA
           Step(h, x) == addAll(h, x)
           Follows(f, l) ==
              f = [k \in 0 .. Len(l) |->
                      IF k = 0 THEN first
                      ELSE CHOOSE next \in { Step(h, l[k]) : h \in {f[k - 1]} } : TRUE]
           End(l) == (CHOOSE f : Follows(f, l))[Len(l)]
           c == CHOOSE f : Follows(f, list)
<1>1. n \in Nat /\ \A k \in 1 .. n : list[k] \in T
  BY ListHas
<1>2. ASSUME NEW h \in Graph, NEW x \in T PROVE Step(h, x) \in Graph
  <2>1. Listed(x) /\ Numbered(x)
    OBVIOUS
  <2>2. AddAllRun(h, x) /\ x.V \in Nat
    BY <2>1, AddAllLoop, GraphHas DEF Listed
  <2>3. Len(Numbers(x.V)) = x.V
    BY <2>2, NumbersHave
  <2>4. PICK f \in [0 .. Len(Numbers(x.V)) -> Graph] : addAll(h, x) = f[Len(Numbers(x.V))]
    BY <2>2 DEF AddAllRun
  <2> QED
    BY <2>2, <2>3, <2>4
<1>3. merge_nfas(gs) = CHOOSE end \in { End(l) : l \in {list} } : TRUE
  BY DEF merge_nfas, Loop
<1>4. first \in Graph
  BY NewIsListed DEF Listed
<1> HIDE DEF Step, list, first
<1>5. \E f \in [0 .. n -> Graph] : f[0] = first /\ \A k \in 1 .. n : f[k] = Step(f[k - 1], list[k])
  <2> DEFINE F == [k \in 1 .. n |-> [h \in Graph |-> Step(h, list[k])]]
  <2>1. Steps(F, n, Graph)
    BY <1>1, <1>2 DEF Steps
  <2>2. \A k \in 1 .. n, h \in Graph : F[k][h] = Step(h, list[k])
    OBVIOUS
  <2>3. n \in Nat /\ first \in Graph
    BY <1>1, <1>4
  <2> HIDE DEF F, n, c, Follows, End
  <2>4. PICK f \in [0 .. n -> Graph] : f[0] = first /\ \A k \in 1 .. n : f[k] = F[k][f[k - 1]]
    <3>1. Leads(F, n, Graph, first)
      BY <2>1, <2>3, Iterated, Zenon
    <3> QED
      BY <3>1 DEF Leads
  <2>5. ASSUME NEW k \in 1 .. n PROVE f[k] = Step(f[k - 1], list[k])
    <3>1. k - 1 \in 0 .. n
      BY <2>3
    <3>2. f[k - 1] \in Graph
      BY <3>1
    <3> QED
      BY <2>2, <2>4, <3>2
  <2> QED
    BY <2>4, <2>5
<1>6. merge_nfas(gs) = c[n]
  <2>1. merge_nfas(gs) = End(list)
    <3> HIDE DEF End
    <3>1. { End(l) : l \in {list} } = { End(list) }
      OBVIOUS
    <3> QED
      BY <1>3, <3>1, OnlyChoice
  <2> QED
    BY <2>1
<1>7. \A f : Follows(f, list) <=> f = [k \in 0 .. n |-> IF k = 0 THEN first ELSE Step(f[k - 1], list[k])]
  <2>1. \A f, k : { Step(h, list[k]) : h \in {f[k - 1]} } = { Step(f[k - 1], list[k]) }
    OBVIOUS
  <2> QED
    BY <2>1, OnlyChoice
<1>8. c = [k \in 0 .. n |-> IF k = 0 THEN first ELSE Step(c[k - 1], list[k])]
  <2>1. PICK f \in [0 .. n -> Graph] : f[0] = first /\ \A k \in 1 .. n : f[k] = Step(f[k - 1], list[k])
    BY <1>5
  <2> HIDE DEF n
  <2>2. \A k \in 0 .. n : k = 0 \/ k \in 1 .. n
    BY <1>1
  <2>3. f = [k \in 0 .. n |-> IF k = 0 THEN first ELSE Step(f[k - 1], list[k])]
    BY <2>1, <2>2
  <2>4. Follows(f, list)
    BY <1>7, <2>3
  <2> HIDE DEF Follows
  <2>5. Follows(c, list)
    BY <2>4
  <2> HIDE DEF c
  <2> QED
    BY <1>7, <2>5
<1> HIDE DEF c, Follows, End, n
<1>9. c[0] = first /\ \A k \in 1 .. n : c[k] = Step(c[k - 1], list[k])
  <2>1. 0 \in 0 .. n /\ \A k \in 1 .. n : k \in 0 .. n /\ k # 0
    BY <1>1
  <2> QED
    BY <1>8, <2>1
<1>10. c \in [0 .. n -> Graph]
  <2> DEFINE Good == { k \in 0 .. n : c[k] \in Graph }
  <2>1. 0 \in Good
    BY <1>1, <1>4, <1>9
  <2>2. \A k \in 1 .. n : k - 1 \in Good => k \in Good
    BY <1>1, <1>2, <1>9
  <2> HIDE DEF Good
  <2>3. 0 .. n \subseteq Good
    BY <1>1, <2>1, <2>2, UpTo
  <2>4. \A k \in 0 .. n : c[k] \in Graph
    BY <2>3 DEF Good
  <2> QED
    BY <1>8, <2>4
<1> QED
  BY <1>6, <1>9, <1>10 DEF n, Step, list, first, MergeRun

\* The numbers when k states of g have been added to res.
PoolSum(res, g, k) ==
    [j \in 0 .. res.V + k - 1 |-> IF j < res.V THEN res.node_pool[j] ELSE g.node_pool[j - res.V]]

\* Graph h is res with k states of g.
HasAdded(h, res, g, k) ==
    /\ Listed(h) /\ Keys(h) \subseteq Keys(res) \cup StrIds(g)
    /\ h.V = res.V + k /\ h.node_pool = PoolSum(res, g, k)
    /\ \A e : e \in Edges(h) <=> \/ e \in Edges(res)
                                 \/ \E j \in 0 .. k - 1 : e \in Edges(g) /\ e[1] = g.node_pool[j]

\* What merging is given.
MayAdd(res, g) ==
    /\ Listed(res) /\ DOMAIN res.node_pool = 0 .. res.V - 1
    /\ Listed(g) /\ Numbered(g) /\ Keys(g) \subseteq StrIds(g)

\* The numbers grow by one.
LEMMA PoolSumGrows ==
    ASSUME NEW res, NEW g, res.V \in Nat, NEW k \in Nat
    PROVE  PoolSum(res, g, k + 1) = Put(PoolSum(res, g, k), res.V + k, g.node_pool[k])
<1> DEFINE v == res.V
           p == PoolSum(res, g, k)
           At(j) == IF j < v THEN res.node_pool[j] ELSE g.node_pool[j - v]
<1>1. PoolSum(res, g, k + 1) = [j \in 0 .. v + (k + 1) - 1 |-> At(j)] /\ p = [j \in 0 .. v + k - 1 |-> At(j)]
  BY DEF PoolSum
<1>2. v \in Nat
  OBVIOUS
<1>3. At(v + k) = g.node_pool[k]
  <2>1. ~(v + k < v) /\ (v + k) - v = k
    BY <1>2
  <2> QED
    BY <2>1
<1> HIDE DEF v, p, At
<1>4. 0 .. v + (k + 1) - 1 = (0 .. v + k - 1) \cup {v + k}
  BY <1>2
<1>5. \A j \in 0 .. v + (k + 1) - 1 : j = v + k \/ j \in 0 .. v + k - 1
  BY <1>4
<1>6. Put(p, v + k, g.node_pool[k])
        = [j \in 0 .. v + (k + 1) - 1 |-> IF j = v + k THEN g.node_pool[k] ELSE p[j]]
  BY <1>1, <1>4 DEF Put
<1>7. \A j \in 0 .. v + (k + 1) - 1 : (IF j = v + k THEN g.node_pool[k] ELSE p[j]) = At(j)
  <2> TAKE j \in 0 .. v + (k + 1) - 1
  <2>1. CASE j = v + k
    BY <1>3, <2>1
  <2>2. CASE j # v + k
    BY <1>1, <1>5, <2>2
  <2> QED
    BY <2>1, <2>2
<1>8. Put(p, v + k, g.node_pool[k]) = [j \in 0 .. v + (k + 1) - 1 |-> At(j)]
  BY <1>6, <1>7
<1>9. PoolSum(res, g, k + 1) = Put(p, v + k, g.node_pool[k])
  BY <1>1, <1>8
<1> QED
  BY <1>9 DEF p, v

\* A state of g more.
LEMMA AddedMore ==
    ASSUME NEW res, NEW g, MayAdd(res, g), NEW k \in 0 .. g.V - 1,
           NEW h, HasAdded(h, res, g, k)
    PROVE  HasAdded(addState(h, g.node_pool[k], get_adj(g, g.node_pool[k])), res, g, k + 1)
<1> DEFINE s == g.node_pool[k]
           to == get_adj(g, s)
           list == EdgesTo(s, to)
           K == Keys(res) \cup StrIds(g)
           a == addEdges(addNode(h, s), list)
<1>1. Listed(g) /\ Numbered(g) /\ Keys(g) \subseteq StrIds(g) /\ g.V \in Nat /\ k \in Nat /\ k < g.V
  <2>1. Listed(g) /\ Numbered(g) /\ Keys(g) \subseteq StrIds(g)
    BY DEF MayAdd
  <2>2. g.V \in Nat
    BY <2>1, GraphHas DEF Listed
  <2> QED
    BY <2>1, <2>2
<1>2. s \in StrIds(g) /\ s \in Name
  <2>1. s \in StrIds(g)
    BY <1>1 DEF Numbered, StrIds, Range
  <2> QED
    BY <1>1, <2>1, GraphHas DEF Listed
<1> HIDE DEF s
<1>3. to \in Seq(Name)
  BY <1>1, <1>2, GraphHas DEF Listed
<1>4. \A e : e \in Edges(g) /\ e[1] = s <=> \E b \in ToSet(to) : e = <<s, b>>
  <2>1. /\ \A b : <<s, b>> \in Edges(g) <=> b \in ToSet(to)
        /\ \A e \in Edges(g) : e = <<e[1], e[2]>>
    BY <1>1, <1>2, EdgeHas DEF Out
  <2> QED
    BY <2>1
<1>5. \A b \in ToSet(to) : b \in StrIds(g)
  <2>1. \A b : <<s, b>> \in Edges(g) => b \in Keys(g)
    BY <1>1, EdgeHas
  <2> QED
    BY <1>1, <1>4, <2>1
<1> HIDE DEF to
<1>6. /\ list \in Seq(Name \X Name) /\ addState(h, s, to) = a
      /\ \A e : e \in ToSet(list) <=> \E b \in ToSet(to) : e = <<s, b>>
  BY <1>2, <1>3, EdgesToHave
<1> HIDE DEF list
<1>7. Listed(h) /\ Keys(h) \subseteq K /\ h.V = res.V + k /\ res.V \in Nat
  <2>1. Listed(res)
    BY DEF MayAdd
  <2>2. res.V \in Nat
    BY <2>1, GraphHas DEF Listed
  <2> QED
    BY <2>2 DEF HasAdded
<1> HIDE DEF K
<1>8. Inside(h, s, ToSet(list), K)
  <2>1. s \in K /\ \A b \in ToSet(to) : b \in K
    BY <1>2, <1>5 DEF K
  <2>2. \A e \in ToSet(list) : e[1] \in K /\ e[2] \in K
    BY <1>6, <2>1
  <2> QED
    BY <1>7, <2>1, <2>2 DEF Inside
<1>9. HasState(a, h, s, ToSet(list), K)
  BY <1>2, <1>6, <1>7, <1>8, StateMore
<1>10. a.V = res.V + (k + 1)
  BY <1>1, <1>7, <1>9 DEF HasState
<1>11. a.node_pool = PoolSum(res, g, k + 1)
  <2>1. a.node_pool = Put(PoolSum(res, g, k), res.V + k, s)
    BY <1>7, <1>9 DEF HasState, HasAdded
  <2> QED
    BY <1>1, <1>7, <2>1, PoolSumGrows DEF s
<1>12. ASSUME NEW e
       PROVE  e \in Edges(a) <=> \/ e \in Edges(res)
                                 \/ \E j \in 0 .. (k + 1) - 1 : e \in Edges(g) /\ e[1] = g.node_pool[j]
  <2>1. e \in Edges(a) <=> e \in Edges(h) \/ (e \in Edges(g) /\ e[1] = s)
    BY <1>4, <1>6, <1>9 DEF HasState
  <2>2. e \in Edges(h) <=> \/ e \in Edges(res)
                           \/ \E j \in 0 .. k - 1 : e \in Edges(g) /\ e[1] = g.node_pool[j]
    BY DEF HasAdded
  <2>3. \A j : j \in 0 .. (k + 1) - 1 <=> j \in 0 .. k - 1 \/ j = k
    BY <1>1
  <2> QED
    BY <2>1, <2>2, <2>3 DEF s
<1>13. HasAdded(a, res, g, k + 1)
  BY <1>9, <1>10, <1>11, <1>12 DEF HasState, HasAdded, K
<1> QED
  BY <1>6, <1>13 DEF s, to

\* Graph h is res and g.
IsSum(h, res, g) ==
    /\ Listed(h) /\ Keys(h) \subseteq Keys(res) \cup StrIds(g)
    /\ h.V = res.V + g.V /\ h.node_pool = PoolSum(res, g, g.V)
    /\ Edges(h) = Edges(res) \cup Edges(g)

\* The inner loop of merge_nfas makes the sum.
LEMMA AddAllHas ==
    ASSUME NEW res, NEW g, MayAdd(res, g)
    PROVE  IsSum(addAll(res, g), res, g)
<1> DEFINE v == g.V
           list == Numbers(v)
<1>1. Listed(g) /\ Numbered(g) /\ Keys(g) \subseteq StrIds(g) /\ res \in Graph /\ Listed(res)
  BY DEF MayAdd, Listed
<1>2. v \in Nat /\ res.V \in Nat
  BY <1>1, GraphHas DEF Listed
<1>3. Len(list) = v /\ \A k \in 1 .. v : list[k] = k - 1
  BY <1>2, NumbersHave
<1>4. PICK f \in [0 .. v -> Graph] :
         /\ f[0] = res /\ addAll(res, g) = f[v]
         /\ \A k \in 1 .. v : f[k] = addState(f[k - 1], g.node_pool[list[k]], get_adj(g, g.node_pool[list[k]]))
  <2>1. AddAllRun(res, g)
    BY <1>1, AddAllLoop
  <2> QED
    BY <1>3, <2>1 DEF AddAllRun
<1> HIDE DEF list, v
<1> DEFINE Good == { k \in 0 .. v : HasAdded(f[k], res, g, k) }
<1>5. 0 \in Good
  <2>1. res.node_pool = PoolSum(res, g, 0)
    <3> DEFINE w == res.V
               p == res.node_pool
    <3>1. w + 0 - 1 = w - 1 /\ \A j \in 0 .. w - 1 : j < w
      BY <1>2
    <3>2. p = [j \in 0 .. w - 1 |-> p[j]]
      <4>1. \E D, R : p \in [D -> R]
        BY <1>1, GraphHas DEF Pools
      <4>2. DOMAIN p = 0 .. w - 1
        BY DEF MayAdd
      <4> QED
        BY <4>1, <4>2
    <3> HIDE DEF w, p
    <3>3. [j \in 0 .. w - 1 |-> p[j]] = [j \in 0 .. w + 0 - 1 |-> IF j < w THEN p[j] ELSE g.node_pool[j - w]]
      BY <3>1
    <3> QED
      BY <3>2, <3>3 DEF PoolSum, w, p
  <2>2. HasAdded(res, res, g, 0)
    BY <1>1, <1>2, <2>1 DEF HasAdded
  <2> QED
    BY <1>2, <1>4, <2>2
<1>6. ASSUME NEW k \in 1 .. v, k - 1 \in Good PROVE k \in Good
  <2> DEFINE i == k - 1
             h == f[i]
  <2>1. HasAdded(h, res, g, i)
    BY <1>6
  <2>2. i \in 0 .. g.V - 1 /\ i + 1 = k
    BY <1>2 DEF v
  <2>3. f[k] = addState(h, g.node_pool[i], get_adj(g, g.node_pool[i]))
    BY <1>3, <1>4
  <2> HIDE DEF h, Good, i
  <2>4. HasAdded(addState(h, g.node_pool[i], get_adj(g, g.node_pool[i])), res, g, i + 1)
    BY <2>1, <2>2, AddedMore
  <2>5. HasAdded(f[k], res, g, k)
    BY <2>2, <2>3, <2>4
  <2> QED
    BY <1>2, <2>5 DEF Good
<1>7. HasAdded(addAll(res, g), res, g, v)
  <2> HIDE DEF Good
  <2>1. 0 .. v \subseteq Good
    BY <1>2, <1>5, <1>6, UpTo
  <2>2. v \in Good
    BY <1>2, <2>1
  <2> QED
    BY <1>4, <2>2 DEF Good
<1> DEFINE h == addAll(res, g)
<1> HIDE DEF h
<1>8. /\ Listed(h) /\ Keys(h) \subseteq Keys(res) \cup StrIds(g)
      /\ h.V = res.V + v /\ h.node_pool = PoolSum(res, g, v)
      /\ \A e : e \in Edges(h) <=> \/ e \in Edges(res)
                                   \/ \E j \in 0 .. v - 1 : e \in Edges(g) /\ e[1] = g.node_pool[j]
  BY <1>7 DEF HasAdded, h
<1>9. \A e \in Edges(g) : \E j \in 0 .. v - 1 : e[1] = g.node_pool[j]
  <2> TAKE e \in Edges(g)
  <2>1. e[1] \in StrIds(g)
    BY <1>1, EdgeHas
  <2> QED
    BY <1>1, <2>1 DEF StrIds, Range, Numbered, v
<1>10. Edges(h) = Edges(res) \cup Edges(g)
  BY <1>8, <1>9
<1> QED
  BY <1>8, <1>10 DEF IsSum, v, h

\* The sum of two graphs with different states.
LEMMA SumHas ==
    ASSUME NEW res, NEW g, NEW h, Listed(res), Numbered(res), Listed(g), Numbered(g),
           StrIds(res) \cap StrIds(g) = {}, IsSum(h, res, g)
    PROVE  Numbered(h) /\ StrIds(h) = StrIds(res) \cup StrIds(g)
<1> DEFINE v == res.V
           w == g.V
           p == res.node_pool
           q == g.node_pool
           At(j) == IF j < v THEN p[j] ELSE q[j - v]
<1>1. v \in Nat /\ w \in Nat
  BY GraphHas DEF Listed
<1>2. /\ DOMAIN p = 0 .. v - 1 /\ \A i, k \in 0 .. v - 1 : p[i] = p[k] => i = k
      /\ DOMAIN q = 0 .. w - 1 /\ \A i, k \in 0 .. w - 1 : q[i] = q[k] => i = k
  BY DEF Numbered, IsInjective
<1>3. h.V = v + w /\ h.node_pool = [j \in 0 .. v + w - 1 |-> At(j)]
  BY DEF IsSum, PoolSum
<1>4. StrIds(res) = { p[i] : i \in 0 .. v - 1 } /\ StrIds(g) = { q[i] : i \in 0 .. w - 1 }
  BY <1>2 DEF StrIds, Range
<1>5. \A i \in 0 .. v - 1, k \in 0 .. w - 1 : p[i] # q[k]
  BY <1>4
<1> HIDE DEF v, w, p, q
<1>6. \A j \in 0 .. v + w - 1 : \/ j \in 0 .. v - 1 /\ At(j) = p[j]
                                \/ j - v \in 0 .. w - 1 /\ At(j) = q[j - v]
  BY <1>1
<1>7. /\ \A j \in 0 .. v - 1 : j \in 0 .. v + w - 1 /\ At(j) = p[j]
      /\ \A i \in 0 .. w - 1 : v + i \in 0 .. v + w - 1 /\ At(v + i) = q[i]
  BY <1>1
<1> HIDE DEF At
<1>8. ASSUME NEW j \in 0 .. v + w - 1, NEW k \in 0 .. v + w - 1, At(j) = At(k) PROVE j = k
  <2>1. CASE j \in 0 .. v - 1 /\ At(j) = p[j] /\ k \in 0 .. v - 1 /\ At(k) = p[k]
    BY <1>2, <1>8, <2>1
  <2>2. CASE j - v \in 0 .. w - 1 /\ At(j) = q[j - v] /\ k - v \in 0 .. w - 1 /\ At(k) = q[k - v]
    <3>1. j - v = k - v
      BY <1>2, <1>8, <2>2
    <3> QED
      BY <1>1, <3>1
  <2> QED
    BY <1>5, <1>6, <1>8, <2>1, <2>2
<1>9. StrIds(h) = { At(j) : j \in 0 .. v + w - 1 }
  BY <1>3 DEF StrIds, Range
<1>10. StrIds(h) = StrIds(res) \cup StrIds(g)
  <2>1. \A j \in 0 .. v + w - 1 : At(j) \in StrIds(res) \cup StrIds(g)
    BY <1>4, <1>6
  <2>2. \A a \in StrIds(res) : \E j \in 0 .. v + w - 1 : a = At(j)
    BY <1>4, <1>7
  <2>3. \A a \in StrIds(g) : \E j \in 0 .. v + w - 1 : a = At(j)
    BY <1>4, <1>7
  <2> QED
    BY <1>9, <2>1, <2>2, <2>3
<1>11. Numbered(h)
  <2>1. DOMAIN h.node_pool = 0 .. v + w - 1 /\ \A j \in 0 .. v + w - 1 : h.node_pool[j] = At(j)
    BY <1>3
  <2>2. DOMAIN h.node_pool = 0 .. h.V - 1
    <3> DEFINE z == v + w
    <3>1. h.V = z /\ DOMAIN h.node_pool = 0 .. z - 1 /\ z \in Nat
      BY <1>1, <1>3, <2>1
    <3> HIDE DEF z
    <3> QED
      BY <3>1
  <2>3. ASSUME NEW j \in 0 .. v + w - 1, NEW k \in 0 .. v + w - 1, h.node_pool[j] = h.node_pool[k]
        PROVE  j = k
    <3>1. At(j) = At(k)
      BY <2>1, <2>3
    <3> QED
      BY <1>8, <3>1
  <2>4. IsInjective(h.node_pool)
    BY <2>1, <2>3 DEF IsInjective
  <2> QED
    BY <2>2, <2>4 DEF Numbered
<1> QED
  BY <1>10, <1>11

\* The graphs to merge: no two have copies of one state.
Apart(gs, n) ==
    /\ gs \in Seq(Range(gs)) /\ \A k \in 1 .. Len(gs) : Faithful(gs[k], n)
    /\ \A k, l \in 1 .. Len(gs) : k # l => Originals(gs[k]) \cap Originals(gs[l]) = {}

\* The sizes of the first graphs.
Sizes(sum, gs) == sum[0] = 0 /\ \A k \in 1 .. Len(gs) : sum[k] = sum[k - 1] + gs[k].V

\* Graph h is made of the first k graphs.
HasMerged(h, gs, k, sum) ==
    /\ Listed(h) /\ Numbered(h) /\ Keys(h) \subseteq StrIds(h) /\ h.V = sum[k]
    /\ \A a : a \in StrIds(h) <=> \E j \in 1 .. k : a \in StrIds(gs[j])
    /\ \A e : e \in Edges(h) <=> \E j \in 1 .. k : e \in Edges(gs[j])

\* One graph more is merged.
LEMMA MergedMore ==
    ASSUME NEW n, NEW gs, Apart(gs, n), NEW sum, Sizes(sum, gs), NEW k \in 1 .. Len(gs),
           NEW h, HasMerged(h, gs, k - 1, sum)
    PROVE  HasMerged(addAll(h, gs[k]), gs, k, sum)
<1> DEFINE g == gs[k]
           i == k - 1
           a == addAll(h, g)
<1>1. Len(gs) \in Nat /\ i \in Nat /\ i + 1 = k
  BY LenProperties DEF Apart
<1>2. Listed(g) /\ Numbered(g) /\ Keys(g) \subseteq StrIds(g)
  BY DEF Apart, Faithful
<1>3. sum[k] = sum[i] + g.V
  BY DEF Sizes
<1>4. /\ Listed(h) /\ Numbered(h) /\ Keys(h) \subseteq StrIds(h) /\ h.V = sum[i]
      /\ \A x : x \in StrIds(h) <=> \E j \in 1 .. i : x \in StrIds(gs[j])
      /\ \A e : e \in Edges(h) <=> \E j \in 1 .. i : e \in Edges(gs[j])
  BY DEF HasMerged
<1>5. StrIds(h) \cap StrIds(g) = {}
  <2>1. \A j \in 1 .. i : Originals(gs[j]) \cap Originals(g) = {}
    <3>1. \A j \in 1 .. i : j \in 1 .. Len(gs) /\ j # k
      BY <1>1
    <3> QED
      BY <3>1 DEF Apart
  <2>2. \A f, x : x \in StrIds(f) => Original(x) \in Originals(f)
    BY OriginalsHave
  <2> QED
    BY <1>4, <2>1, <2>2
<1> HIDE DEF g, i
<1>6. IsSum(a, h, g)
  <2>1. MayAdd(h, g)
    BY <1>2, <1>4 DEF MayAdd, Numbered
  <2> QED
    BY <2>1, AddAllHas
<1> HIDE DEF a
<1>7. Numbered(a) /\ StrIds(a) = StrIds(h) \cup StrIds(g)
  BY <1>2, <1>4, <1>5, <1>6, SumHas
<1>8. /\ Listed(a) /\ Keys(a) \subseteq Keys(h) \cup StrIds(g)
      /\ a.V = h.V + g.V /\ Edges(a) = Edges(h) \cup Edges(g)
  BY <1>6 DEF IsSum
<1>9. \A j : j \in 1 .. k <=> j \in 1 .. i \/ j = k
  BY <1>1
<1>10. \A x : x \in StrIds(a) <=> \E j \in 1 .. k : x \in StrIds(gs[j])
  BY <1>4, <1>7, <1>9 DEF g
<1>11. \A e : e \in Edges(a) <=> \E j \in 1 .. k : e \in Edges(gs[j])
  BY <1>4, <1>8, <1>9 DEF g
<1>12. Keys(a) \subseteq StrIds(a) /\ a.V = sum[k]
  BY <1>3, <1>4, <1>7, <1>8
<1> QED
  BY <1>7, <1>8, <1>10, <1>11, <1>12 DEF HasMerged, a, g

\* merge_nfas merges all of them.
LEMMA MergeMakes ==
    ASSUME NEW n, NEW gs, Apart(gs, n), NEW sum, Sizes(sum, gs)
    PROVE  HasMerged(merge_nfas(gs), gs, Len(gs), sum)
<1> DEFINE m == Len(gs)
           T == Range(gs)
<1>1. gs \in Seq(T) /\ m \in Nat /\ DOMAIN gs = 1 .. m
  BY LenProperties DEF Apart
<1>2. \A g \in T : Listed(g) /\ Numbered(g)
  BY <1>1 DEF Apart, Range, Faithful
<1> HIDE DEF T
<1>3. PICK f \in [0 .. m -> Graph] :
         /\ f[0] = NewNFA /\ merge_nfas(gs) = f[m]
         /\ \A k \in 1 .. m : f[k] = addAll(f[k - 1], gs[k])
  BY <1>1, <1>2, MergeLoop DEF MergeRun
<1> HIDE DEF m
<1> DEFINE Good == { k \in 0 .. m : HasMerged(f[k], gs, k, sum) }
<1>4. 0 \in Good
  <2>1. Numbered(NewNFA) /\ StrIds(NewNFA) = {}
    <3>1. DOMAIN <<>> = {} /\ 0 .. 0 - 1 = {}
      BY EmptyHas
    <3> QED
      BY <3>1, NewIsListed DEF Numbered, StrIds, Range, IsInjective
  <2>2. 1 .. 0 = {}
    OBVIOUS
  <2>3. HasMerged(NewNFA, gs, 0, sum)
    BY <2>1, <2>2, NewIsListed DEF HasMerged, Sizes
  <2> QED
    BY <1>1, <1>3, <2>3
<1>5. ASSUME NEW k \in 1 .. m, k - 1 \in Good PROVE k \in Good
  <2> DEFINE h == f[k - 1]
             g == gs[k]
  <2>1. HasMerged(h, gs, k - 1, sum)
    BY <1>5
  <2>2. f[k] = addAll(h, gs[k]) /\ k \in 1 .. Len(gs)
    BY <1>3 DEF m
  <2> HIDE DEF h, Good
  <2>3. HasMerged(addAll(h, gs[k]), gs, k, sum)
    BY <2>1, <2>2, MergedMore
  <2>4. HasMerged(f[k], gs, k, sum)
    BY <2>2, <2>3
  <2> QED
    BY <1>1, <2>4 DEF Good
<1> HIDE DEF Good
<1>6. 0 .. m \subseteq Good
  BY <1>1, <1>4, <1>5, UpTo
<1>7. m \in Good
  BY <1>1, <1>6
<1> QED
  BY <1>3, <1>7 DEF Good, m

\* A list without repetitions is as long as its set is large.
LEMMA ListSize ==
    ASSUME NEW T, NEW list \in Seq(T), IsInjective(list)
    PROVE  Len(list) = Cardinality(ToSet(list))
<1> DEFINE m == Len(list)
           S == ToSet(list)
<1>1. /\ m \in Nat /\ DOMAIN list = 1 .. m
      /\ \A i \in 1 .. m : list[i] \in S
      /\ \A x \in S : \E i \in 1 .. m : x = list[i]
  BY ListHas
<1>2. list \in [1 .. m -> S]
  <2>1. list \in [1 .. m -> T]
    BY LenProperties
  <2> HIDE DEF m, S
  <2> QED
    BY <1>1, <2>1
<1>3. \A i, k \in 1 .. m : list[i] = list[k] => i = k
  BY <1>1 DEF IsInjective
<1> HIDE DEF m, S
<1>4. list \in Bijection(1 .. m, S)
  BY <1>1, <1>2, <1>3 DEF Bijection, Injection, Surjection, IsInjective
<1>5. IsFiniteSet(1 .. m) /\ Cardinality(1 .. m) = m
  <2>1. 1 \in Int /\ m \in Int /\ (1 > m => m = 0)
    BY <1>1
  <2> QED
    BY <1>1, <2>1, FS_Interval
<1>6. Cardinality(S) = Cardinality(1 .. m)
  BY <1>4, <1>5, FS_Bijection DEF ExistsBijection
<1> QED
  BY <1>5, <1>6 DEF m, S

\* Merging keeps the graphs, and the out-degrees.
LEMMA MergedHas ==
    ASSUME NEW n, NEW gs, Apart(gs, n), NEW sum, HasMerged(merge_nfas(gs), gs, Len(gs), sum),
           \A k \in 1 .. Len(gs) : Big(gs[k]) = {}
    PROVE  /\ Faithful(merge_nfas(gs), n) /\ Big(merge_nfas(gs)) = {}
           /\ Originals(merge_nfas(gs)) = UNION { Originals(gs[k]) : k \in 1 .. Len(gs) }
<1> DEFINE h == merge_nfas(gs)
           m == Len(gs)
<1>1. /\ Listed(h) /\ Numbered(h) /\ Keys(h) \subseteq StrIds(h)
      /\ \A a : a \in StrIds(h) <=> \E j \in 1 .. m : a \in StrIds(gs[j])
      /\ \A e : e \in Edges(h) <=> \E j \in 1 .. m : e \in Edges(gs[j])
  BY DEF HasMerged
<1>2. \A k \in 1 .. m : Faithful(gs[k], n)
  BY DEF Apart
<1> HIDE DEF h, m
<1>3. \A a \in StrIds(h) : a # <<>> /\ Original(a) \in Sids(n)
  BY <1>1, <1>2 DEF Faithful
<1>4. EdgesAreOriginal(h, n)
  BY <1>1, <1>2 DEF Faithful, EdgesAreOriginal
<1>5. EdgesAreKept(h, n)
  <2> SUFFICES ASSUME NEW b \in StrIds(h), NEW u \in Sids(n), Original(b) \in n.edges[u]
               PROVE  \E a \in StrIds(h) : Original(a) = u /\ <<a, b>> \in Edges(h)
    BY DEF EdgesAreKept
  <2>1. PICK j \in 1 .. m : b \in StrIds(gs[j])
    BY <1>1
  <2>2. PICK a \in StrIds(gs[j]) : Original(a) = u /\ <<a, b>> \in Edges(gs[j])
    BY <1>2, <2>1 DEF Faithful, EdgesAreKept
  <2> QED
    BY <1>1, <2>2
<1>6. Originals(h) = UNION { Originals(gs[k]) : k \in 1 .. m }
  <2>1. Originals(h) = { Original(a) : a \in StrIds(h) }
    BY OriginalsHave
  <2>2. \A k \in 1 .. m : Originals(gs[k]) = { Original(a) : a \in StrIds(gs[k]) }
    BY OriginalsHave
  <2>3. \A x \in Originals(h) : \E k \in 1 .. m : x \in Originals(gs[k])
    BY <1>1, <2>1, <2>2
  <2>4. \A k \in 1 .. m : \A x \in Originals(gs[k]) : x \in Originals(h)
    BY <1>1, <2>1, <2>2
  <2> QED
    BY <2>3, <2>4
<1>7. ASSUME NEW i \in Big(h) PROVE FALSE
  <2> DEFINE a == h.node_pool[i]
  <2>1. i \in DOMAIN h.node_pool /\ Len(get_adj(h, a)) > job.limit
    BY DEF Big, OutDegree
  <2>2. a \in StrIds(h)
    BY <2>1 DEF StrIds, Range
  <2> HIDE DEF a
  <2>3. PICK j \in 1 .. m : a \in StrIds(gs[j])
    BY <1>1, <2>2
  <2> DEFINE g == gs[j]
  <2>4. Listed(g) /\ Numbered(g) /\ Keys(g) \subseteq StrIds(g) /\ a \in Name
    <3>1. Listed(g) /\ Numbered(g) /\ Keys(g) \subseteq StrIds(g)
      BY <1>2 DEF Faithful
    <3>2. a \in Name
      BY <1>1, <2>2, GraphHas DEF Listed
    <3> QED
      BY <3>1, <3>2
  <2>5. \A l \in 1 .. m : a \in StrIds(gs[l]) => l = j
    <3>1. \A f, x : x \in StrIds(f) => Original(x) \in Originals(f)
      BY OriginalsHave
    <3>2. \A k, l \in 1 .. m : k # l => Originals(gs[k]) \cap Originals(gs[l]) = {}
      BY DEF Apart, m
    <3> QED
      BY <2>3, <3>1, <3>2
  <2>6. \A l \in 1 .. m : \A b : <<a, b>> \in Edges(gs[l]) => l = j
    <3>1. \A l \in 1 .. m : \A b : <<a, b>> \in Edges(gs[l]) => a \in StrIds(gs[l])
      <4> TAKE l \in 1 .. m
      <4>1. Listed(gs[l]) /\ Keys(gs[l]) \subseteq StrIds(gs[l])
        BY <1>2 DEF Faithful
      <4>2. \A b : <<a, b>> \in Edges(gs[l]) => a \in Keys(gs[l])
        BY <4>1, EdgeHas
      <4> QED
        BY <4>1, <4>2
    <3> QED
      BY <2>5, <3>1
  <2> HIDE DEF g
  <2>7. \A b : <<a, b>> \in Edges(h) <=> <<a, b>> \in Edges(g)
    BY <1>1, <2>6 DEF g
  <2>8. Out(h, a) = Out(g, a)
    <3>1. \A b : <<a, b>> \in Edges(h) <=> b \in Out(h, a)
      BY <1>1, <2>4, EdgeHas
    <3>2. \A b : <<a, b>> \in Edges(g) <=> b \in Out(g, a)
      BY <2>4, EdgeHas
    <3> QED
      BY <2>7, <3>1, <3>2
  <2>9. Len(get_adj(h, a)) = Cardinality(Out(h, a)) /\ Len(get_adj(g, a)) = Cardinality(Out(g, a))
    <3>1. /\ get_adj(h, a) \in Seq(Name) /\ IsInjective(get_adj(h, a))
          /\ get_adj(g, a) \in Seq(Name) /\ IsInjective(get_adj(g, a))
      BY <1>1, <2>4, GraphHas DEF Listed
    <3> QED
      BY <3>1, ListSize DEF Out
  <2>10. PICK k \in DOMAIN g.node_pool : a = g.node_pool[k]
    BY <2>3 DEF g, StrIds, Range
  <2>11. OutDegree(g, k) > job.limit
    BY <2>1, <2>8, <2>9, <2>10 DEF OutDegree
  <2>12. k \in Big(g)
    BY <2>11 DEF Big
  <2> QED
    BY <2>12 DEF g, m
<1> QED
  BY <1>1, <1>3, <1>4, <1>5, <1>6, <1>7 DEF Faithful, h, m

-----------------------------------------------------------------------------
(* Packing.                                                                  *)

\* The widths are added up.
RoomRun(members) ==
    \E f \in [0 .. Len(members) -> Nat] :
       /\ f[0] = 0 /\ Room(members) = f[Len(members)]
       /\ \A k \in 1 .. Len(members) :
             f[k] = f[k - 1] + members[k].width

\* Adding them up is such a run.
LEMMA RoomLoop ==
    ASSUME NEW T, NEW members \in Seq(T), \A member \in T : member.width \in Nat
    PROVE  RoomRun(members)
<1> DEFINE list == members
           n == Len(list)
           first == 0
           Step(h, x) == h + x.width
           Follows(f, l) ==
              f = [k \in 0 .. Len(l) |->
                      IF k = 0 THEN first
                      ELSE CHOOSE next \in { Step(h, l[k]) : h \in {f[k - 1]} } : TRUE]
           End(l) == (CHOOSE f : Follows(f, l))[Len(l)]
           c == CHOOSE f : Follows(f, list)
<1>1. n \in Nat /\ \A k \in 1 .. n : list[k] \in T
  BY ListHas
<1>2. ASSUME NEW h \in Nat, NEW x \in T PROVE Step(h, x) \in Nat
  OBVIOUS
<1>3. Room(members) = CHOOSE end \in { End(l) : l \in {list} } : TRUE
  BY DEF Room, Loop
<1>4. first \in Nat
  OBVIOUS
<1> HIDE DEF Step, list, first
<1>5. \E f \in [0 .. n -> Nat] : f[0] = first /\ \A k \in 1 .. n : f[k] = Step(f[k - 1], list[k])
  <2> DEFINE F == [k \in 1 .. n |-> [h \in Nat |-> Step(h, list[k])]]
  <2>1. Steps(F, n, Nat)
    BY <1>1, <1>2 DEF Steps
  <2>2. \A k \in 1 .. n, h \in Nat : F[k][h] = Step(h, list[k])
    OBVIOUS
  <2>3. n \in Nat /\ first \in Nat
    BY <1>1, <1>4
  <2> HIDE DEF F, n, c, Follows, End
  <2>4. PICK f \in [0 .. n -> Nat] : f[0] = first /\ \A k \in 1 .. n : f[k] = F[k][f[k - 1]]
    <3>1. Leads(F, n, Nat, first)
      BY <2>1, <2>3, Iterated, Zenon
    <3> QED
      BY <3>1 DEF Leads
  <2>5. ASSUME NEW k \in 1 .. n PROVE f[k] = Step(f[k - 1], list[k])
    <3>1. k - 1 \in 0 .. n
      BY <2>3
    <3>2. f[k - 1] \in Nat
      BY <3>1
    <3> QED
      BY <2>2, <2>4, <3>2
  <2> QED
    BY <2>4, <2>5
<1>6. Room(members) = c[n]
  <2>1. Room(members) = End(list)
    <3> HIDE DEF End
    <3>1. { End(l) : l \in {list} } = { End(list) }
      OBVIOUS
    <3> QED
      BY <1>3, <3>1, OnlyChoice
  <2> QED
    BY <2>1
<1>7. \A f : Follows(f, list) <=> f = [k \in 0 .. n |-> IF k = 0 THEN first ELSE Step(f[k - 1], list[k])]
  <2>1. \A f, k : { Step(h, list[k]) : h \in {f[k - 1]} } = { Step(f[k - 1], list[k]) }
    OBVIOUS
  <2> QED
    BY <2>1, OnlyChoice
<1>8. c = [k \in 0 .. n |-> IF k = 0 THEN first ELSE Step(c[k - 1], list[k])]
  <2>1. PICK f \in [0 .. n -> Nat] : f[0] = first /\ \A k \in 1 .. n : f[k] = Step(f[k - 1], list[k])
    BY <1>5
  <2> HIDE DEF n
  <2>2. \A k \in 0 .. n : k = 0 \/ k \in 1 .. n
    BY <1>1
  <2>3. f = [k \in 0 .. n |-> IF k = 0 THEN first ELSE Step(f[k - 1], list[k])]
    BY <2>1, <2>2
  <2>4. Follows(f, list)
    BY <1>7, <2>3
  <2> HIDE DEF Follows
  <2>5. Follows(c, list)
    BY <2>4
  <2> HIDE DEF c
  <2> QED
    BY <1>7, <2>5
<1> HIDE DEF c, Follows, End, n
<1>9. c[0] = first /\ \A k \in 1 .. n : c[k] = Step(c[k - 1], list[k])
  <2>1. 0 \in 0 .. n /\ \A k \in 1 .. n : k \in 0 .. n /\ k # 0
    BY <1>1
  <2> QED
    BY <1>8, <2>1
<1>10. c \in [0 .. n -> Nat]
  <2> DEFINE Good == { k \in 0 .. n : c[k] \in Nat }
  <2>1. 0 \in Good
    BY <1>1, <1>4, <1>9
  <2>2. \A k \in 1 .. n : k - 1 \in Good => k \in Good
    BY <1>1, <1>2, <1>9
  <2> HIDE DEF Good
  <2>3. 0 .. n \subseteq Good
    BY <1>1, <2>1, <2>2, UpTo
  <2>4. \A k \in 0 .. n : c[k] \in Nat
    BY <2>3 DEF Good
  <2> QED
    BY <1>8, <2>4
<1> QED
  BY <1>6, <1>9, <1>10 DEF n, Step, list, first, RoomRun

\* The room of a sequence of members.
Widened(members, T) == members \in Seq(T) /\ \A member \in T : member.width \in Nat

\* What a block has taken is a number, and only one fits the widths.
LEMMA RoomHas ==
    ASSUME NEW T, NEW members, Widened(members, T)
    PROVE  /\ Room(members) \in Nat
           /\ \A sum : /\ sum[0] = 0
                       /\ \A k \in 1 .. Len(members) : sum[k] = sum[k - 1] + members[k].width
                       => sum[Len(members)] = Room(members)
<1> DEFINE m == Len(members)
<1>1. m \in Nat /\ members \in Seq(T) /\ \A member \in T : member.width \in Nat
  BY LenProperties DEF Widened
<1>2. PICK f \in [0 .. m -> Nat] :
         /\ f[0] = 0 /\ Room(members) = f[m]
         /\ \A k \in 1 .. m : f[k] = f[k - 1] + members[k].width
  BY <1>1, RoomLoop DEF RoomRun
<1> HIDE DEF m
<1>3. Room(members) \in Nat
  BY <1>1, <1>2
<1>4. ASSUME NEW sum, sum[0] = 0, \A k \in 1 .. m : sum[k] = sum[k - 1] + members[k].width
      PROVE  sum[m] = Room(members)
  <2> DEFINE Same == { k \in 0 .. m : sum[k] = f[k] }
  <2>1. 0 \in Same
    BY <1>1, <1>2, <1>4
  <2>2. ASSUME NEW k \in 1 .. m, k - 1 \in Same PROVE k \in Same
    <3>1. sum[k - 1] = f[k - 1] /\ k \in 0 .. m
      BY <1>1, <2>2
    <3>2. sum[k] = f[k]
      BY <1>2, <1>4, <3>1
    <3> QED
      BY <3>1, <3>2
  <2> HIDE DEF Same
  <2>3. 0 .. m \subseteq Same
    BY <1>1, <2>1, <2>2, UpTo
  <2>4. m \in Same
    BY <1>1, <2>3
  <2> QED
    BY <1>2, <2>4 DEF Same
<1> QED
  BY <1>3, <1>4 DEF m

\* A member more, and none.
LEMMA RoomMore ==
    ASSUME NEW T, NEW members, Widened(members, T), NEW member \in T
    PROVE  /\ Widened(Append(members, member), T)
           /\ Room(Append(members, member)) = Room(members) + member.width
<1> DEFINE m == Len(members)
           more == Append(members, member)
<1>1. m \in Nat /\ members \in Seq(T) /\ \A x \in T : x.width \in Nat
  BY LenProperties DEF Widened
<1>2. /\ more \in Seq(T) /\ Len(more) = m + 1 /\ more[m + 1] = member
      /\ \A k \in 1 .. m : more[k] = members[k]
  BY <1>1
<1> HIDE DEF more
<1>3. PICK f \in [0 .. m + 1 -> Nat] :
         /\ f[0] = 0 /\ Room(more) = f[m + 1]
         /\ \A k \in 1 .. m + 1 : f[k] = f[k - 1] + more[k].width
  <2>1. RoomRun(more)
    BY <1>1, <1>2, RoomLoop
  <2> HIDE DEF m
  <2> QED
    BY <1>2, <2>1 DEF RoomRun
<1>4. f[m] = Room(members)
  <2>1. \A k \in 1 .. m : f[k] = f[k - 1] + members[k].width
    <3>1. \A k \in 1 .. m : k \in 1 .. m + 1
      BY <1>1
    <3> QED
      BY <1>2, <1>3, <3>1
  <2> HIDE DEF m
  <2>2. f[0] = 0 /\ \A k \in 1 .. Len(members) : f[k] = f[k - 1] + members[k].width
    BY <1>3, <2>1 DEF m
  <2> QED
    BY <2>2, RoomHas DEF m
<1>5. f[m + 1] = f[(m + 1) - 1] + more[m + 1].width
  BY <1>1, <1>3
<1>6. (m + 1) - 1 = m
  BY <1>1
<1>7. Room(more) = Room(members) + member.width
  BY <1>2, <1>3, <1>4, <1>5, <1>6
<1>8. Widened(more, T)
  BY <1>1, <1>2 DEF Widened
<1> QED
  BY <1>7, <1>8 DEF more

\* A block with nothing in it takes nothing.
LEMMA RoomNone ==
    ASSUME NEW T, \A member \in T : member.width \in Nat
    PROVE  Widened(<<>>, T) /\ Room(<<>>) = 0
<1>1. Widened(<<>>, T) /\ Len(<<>>) = 0
  BY EmptyHas DEF Widened
<1>2. <<>> \in Seq(T)
  BY EmptyHas
<1>3. PICK f \in [0 .. Len(<<>>) -> Nat] : f[0] = 0 /\ Room(<<>>) = f[Len(<<>>)]
  BY <1>2, RoomLoop DEF RoomRun
<1> QED
  BY <1>1, <1>3

\* The graphs of gs with the numbers S, once each, in some order.
Selects(new, gs, S) ==
    \E m \in Nat : \E o :
        /\ DOMAIN new = 1 .. m /\ Len(new) = m
        /\ \A k \in 1 .. m : o[k] \in S /\ new[k] = gs[o[k]]
        /\ \A k, l \in 1 .. m : o[k] = o[l] => k = l
        /\ \A s \in S : \E k \in 1 .. m : s = o[k]

\* They share no states if those of gs do not, and cover what they did in gs.
LEMMA SelectsHas ==
    ASSUME NEW n, NEW gs, Disjoint(gs, n), NEW S, S \subseteq DOMAIN gs, NEW new, Selects(new, gs, S)
    PROVE  /\ Disjoint(new, n) /\ \A k \in DOMAIN new : \E l \in S : new[k] = gs[l]
           /\ Covers(new) = UNION { Originals(gs[k]) : k \in S }
<1>1. PICK m \in Nat : \E o :
        /\ DOMAIN new = 1 .. m /\ Len(new) = m
        /\ \A k \in 1 .. m : o[k] \in S /\ new[k] = gs[o[k]]
        /\ \A k, l \in 1 .. m : o[k] = o[l] => k = l
        /\ \A s \in S : \E k \in 1 .. m : s = o[k]
  BY DEF Selects
<1>2. PICK o :
        /\ DOMAIN new = 1 .. m /\ Len(new) = m
        /\ \A k \in 1 .. m : o[k] \in S /\ new[k] = gs[o[k]]
        /\ \A k, l \in 1 .. m : o[k] = o[l] => k = l
        /\ \A s \in S : \E k \in 1 .. m : s = o[k]
  BY <1>1
<1>3. /\ \A k \in DOMAIN gs : Faithful(gs[k], n) /\ PrefixFree(gs[k]) /\ Originals(gs[k]) # {}
      /\ \A k, l \in DOMAIN gs : k # l => Originals(gs[k]) \cap Originals(gs[l]) = {}
  BY DEF Disjoint
<1>4. ASSUME NEW k \in DOMAIN new, NEW l \in DOMAIN new, k # l
      PROVE  Originals(new[k]) \cap Originals(new[l]) = {}
  <2>1. o[k] \in DOMAIN gs /\ o[l] \in DOMAIN gs /\ o[k] # o[l]
    BY <1>2, <1>4
  <2> QED
    BY <1>2, <1>3, <2>1
<1>5. \A k \in DOMAIN new : \E l \in S : new[k] = gs[l]
  BY <1>2
<1>6. \A k \in DOMAIN new : Faithful(new[k], n) /\ PrefixFree(new[k]) /\ Originals(new[k]) # {}
  BY <1>3, <1>5
<1>7. Covers(new) = UNION { Originals(gs[k]) : k \in S }
  <2>1. \A k \in DOMAIN new : \E l \in S : Originals(new[k]) = Originals(gs[l])
    BY <1>5
  <2>2. \A s \in S : \E k \in DOMAIN new : Originals(new[k]) = Originals(gs[s])
    BY <1>2
  <2> QED
    BY <2>1, <2>2 DEF Covers
<1> QED
  BY <1>2, <1>4, <1>5, <1>6, <1>7 DEF Disjoint

\* Numbers of those that are small enough.
SmallOnes(gs) == { k \in DOMAIN gs : SmallEnough(gs[k]) }

\* The loop over max_cc_size_limit leaves those.
LEMMA SmallSelects ==
    ASSUME NEW n, NEW gs, Disjoint(gs, n)
    PROVE  Selects(Small(gs), gs, SmallOnes(gs))
<1> DEFINE S == SmallOnes(gs)
           places == Ascending(S)
           m == Len(places)
           new == Small(gs)
<1>1. S \subseteq Nat /\ IsFiniteSet(S)
  <2>1. PICK m2 \in Nat : DOMAIN gs = 1 .. m2
    BY DEF Disjoint
  <2>2. IsFiniteSet(DOMAIN gs) /\ DOMAIN gs \subseteq Nat
    <3>1. 1 \in Int /\ m2 \in Int
      OBVIOUS
    <3> QED
      BY <2>1, <3>1, FS_Interval
  <2>3. S \subseteq DOMAIN gs
    BY DEF SmallOnes
  <2> QED
    BY <2>2, <2>3, FS_Subset
<1>2. new = [k \in DOMAIN places |-> gs[places[k]]]
  BY DEF Small, SmallOnes
<1> HIDE DEF S
<1>3. Enumerates(places, S)
  BY <1>1, AscendingHas
<1>4. /\ m \in Nat /\ DOMAIN places = 1 .. m /\ \A k \in 1 .. m : places[k] \in S
      /\ \A s \in S : \E k \in 1 .. m : s = places[k]
  BY <1>3, ListHas DEF Enumerates
<1> HIDE DEF places, m, new
<1>5. DOMAIN new = 1 .. m /\ Len(new) = m
  <2>1. Places(new, m, Range(new)) /\ DOMAIN new = 1 .. m
    BY <1>2, <1>4 DEF Places, Range
  <2> QED
    BY <2>1, PlacesHave
<1>6. \A k \in 1 .. m : places[k] \in S /\ new[k] = gs[places[k]]
  BY <1>2, <1>4
<1>7. \A k, l \in 1 .. m : places[k] = places[l] => k = l
  BY <1>3, <1>4 DEF Enumerates, IsInjective
<1> QED
  BY <1>4, <1>5, <1>6, <1>7 DEF Selects, S, new

\* An order in which they are packed.
LEMMA OrderSelects ==
    ASSUME NEW n, NEW gs, Disjoint(gs, n), NEW new \in PackingOrders(gs)
    PROVE  Selects(new, gs, DOMAIN gs)
<1>1. PICK o \in Bijection(DOMAIN gs, DOMAIN gs) : new = [k \in DOMAIN gs |-> gs[o[k]]]
  BY DEF PackingOrders
<1>2. PICK m \in Nat : DOMAIN gs = 1 .. m
  BY DEF Disjoint
<1>3. /\ o \in [1 .. m -> 1 .. m] /\ \A k, l \in 1 .. m : o[k] = o[l] => k = l
      /\ \A s \in 1 .. m : \E k \in 1 .. m : o[k] = s
  BY <1>1, <1>2 DEF Bijection, Injection, Surjection, IsInjective
<1>4. new = [k \in 1 .. m |-> gs[o[k]]]
  BY <1>1, <1>2
<1>5. DOMAIN new = 1 .. m /\ Len(new) = m
  <2>1. Places(new, m, Range(new)) /\ DOMAIN new = 1 .. m
    BY <1>4 DEF Places, Range
  <2> QED
    BY <2>1, PlacesHave
<1>6. \A k \in 1 .. m : o[k] \in 1 .. m /\ new[k] = gs[o[k]]
  BY <1>3, <1>4
<1>7. \A s \in 1 .. m : \E k \in 1 .. m : s = o[k]
  BY <1>3
<1>8. Selects(new, gs, 1 .. m)
  <2>1. \A k, l \in 1 .. m : o[k] = o[l] => k = l
    BY <1>3
  <2>2. \E q : /\ DOMAIN new = 1 .. m /\ Len(new) = m
               /\ \A k \in 1 .. m : q[k] \in 1 .. m /\ new[k] = gs[q[k]]
               /\ \A k, l \in 1 .. m : q[k] = q[l] => k = l
               /\ \A s \in 1 .. m : \E k \in 1 .. m : s = q[k]
    BY <1>5, <1>6, <1>7, <2>1
  <2> QED
    BY <2>2 DEF Selects
<1> QED
  BY <1>2, <1>8

\* What groups are made of, where in the groups gss there is a component, and which.
Members == [nfa : Graph, width : Nat]
Spots(gss) == UNION { {k} \X DOMAIN gss[k] : k \in DOMAIN gss }
PackedAt(gss, p) == gss[p[1]][p[2]].nfa

\* The first m components of cs are in the groups, each once, and nothing else is.
Packs(gss, cs, m) ==
    /\ gss \in Seq(Seq(Members))
    /\ \A k \in 1 .. m : \E p \in Spots(gss) : PackedAt(gss, p) = cs[k]
    /\ \A p \in Spots(gss) : \E k \in 1 .. m : PackedAt(gss, p) = cs[k]
    /\ \A p, q \in Spots(gss) : PackedAt(gss, p) = PackedAt(gss, q) => p = q

\* The components that are packed.
ToPack(cs, n) == Disjoint(cs, n) /\ \A k \in DOMAIN cs : Big(cs[k]) = {}

\* Spots are the places in the groups.
LEMMA SpotsHave ==
    \A gss, k, b : <<k, b>> \in Spots(gss) <=> k \in DOMAIN gss /\ b \in DOMAIN gss[k]
  BY DEF Spots

\* And nothing else.
LEMMA SpotIsPair ==
    \A gss : \A p \in Spots(gss) : p = <<p[1], p[2]>> /\ p[1] \in DOMAIN gss /\ p[2] \in DOMAIN gss[p[1]]
  BY DEF Spots

\* The graphs of group k, and that they share no states.
GroupOf(gs, gss, k) == gs = [b \in DOMAIN gss[k] |-> gss[k][b].nfa]
GroupsApart(gs, g, n) ==
    /\ Apart(gs, n) /\ Len(gs) = Len(g) /\ g \in Seq(Members)
    /\ \A b \in 1 .. Len(gs) : Big(gs[b]) = {} /\ gs[b].V \in Nat

\* Components of one group are different ones, so they share no states.
LEMMA GroupApart ==
    ASSUME NEW n, NEW cs, ToPack(cs, n), NEW m, 1 .. m \subseteq DOMAIN cs,
           NEW gss, Packs(gss, cs, m), NEW k \in DOMAIN gss, NEW gs, GroupOf(gs, gss, k)
    PROVE  GroupsApart(gs, gss[k], n)
<1> DEFINE g == gss[k]
           l == Len(g)
<1>1. g \in Seq(Members)
  <2>1. gss \in Seq(Seq(Members))
    BY DEF Packs
  <2>2. DOMAIN gss = 1 .. Len(gss) /\ \A j \in 1 .. Len(gss) : gss[j] \in Seq(Members)
    BY <2>1, ListHas
  <2> QED
    BY <2>2
<1>2. l \in Nat /\ DOMAIN g = 1 .. l /\ \A b \in 1 .. l : g[b] \in Members
  BY <1>1, ListHas
<1>3. gs = [b \in 1 .. l |-> g[b].nfa]
  BY <1>2 DEF GroupOf
<1>4. \A b \in 1 .. l : <<k, b>> \in Spots(gss) /\ PackedAt(gss, <<k, b>>) = gs[b]
  BY <1>2, <1>3, SpotsHave DEF PackedAt
<1> HIDE DEF g, l
<1>5. DOMAIN gs = 1 .. l /\ Len(gs) = l /\ gs \in Seq(Range(gs))
  <2>1. Places(gs, l, Range(gs)) /\ DOMAIN gs = 1 .. l
    BY <1>2, <1>3 DEF Places, Range
  <2> QED
    BY <2>1, PlacesHave
<1>6. \A b \in 1 .. l : \E j \in DOMAIN cs : gs[b] = cs[j]
  <2>1. \A p \in Spots(gss) : \E j \in 1 .. m : PackedAt(gss, p) = cs[j]
    BY DEF Packs
  <2> QED
    BY <1>4, <2>1
<1>7. \A j \in DOMAIN cs : Faithful(cs[j], n) /\ Big(cs[j]) = {}
  BY DEF ToPack, Disjoint
<1>8. ASSUME NEW b \in 1 .. l, NEW c \in 1 .. l, b # c
      PROVE  Originals(gs[b]) \cap Originals(gs[c]) = {}
  <2>1. gs[b] # gs[c]
    <3>1. \A p, q \in Spots(gss) : PackedAt(gss, p) = PackedAt(gss, q) => p = q
      BY DEF Packs
    <3> DEFINE p == <<k, b>>
               q == <<k, c>>
    <3>2. p # q
      BY <1>8
    <3>3. p \in Spots(gss) /\ q \in Spots(gss) /\ PackedAt(gss, p) = gs[b] /\ PackedAt(gss, q) = gs[c]
      BY <1>4
    <3> HIDE DEF p, q
    <3> QED
      BY <3>1, <3>2, <3>3
  <2>2. PICK i \in DOMAIN cs : gs[b] = cs[i]
    BY <1>6
  <2>3. PICK j \in DOMAIN cs : gs[c] = cs[j]
    BY <1>6
  <2>4. i # j
    BY <2>1, <2>2, <2>3
  <2> QED
    BY <2>2, <2>3, <2>4 DEF ToPack, Disjoint
<1>9. \A b \in 1 .. l : Faithful(gs[b], n) /\ Big(gs[b]) = {} /\ gs[b].V \in Nat
  <2> TAKE b \in 1 .. l
  <2>1. Faithful(gs[b], n) /\ Big(gs[b]) = {}
    BY <1>6, <1>7
  <2>2. gs[b] \in Graph
    BY <2>1 DEF Faithful, Listed
  <2> QED
    BY <2>1, <2>2, GraphHas
<1>10. Apart(gs, n)
  BY <1>5, <1>8, <1>9 DEF Apart
<1> QED
  BY <1>1, <1>5, <1>9, <1>10 DEF GroupsApart, g, l

\* The network merged from group k.
GroupMerged(gss, k, n) ==
    /\ Faithful(Merged(gss[k]), n) /\ Big(Merged(gss[k])) = {}
    /\ Originals(Merged(gss[k])) = UNION { Originals(PackedAt(gss, <<k, b>>)) : b \in DOMAIN gss[k] }
    /\ (\A b \in DOMAIN gss[k] : gss[k][b].width = gss[k][b].nfa.V) => Merged(gss[k]).V = Room(gss[k])

\* merge_nfas_by_group makes such a network of every group.
LEMMA NetworkHas ==
    ASSUME NEW n, NEW cs, ToPack(cs, n), NEW m, 1 .. m \subseteq DOMAIN cs,
           NEW gss, Packs(gss, cs, m), NEW k \in DOMAIN gss
    PROVE  GroupMerged(gss, k, n)
<1> DEFINE g == gss[k]
           gs == [b \in DOMAIN g |-> g[b].nfa]
           net == merge_nfas(gs)
           l == Len(gs)
<1>1. Merged(g) = net
  BY DEF Merged
<1>2. DOMAIN gs = DOMAIN g /\ \A b \in DOMAIN g : gs[b] = g[b].nfa
  OBVIOUS
<1>3. GroupOf(gs, gss, k)
  BY DEF GroupOf
<1> HIDE DEF gs
<1>4. /\ Apart(gs, n) /\ l = Len(g) /\ g \in Seq(Members)
      /\ \A b \in 1 .. l : Big(gs[b]) = {} /\ gs[b].V \in Nat
  BY <1>3, GroupApart DEF GroupsApart
<1>5. l \in Nat /\ DOMAIN g = 1 .. l /\ \A b \in 1 .. l : g[b] \in Members
  BY <1>4, ListHas
<1> HIDE DEF g
<1>6. PICK sum : Sizes(sum, gs)
  <2> DEFINE T == [width : Nat]
             ws == [b \in 1 .. l |-> [width |-> gs[b].V]]
  <2>1. Places(ws, l, T)
    BY <1>4, <1>5 DEF Places
  <2>2. \A b \in 1 .. l : ws[b].width = gs[b].V
    OBVIOUS
  <2>3. \A w \in T : w.width \in Nat
    OBVIOUS
  <2> HIDE DEF ws, T
  <2>4. ws \in Seq(T) /\ Len(ws) = l
    BY <2>1, PlacesHave
  <2>5. PICK f \in [0 .. Len(ws) -> Nat] :
          f[0] = 0 /\ \A b \in 1 .. Len(ws) : f[b] = f[b - 1] + ws[b].width
    BY <2>3, <2>4, RoomLoop DEF RoomRun
  <2> QED
    BY <2>2, <2>4, <2>5 DEF Sizes
<1>7. HasMerged(net, gs, l, sum)
  BY <1>4, <1>6, MergeMakes
<1>8. Faithful(net, n) /\ Big(net) = {} /\ Originals(net) = UNION { Originals(gs[b]) : b \in 1 .. l }
  BY <1>4, <1>7, MergedHas
<1>9. Originals(net) = UNION { Originals(PackedAt(gss, <<k, b>>)) : b \in DOMAIN g }
  <2>1. \A b \in 1 .. l : gs[b] = PackedAt(gss, <<k, b>>)
    BY <1>2, <1>5 DEF PackedAt, g
  <2> QED
    BY <1>5, <1>8, <2>1
<1>10. ASSUME \A b \in DOMAIN g : g[b].width = g[b].nfa.V PROVE net.V = Room(g)
  <2>1. net.V = sum[l]
    BY <1>7 DEF HasMerged
  <2>2. \A b \in 1 .. l : gs[b].V = g[b].width
    BY <1>2, <1>5, <1>10
  <2>3. sum[0] = 0 /\ \A b \in 1 .. Len(g) : sum[b] = sum[b - 1] + g[b].width
    BY <1>4, <1>6, <2>2 DEF Sizes
  <2>4. Widened(g, Members)
    BY <1>4 DEF Widened, Members
  <2>5. sum[Len(g)] = Room(g)
    BY <2>3, <2>4, RoomHas
  <2> QED
    BY <1>4, <2>1, <2>5
<1> HIDE DEF net
<1> QED
  BY <1>1, <1>8, <1>9, <1>10 DEF GroupMerged, g

\* The groups new are gss with component x at q.
MoreSpots(new, gss, q, x) ==
    /\ gss \in Seq(Seq(Members)) /\ new \in Seq(Seq(Members))
    /\ \A p : p \in Spots(new) <=> p \in Spots(gss) \/ p = q
    /\ q \notin Spots(gss)
    /\ \A p \in Spots(gss) : PackedAt(new, p) = PackedAt(gss, p)
    /\ PackedAt(new, q) = x

\* A component that joins the group being filled.
LEMMA JoinSpots ==
    ASSUME NEW gss \in Seq(Seq(Members)), NEW g \in Seq(Members), NEW member \in Members
    PROVE  MoreSpots(Append(gss, Append(g, member)), Append(gss, g), <<Len(gss) + 1, Len(g) + 1>>, member.nfa)
<1> DEFINE l == Len(gss)
           m == Len(g)
           more == Append(g, member)
           old == Append(gss, g)
           new == Append(gss, more)
           q == <<l + 1, m + 1>>
<1>1. /\ l \in Nat /\ m \in Nat /\ DOMAIN g = 1 .. m /\ DOMAIN gss = 1 .. l
      /\ \A k \in 1 .. l : gss[k] \in Seq(Members)
  BY ListHas
<1>2. /\ more \in Seq(Members) /\ Len(more) = m + 1 /\ more[m + 1] = member
      /\ \A b \in 1 .. m : more[b] = g[b]
  OBVIOUS
<1>3. DOMAIN more = 1 .. m + 1
  BY <1>2, LenProperties
<1> HIDE DEF more
<1>4. /\ old \in Seq(Seq(Members)) /\ Len(old) = l + 1 /\ old[l + 1] = g
      /\ \A k \in 1 .. l : old[k] = gss[k]
  OBVIOUS
<1>5. /\ new \in Seq(Seq(Members)) /\ Len(new) = l + 1 /\ new[l + 1] = more
      /\ \A k \in 1 .. l : new[k] = gss[k]
  BY <1>2
<1>6. DOMAIN old = 1 .. l + 1 /\ DOMAIN new = 1 .. l + 1
  BY <1>4, <1>5, LenProperties
<1> HIDE DEF old, new, l, m
<1>7. \A k : k \in 1 .. l + 1 <=> k \in 1 .. l \/ k = l + 1
  BY <1>1
<1>8. \A b : b \in 1 .. m + 1 <=> b \in 1 .. m \/ b = m + 1
  BY <1>1
<1>9. \A k, b : <<k, b>> \in Spots(new) <=> <<k, b>> \in Spots(old) \/ <<k, b>> = q
  <2> SUFFICES ASSUME NEW k, NEW b
               PROVE  <<k, b>> \in Spots(new) <=> <<k, b>> \in Spots(old) \/ <<k, b>> = q
    OBVIOUS
  <2>1. <<k, b>> \in Spots(new) <=> k \in 1 .. l + 1 /\ b \in DOMAIN new[k]
    BY <1>6, SpotsHave
  <2>2. <<k, b>> \in Spots(old) <=> k \in 1 .. l + 1 /\ b \in DOMAIN old[k]
    BY <1>6, SpotsHave
  <2>3. <<k, b>> = q <=> k = l + 1 /\ b = m + 1
    OBVIOUS
  <2>4. CASE k = l + 1
    BY <1>1, <1>3, <1>4, <1>5, <1>7, <1>8, <2>1, <2>2, <2>3, <2>4
  <2>5. CASE k # l + 1
    <3>1. k \in 1 .. l + 1 => new[k] = old[k]
      BY <1>4, <1>5, <1>7, <2>5
    <3> QED
      BY <2>1, <2>2, <2>3, <2>5, <3>1
  <2> QED
    BY <2>4, <2>5
<1>10. \A p : p \in Spots(new) <=> p \in Spots(old) \/ p = q
  <2>1. \A p \in Spots(new) : p = <<p[1], p[2]>>
    BY SpotIsPair
  <2>2. \A p \in Spots(old) : p = <<p[1], p[2]>>
    BY SpotIsPair
  <2> QED
    BY <1>9, <2>1, <2>2
<1>11. q \notin Spots(old)
  <2>1. q \in Spots(old) => m + 1 \in DOMAIN old[l + 1]
    BY SpotsHave
  <2>2. m + 1 \notin 1 .. m
    BY <1>1
  <2> QED
    BY <1>1, <1>4, <2>1, <2>2
<1>12. ASSUME NEW p \in Spots(old) PROVE PackedAt(new, p) = PackedAt(old, p)
  <2> DEFINE k == p[1]
             b == p[2]
  <2>1. k \in 1 .. l + 1 /\ b \in DOMAIN old[k]
    BY <1>6, <1>12, SpotIsPair
  <2>2. PackedAt(new, p) = new[k][b].nfa /\ PackedAt(old, p) = old[k][b].nfa
    BY DEF PackedAt
  <2> HIDE DEF k, b
  <2>3. CASE k = l + 1
    <3>1. b \in 1 .. m
      BY <1>1, <1>4, <2>1, <2>3
    <3>2. new[k][b] = more[b] /\ old[k][b] = g[b] /\ more[b] = g[b]
      BY <1>2, <1>4, <1>5, <2>3, <3>1
    <3> QED
      BY <2>2, <3>2
  <2>4. CASE k # l + 1
    <3>1. new[k] = old[k]
      BY <1>4, <1>5, <1>7, <2>1, <2>4
    <3> QED
      BY <2>2, <3>1
  <2> QED
    BY <2>3, <2>4
<1>13. PackedAt(new, q) = member.nfa
  <2>1. q[1] = l + 1 /\ q[2] = m + 1
    OBVIOUS
  <2>2. PackedAt(new, q) = new[q[1]][q[2]].nfa
    BY DEF PackedAt
  <2> HIDE DEF q
  <2> QED
    BY <1>2, <1>5, <2>1, <2>2
<1> HIDE DEF q
<1>14. MoreSpots(new, old, q, member.nfa)
  BY <1>4, <1>5, <1>10, <1>11, <1>12, <1>13 DEF MoreSpots
<1> QED
  BY <1>14 DEF new, old, q, l, m, more

\* One that starts a group.
LEMMA OpenSpots ==
    ASSUME NEW gss \in Seq(Seq(Members)), NEW member \in Members
    PROVE  MoreSpots(Append(gss, <<member>>), gss, <<Len(gss) + 1, 1>>, member.nfa)
<1> DEFINE l == Len(gss)
           one == <<member>>
           new == Append(gss, one)
           q == <<l + 1, 1>>
<1>1. l \in Nat /\ DOMAIN gss = 1 .. l /\ \A k \in 1 .. l : gss[k] \in Seq(Members)
  BY ListHas
<1>2. one \in Seq(Members) /\ DOMAIN one = 1 .. 1 /\ one[1] = member
  <2>1. one \in Seq(Members) /\ Len(one) = 1 /\ one[1] = member
    OBVIOUS
  <2> QED
    BY <2>1, LenProperties
<1> HIDE DEF one
<1>3. /\ new \in Seq(Seq(Members)) /\ Len(new) = l + 1 /\ new[l + 1] = one
      /\ \A k \in 1 .. l : new[k] = gss[k]
  BY <1>2
<1>4. DOMAIN new = 1 .. l + 1
  BY <1>3, LenProperties
<1> HIDE DEF new, l
<1>5. \A k : k \in 1 .. l + 1 <=> k \in 1 .. l \/ k = l + 1
  BY <1>1
<1>6. \A k, b : <<k, b>> \in Spots(new) <=> <<k, b>> \in Spots(gss) \/ <<k, b>> = q
  <2> SUFFICES ASSUME NEW k, NEW b
               PROVE  <<k, b>> \in Spots(new) <=> <<k, b>> \in Spots(gss) \/ <<k, b>> = q
    OBVIOUS
  <2>1. <<k, b>> \in Spots(new) <=> k \in 1 .. l + 1 /\ b \in DOMAIN new[k]
    BY <1>4, SpotsHave
  <2>2. <<k, b>> \in Spots(gss) <=> k \in 1 .. l /\ b \in DOMAIN gss[k]
    BY <1>1, SpotsHave
  <2>3. <<k, b>> = q <=> k = l + 1 /\ b = 1
    OBVIOUS
  <2>4. CASE k = l + 1
    <3>1. k \notin 1 .. l /\ \A c : c \in 1 .. 1 <=> c = 1
      BY <1>1, <2>4
    <3> QED
      BY <1>2, <1>3, <1>5, <2>1, <2>2, <2>3, <2>4, <3>1
  <2>5. CASE k # l + 1
    BY <1>3, <1>5, <2>1, <2>2, <2>3, <2>5
  <2> QED
    BY <2>4, <2>5
<1>7. \A p : p \in Spots(new) <=> p \in Spots(gss) \/ p = q
  <2>1. \A p \in Spots(new) : p = <<p[1], p[2]>>
    BY SpotIsPair
  <2>2. \A p \in Spots(gss) : p = <<p[1], p[2]>>
    BY SpotIsPair
  <2> QED
    BY <1>6, <2>1, <2>2
<1>8. q \notin Spots(gss)
  <2>1. q \in Spots(gss) => l + 1 \in 1 .. l
    BY <1>1, SpotsHave
  <2> QED
    BY <1>1, <2>1
<1>9. ASSUME NEW p \in Spots(gss) PROVE PackedAt(new, p) = PackedAt(gss, p)
  <2>1. p[1] \in 1 .. l
    BY <1>1, <1>9, SpotIsPair
  <2> QED
    BY <1>3, <2>1 DEF PackedAt
<1>10. PackedAt(new, q) = member.nfa
  <2>1. q[1] = l + 1 /\ q[2] = 1
    OBVIOUS
  <2>2. PackedAt(new, q) = new[q[1]][q[2]].nfa
    BY DEF PackedAt
  <2> HIDE DEF q
  <2> QED
    BY <1>2, <1>3, <2>1, <2>2
<1> HIDE DEF q
<1>11. MoreSpots(new, gss, q, member.nfa)
  BY <1>3, <1>7, <1>8, <1>9, <1>10 DEF MoreSpots
<1> QED
  BY <1>11 DEF new, q, l, one

\* Either way one component more is packed.
LEMMA PacksMore ==
    ASSUME NEW n, NEW cs, ToPack(cs, n), NEW m \in Nat, m + 1 \in DOMAIN cs,
           NEW gss, Packs(gss, cs, m), NEW new, NEW q, MoreSpots(new, gss, q, cs[m + 1])
    PROVE  Packs(new, cs, m + 1)
<1> DEFINE x == cs[m + 1]
<1>1. /\ \A k \in 1 .. m : \E p \in Spots(gss) : PackedAt(gss, p) = cs[k]
      /\ \A p \in Spots(gss) : \E k \in 1 .. m : PackedAt(gss, p) = cs[k]
      /\ \A p, r \in Spots(gss) : PackedAt(gss, p) = PackedAt(gss, r) => p = r
  BY DEF Packs
<1>2. /\ \A p : p \in Spots(new) <=> p \in Spots(gss) \/ p = q
      /\ \A p \in Spots(gss) : PackedAt(new, p) = PackedAt(gss, p)
      /\ PackedAt(new, q) = x /\ new \in Seq(Seq(Members))
  BY DEF MoreSpots
<1>3. \A k \in 1 .. m : cs[k] # x
  <2> TAKE k \in 1 .. m
  <2>1. k \in DOMAIN cs /\ k # m + 1
    <3>1. PICK l \in Nat : DOMAIN cs = 1 .. l
      BY DEF ToPack, Disjoint
    <3> QED
      BY <3>1
  <2>2. Originals(cs[k]) \cap Originals(x) = {} /\ Originals(x) # {}
    BY <2>1 DEF ToPack, Disjoint
  <2> QED
    BY <2>2
<1> HIDE DEF x
<1>4. \A k : k \in 1 .. m + 1 <=> k \in 1 .. m \/ k = m + 1
  OBVIOUS
<1>5. ASSUME NEW k \in 1 .. m + 1 PROVE \E p \in Spots(new) : PackedAt(new, p) = cs[k]
  <2>1. CASE k \in 1 .. m
    BY <1>1, <1>2, <2>1
  <2>2. CASE k = m + 1
    BY <1>2, <2>2 DEF x
  <2> QED
    BY <1>4, <2>1, <2>2
<1>6. ASSUME NEW p \in Spots(new) PROVE \E k \in 1 .. m + 1 : PackedAt(new, p) = cs[k]
  <2>1. CASE p \in Spots(gss)
    BY <1>1, <1>2, <1>4, <2>1
  <2>2. CASE p = q
    BY <1>2, <1>4, <2>2 DEF x
  <2> QED
    BY <1>2, <2>1, <2>2
<1>7. ASSUME NEW p \in Spots(new), NEW r \in Spots(new), PackedAt(new, p) = PackedAt(new, r) PROVE p = r
  <2>1. \A s \in Spots(gss) : PackedAt(new, s) # x
    BY <1>1, <1>2, <1>3
  <2>2. CASE p \in Spots(gss) /\ r \in Spots(gss)
    BY <1>1, <1>2, <1>7, <2>2
  <2>3. CASE p = q \/ r = q
    BY <1>2, <1>7, <2>1, <2>3
  <2> QED
    BY <1>2, <2>2, <2>3
<1> QED
  BY <1>2, <1>5, <1>6, <1>7 DEF Packs

\* An empty group at the end packs nothing.
LEMMA EmptySpots ==
    ASSUME NEW gss \in Seq(Seq(Members)), NEW cs, NEW m, Packs(Append(gss, <<>>), cs, m)
    PROVE  Packs(gss, cs, m)
<1> DEFINE l == Len(gss)
           none == <<>>
           old == Append(gss, none)
<1>1. l \in Nat /\ DOMAIN gss = 1 .. l
  BY ListHas
<1>2. none \in Seq(Members) /\ DOMAIN none = {}
  BY EmptyHas
<1> HIDE DEF none
<1>3. Len(old) = l + 1 /\ old[l + 1] = none /\ (\A k \in 1 .. l : old[k] = gss[k]) /\ old \in Seq(Seq(Members))
  BY <1>2
<1>4. DOMAIN old = 1 .. l + 1
  BY <1>3, LenProperties
<1>5. Packs(old, cs, m)
  BY DEF none
<1> HIDE DEF old, l
<1>6. \A k : k \in 1 .. l + 1 <=> k \in 1 .. l \/ k = l + 1
  BY <1>1
<1>7. \A k, b : <<k, b>> \in Spots(old) <=> <<k, b>> \in Spots(gss)
  <2> SUFFICES ASSUME NEW k, NEW b PROVE <<k, b>> \in Spots(old) <=> <<k, b>> \in Spots(gss)
    OBVIOUS
  <2>1. <<k, b>> \in Spots(old) <=> k \in 1 .. l + 1 /\ b \in DOMAIN old[k]
    BY <1>4, SpotsHave
  <2>2. <<k, b>> \in Spots(gss) <=> k \in 1 .. l /\ b \in DOMAIN gss[k]
    BY <1>1, SpotsHave
  <2>3. CASE k = l + 1
    <3>1. k \notin 1 .. l
      BY <1>1, <2>3
    <3> QED
      BY <1>2, <1>3, <2>1, <2>2, <2>3, <3>1
  <2>4. CASE k # l + 1
    BY <1>3, <1>6, <2>1, <2>2, <2>4
  <2> QED
    BY <2>3, <2>4
<1>8. \A p : p \in Spots(old) <=> p \in Spots(gss)
  <2>1. \A p \in Spots(old) : p = <<p[1], p[2]>>
    BY SpotIsPair
  <2>2. \A p \in Spots(gss) : p = <<p[1], p[2]>>
    BY SpotIsPair
  <2> QED
    BY <1>7, <2>1, <2>2
<1>9. ASSUME NEW p \in Spots(gss) PROVE PackedAt(old, p) = PackedAt(gss, p)
  <2>1. p[1] \in 1 .. l
    BY <1>1, <1>9, SpotIsPair
  <2> QED
    BY <1>3, <2>1 DEF PackedAt
<1>10. /\ \A k \in 1 .. m : \E p \in Spots(old) : PackedAt(old, p) = cs[k]
       /\ \A p \in Spots(old) : \E k \in 1 .. m : PackedAt(old, p) = cs[k]
       /\ \A p, q \in Spots(old) : PackedAt(old, p) = PackedAt(old, q) => p = q
  BY <1>5 DEF Packs
<1>11. \A k \in 1 .. m : \E p \in Spots(gss) : PackedAt(gss, p) = cs[k]
  BY <1>8, <1>9, <1>10
<1>12. \A p \in Spots(gss) : \E k \in 1 .. m : PackedAt(gss, p) = cs[k]
  BY <1>8, <1>9, <1>10
<1>13. \A p, q \in Spots(gss) : PackedAt(gss, p) = PackedAt(gss, q) => p = q
  BY <1>8, <1>9, <1>10
<1> QED
  BY <1>11, <1>12, <1>13 DEF Packs

\* Group g is in its block: what a component takes is its size, and the size of the
\* network is checked later, or the group has room.
FitsIn(g) ==
    /\ job.packing = "size" => \A b \in DOMAIN g : g[b].width = g[b].nfa.V
    /\ job.packing # "size" => Room(g) <= job.capacity
Fits(gss) == \A k \in DOMAIN gss : FitsIn(gss[k])

\* Closing a group adds it to those that fit.
LEMMA FitsBoth ==
    ASSUME NEW gss \in Seq(Seq(Members)), NEW g \in Seq(Members)
    PROVE  Fits(Append(gss, g)) <=> Fits(gss) /\ FitsIn(g)
<1> DEFINE l == Len(gss)
           new == Append(gss, g)
<1>1. l \in Nat /\ DOMAIN gss = 1 .. l
  BY ListHas
<1>2. Len(new) = l + 1 /\ new[l + 1] = g /\ (\A k \in 1 .. l : new[k] = gss[k]) /\ new \in Seq(Seq(Members))
  OBVIOUS
<1>3. DOMAIN new = 1 .. l + 1
  BY <1>2, LenProperties
<1> HIDE DEF new, l
<1>4. \A k : k \in 1 .. l + 1 <=> k \in 1 .. l \/ k = l + 1
  BY <1>1
<1>5. Fits(new) <=> Fits(gss) /\ FitsIn(g)
  BY <1>1, <1>2, <1>3, <1>4 DEF Fits
<1> QED
  BY <1>5 DEF new

\* What component member may be packed with.
MayPack(member) ==
    /\ member \in Members
    /\ job.packing = "size" => member.width = member.nfa.V
    /\ job.packing # "size" => member.width <= job.capacity

\* With no member.
LEMMA NoneFits ==
    ASSUME JobOK
    PROVE  FitsIn(<<>>)
<1>1. job.capacity \in Nat
  BY JobsAssumption DEF JobOK
<1>2. \A member \in Members : member.width \in Nat
  BY DEF Members
<1>3. Room(<<>>) = 0
  BY <1>2, RoomNone
<1>4. DOMAIN <<>> = {}
  BY EmptyHas
<1> QED
  BY <1>1, <1>3, <1>4 DEF FitsIn

\* With one more.
LEMMA JoinFits ==
    ASSUME JobOK, NEW g \in Seq(Members), FitsIn(g), NEW member, MayPack(member),
           Room(g) + member.width <= job.capacity \/ job.packing = "size"
    PROVE  FitsIn(Append(g, member))
<1> DEFINE m == Len(g)
           more == Append(g, member)
<1>1. /\ more \in Seq(Members) /\ Len(more) = m + 1 /\ more[m + 1] = member
      /\ \A b \in 1 .. m : more[b] = g[b]
  BY DEF MayPack
<1>2. m \in Nat /\ DOMAIN g = 1 .. m /\ DOMAIN more = 1 .. m + 1
  BY <1>1, ListHas, LenProperties
<1>3. Widened(g, Members)
  BY DEF Widened, Members
<1>4. Room(more) = Room(g) + member.width
  BY <1>3, RoomMore DEF MayPack
<1> HIDE DEF more, m
<1>5. \A b : b \in 1 .. m + 1 <=> b \in 1 .. m \/ b = m + 1
  BY <1>2
<1>6. ASSUME job.packing = "size", NEW b \in DOMAIN more PROVE more[b].width = more[b].nfa.V
  <2>1. CASE b \in 1 .. m
    BY <1>1, <1>2, <1>6, <2>1 DEF FitsIn
  <2>2. CASE b = m + 1
    BY <1>1, <1>6, <2>2 DEF MayPack
  <2> QED
    BY <1>2, <1>5, <1>6, <2>1, <2>2
<1>7. job.packing # "size" => Room(more) <= job.capacity
  BY <1>4
<1>8. FitsIn(more)
  BY <1>6, <1>7 DEF FitsIn
<1> QED
  BY <1>8 DEF more

\* Alone.
LEMMA AloneFits ==
    ASSUME JobOK, NEW member, MayPack(member)
    PROVE  FitsIn(<<member>>)
<1>1. \A x \in Members : x.width \in Nat
  BY DEF Members
<1>2. Room(<<>>) = 0 /\ <<>> \in Seq(Members)
  BY <1>1, RoomNone, EmptyHas
<1>3. FitsIn(<<>>)
  BY NoneFits
<1>4. member.width \in Nat
  BY <1>1 DEF MayPack
<1>5. Room(<<>>) + member.width <= job.capacity \/ job.packing = "size"
  BY <1>2, <1>4 DEF MayPack
<1>6. FitsIn(Append(<<>>, member))
  BY <1>2, <1>3, <1>5, JoinFits
<1>7. Append(<<>>, member) = <<member>>
  OBVIOUS
<1> QED
  BY <1>6, <1>7

\* The groups that are handed on have the component packed last too.
ClosedGroups(cs, m) ==
    groups \in Seq(Seq(Members)) /\ group \in Seq(Members)
        /\ Packs(Append(groups, group), cs, m) /\ Fits(Append(groups, group))

\* They pack the same components, even if an empty group is not handed on.
LEMMA ClosedHas ==
    ASSUME NEW cs, NEW m, ClosedGroups(cs, m)
    PROVE  Closed \in Seq(Seq(Members)) /\ Packs(Closed, cs, m) /\ Fits(Closed)
<1>1. /\ groups \in Seq(Seq(Members)) /\ group \in Seq(Members)
      /\ Packs(Append(groups, group), cs, m) /\ Fits(Append(groups, group))
  BY DEF ClosedGroups
<1>2. CASE Closed = Append(groups, group)
  <2>1. Closed \in Seq(Seq(Members))
    BY <1>1, <1>2
  <2> QED
    BY <1>1, <1>2, <2>1
<1>3. CASE Closed = groups /\ group = <<>>
  <2>1. Packs(groups, cs, m)
    BY <1>1, <1>3, EmptySpots
  <2>2. Fits(groups)
    BY <1>1, FitsBoth
  <2> QED
    BY <1>1, <1>3, <2>1, <2>2
<1> QED
  BY <1>2, <1>3 DEF Closed

\* Nothing is packed before packing.
LEMMA StartPacks ==
    ASSUME JobOK, NEW cs
    PROVE  Packs(Append(<<>>, <<>>), cs, 0) /\ Fits(Append(<<>>, <<>>))
<1> DEFINE none == <<>>
           new == Append(none, none)
<1>1. none \in Seq(Seq(Members)) /\ none \in Seq(Members) /\ DOMAIN none = {}
  BY EmptyHas
<1>2. FitsIn(none)
  BY NoneFits
<1>3. Fits(none)
  BY <1>1 DEF Fits
<1> HIDE DEF none
<1>4. Fits(new)
  BY <1>1, <1>2, <1>3, FitsBoth
<1>5. \A p : p \notin Spots(none)
  BY <1>1 DEF Spots
<1>6. Packs(none, cs, 0)
  <2>1. \A k : k \notin 1 .. 0
    OBVIOUS
  <2> QED
    BY <1>1, <1>5, <2>1 DEF Packs
<1>7. Len(none) = 0
  BY EmptyHas DEF none
<1>8. /\ new \in Seq(Seq(Members)) /\ Len(new) = 1 /\ new[1] = none
  BY <1>1, <1>7
<1>9. DOMAIN new = 1 .. 1
  BY <1>8, LenProperties
<1> HIDE DEF new
<1>10. \A p : p \notin Spots(new)
  <2> SUFFICES ASSUME NEW p, p \in Spots(new) PROVE FALSE
    OBVIOUS
  <2>1. p[1] \in 1 .. 1 /\ p[2] \in DOMAIN new[p[1]]
    BY <1>9, SpotIsPair
  <2>2. p[1] = 1
    BY <2>1
  <2> QED
    BY <1>1, <1>8, <2>1, <2>2
<1>11. Packs(new, cs, 0)
  <2>1. \A k : k \notin 1 .. 0
    OBVIOUS
  <2> QED
    BY <1>8, <1>10, <2>1 DEF Packs
<1> QED
  BY <1>4, <1>11 DEF new, none

\* The components before number m, and what they cover.
Done(gs, m) == UNION { Originals(gs[k]) : k \in { l \in DOMAIN gs : l < m } }

\* One component more is done, with states of its own.
LEMMA DoneHas ==
    ASSUME NEW n, NEW gs, Disjoint(gs, n)
    PROVE  /\ Done(gs, 1) = {} /\ Done(gs, Len(gs) + 1) = Covers(gs)
           /\ \A m \in DOMAIN gs : /\ Done(gs, m + 1) = Done(gs, m) \cup Originals(gs[m])
                                   /\ Done(gs, m) \cap Originals(gs[m]) = {}
<1>1. PICK l \in Nat : DOMAIN gs = 1 .. l /\ Len(gs) = l
  BY DEF Disjoint
<1>2. Done(gs, 1) = {}
  <2>1. \A k \in DOMAIN gs : ~(k < 1)
    BY <1>1
  <2> QED
    BY <2>1 DEF Done
<1>3. Done(gs, Len(gs) + 1) = Covers(gs)
  <2>1. \A k \in DOMAIN gs : k < Len(gs) + 1
    BY <1>1
  <2>2. { k \in DOMAIN gs : k < Len(gs) + 1 } = DOMAIN gs
    BY <2>1
  <2> QED
    BY <2>2 DEF Done, Covers
<1>4. ASSUME NEW m \in DOMAIN gs
      PROVE  /\ Done(gs, m + 1) = Done(gs, m) \cup Originals(gs[m])
             /\ Done(gs, m) \cap Originals(gs[m]) = {}
  <2>1. \A k \in DOMAIN gs : k < m + 1 <=> k < m \/ k = m
    BY <1>1
  <2>2. { k \in DOMAIN gs : k < m + 1 } = { k \in DOMAIN gs : k < m } \cup {m}
    BY <2>1
  <2>3. Done(gs, m + 1) = Done(gs, m) \cup Originals(gs[m])
    BY <2>2 DEF Done
  <2>4. \A k \in DOMAIN gs : k < m => k # m
    BY <1>1
  <2>5. \A k \in DOMAIN gs : k < m => Originals(gs[k]) \cap Originals(gs[m]) = {}
    BY <2>4 DEF Disjoint
  <2> QED
    BY <2>3, <2>5 DEF Done
<1> QED
  BY <1>2, <1>3, <1>4

\* Graph h takes the place of component m, and keeps it.
Replaced(new, gs, m, h, n) ==
    m \in DOMAIN gs /\ new = [gs EXCEPT ![m] = h] /\ KeepsGraph(h, gs[m], n)

\* The other components, and what all cover, stay as they are.
LEMMA ReplacedHas ==
    ASSUME NEW n, NEW gs, Disjoint(gs, n), NEW m, NEW h, NEW new, Replaced(new, gs, m, h, n)
    PROVE  /\ Disjoint(new, n) /\ Len(new) = Len(gs) /\ Covers(new) = Covers(gs)
           /\ \A k : Done(new, k) = Done(gs, k)
<1>1. PICK l \in Nat : DOMAIN gs = 1 .. l /\ Len(gs) = l
  BY DEF Disjoint
<1>2. /\ m \in DOMAIN gs /\ new = [gs EXCEPT ![m] = h]
      /\ Faithful(h, n) /\ PrefixFree(h) /\ Originals(h) = Originals(gs[m])
  BY DEF Replaced, KeepsGraph
<1>3. DOMAIN new = 1 .. l /\ Len(new) = l
  <2>1. new = [k \in 1 .. l |-> IF k = m THEN h ELSE gs[k]]
    BY <1>1, <1>2
  <2>2. Places(new, l, Range(new)) /\ DOMAIN new = 1 .. l
    BY <2>1 DEF Places, Range
  <2> QED
    BY <2>2, PlacesHave
<1>4. /\ new[m] = h /\ \A k \in DOMAIN gs : k # m => new[k] = gs[k]
  BY <1>2
<1>5. DOMAIN new = DOMAIN gs
  BY <1>1, <1>3
<1>6. /\ \A k \in DOMAIN gs : Faithful(gs[k], n) /\ PrefixFree(gs[k]) /\ Originals(gs[k]) # {}
      /\ \A k, j \in DOMAIN gs : k # j => Originals(gs[k]) \cap Originals(gs[j]) = {}
  BY DEF Disjoint
<1>7. \A k \in DOMAIN gs : Originals(new[k]) = Originals(gs[k])
  BY <1>2, <1>4
<1>8. \A k \in DOMAIN new : Faithful(new[k], n) /\ PrefixFree(new[k]) /\ Originals(new[k]) # {}
  BY <1>2, <1>4, <1>5, <1>6
<1>9. \A k, j \in DOMAIN new : k # j => Originals(new[k]) \cap Originals(new[j]) = {}
  BY <1>5, <1>6, <1>7
<1>10. Disjoint(new, n)
  BY <1>3, <1>8, <1>9 DEF Disjoint
<1>11. Covers(new) = Covers(gs)
  BY <1>5, <1>7 DEF Covers
<1>12. \A k : Done(new, k) = Done(gs, k)
  BY <1>5, <1>7 DEF Done
<1> QED
  BY <1>1, <1>3, <1>10, <1>11, <1>12

\* A component that is kept.
LEMMA KeptMore ==
    ASSUME NEW n, NEW gs \in Seq(Graph), ToPack(gs, n), NEW g,
           Faithful(g, n), PrefixFree(g), Originals(g) # {}, Big(g) = {}, Originals(g) \cap Covers(gs) = {}
    PROVE  /\ Append(gs, g) \in Seq(Graph) /\ ToPack(Append(gs, g), n)
           /\ Covers(Append(gs, g)) = Covers(gs) \cup Originals(g)
<1> DEFINE l == Len(gs)
           new == Append(gs, g)
<1>1. l \in Nat /\ DOMAIN gs = 1 .. l
  BY ListHas
<1>2. g \in Graph
  BY DEF Faithful, Listed
<1>3. new \in Seq(Graph) /\ Len(new) = l + 1 /\ new[l + 1] = g /\ \A k \in 1 .. l : new[k] = gs[k]
  BY <1>2
<1>4. DOMAIN new = 1 .. l + 1
  BY <1>3, LenProperties
<1> HIDE DEF new, l
<1>5. \A k : k \in 1 .. l + 1 <=> k \in 1 .. l \/ k = l + 1
  BY <1>1
<1>6. /\ \A k \in 1 .. l : Faithful(gs[k], n) /\ PrefixFree(gs[k]) /\ Originals(gs[k]) # {} /\ Big(gs[k]) = {}
      /\ \A k, j \in 1 .. l : k # j => Originals(gs[k]) \cap Originals(gs[j]) = {}
      /\ \A k \in 1 .. l : Originals(gs[k]) \cap Originals(g) = {}
  BY <1>1 DEF ToPack, Disjoint, Covers
<1>7. ASSUME NEW k \in 1 .. l + 1
      PROVE  Faithful(new[k], n) /\ PrefixFree(new[k]) /\ Originals(new[k]) # {} /\ Big(new[k]) = {}
  <2>1. CASE k \in 1 .. l
    BY <1>3, <1>6, <2>1
  <2>2. CASE k = l + 1
    BY <1>3, <2>2
  <2> QED
    BY <1>5, <2>1, <2>2
<1>8. ASSUME NEW k \in 1 .. l + 1, NEW j \in 1 .. l + 1, k # j
      PROVE  Originals(new[k]) \cap Originals(new[j]) = {}
  <2>1. CASE k \in 1 .. l /\ j \in 1 .. l
    BY <1>3, <1>6, <1>8, <2>1
  <2>2. CASE k \in 1 .. l /\ j = l + 1
    BY <1>3, <1>6, <2>2
  <2>3. CASE k = l + 1 /\ j \in 1 .. l
    BY <1>3, <1>6, <2>3
  <2> QED
    BY <1>5, <1>8, <2>1, <2>2, <2>3
<1>9. l + 1 \in Nat
  BY <1>1
<1>10. ToPack(new, n)
  BY <1>3, <1>4, <1>7, <1>8, <1>9 DEF ToPack, Disjoint
<1>11. Covers(new) = Covers(gs) \cup Originals(g)
  <2>1. Covers(new) = UNION { Originals(new[k]) : k \in 1 .. l + 1 }
    BY <1>4 DEF Covers
  <2>2. Covers(gs) = UNION { Originals(new[k]) : k \in 1 .. l }
    <3>1. \A k \in 1 .. l : Originals(new[k]) = Originals(gs[k])
      BY <1>3
    <3> QED
      BY <1>1, <3>1 DEF Covers
  <2>3. 1 .. l + 1 = 1 .. l \cup {l + 1}
    BY <1>5
  <2> QED
    BY <1>3, <2>1, <2>2, <2>3
<1> QED
  BY <1>3, <1>10, <1>11 DEF new

\* The sids of the graphs that are too large.
Large(gs) == UNION { Originals(g) : g \in { h \in ToSet(gs) : ~SmallEnough(h) } }

\* What is packed covers all that was kept but those.
LEMMA DropHas ==
    ASSUME NEW n, NEW gs, ToPack(gs, n), NEW new \in PackingOrders(Small(gs))
    PROVE  ToPack(new, n) /\ Covers(new) = Covers(gs) \ Large(gs)
<1> DEFINE small == Small(gs)
           S == SmallOnes(gs)
<1>1. Disjoint(gs, n) /\ \A k \in DOMAIN gs : Big(gs[k]) = {}
  BY DEF ToPack
<1>2. Selects(small, gs, S)
  BY <1>1, SmallSelects
<1>3. S \subseteq DOMAIN gs /\ \A k \in DOMAIN gs : k \in S <=> SmallEnough(gs[k])
  BY DEF SmallOnes
<1> HIDE DEF S, small
<1>4. /\ Disjoint(small, n) /\ \A k \in DOMAIN small : \E l \in S : small[k] = gs[l]
      /\ Covers(small) = UNION { Originals(gs[k]) : k \in S }
  BY <1>1, <1>2, <1>3, SelectsHas
<1>5. Selects(new, small, DOMAIN small)
  BY <1>4, OrderSelects DEF small
<1>6. /\ Disjoint(new, n) /\ \A k \in DOMAIN new : \E l \in DOMAIN small : new[k] = small[l]
      /\ Covers(new) = UNION { Originals(small[k]) : k \in DOMAIN small }
  BY <1>4, <1>5, SelectsHas
<1>7. ToPack(new, n)
  <2>1. \A k \in DOMAIN small : Big(small[k]) = {}
    BY <1>1, <1>3, <1>4
  <2>2. \A k \in DOMAIN new : Big(new[k]) = {}
    BY <1>6, <2>1
  <2> QED
    BY <1>6, <2>2 DEF ToPack
<1>8. Covers(new) = UNION { Originals(gs[k]) : k \in S }
  BY <1>4, <1>6 DEF Covers
<1>9. Large(gs) = UNION { Originals(gs[k]) : k \in DOMAIN gs \ S }
  <2>1. \A x : x \in Large(gs) <=> \E k \in DOMAIN gs : ~SmallEnough(gs[k]) /\ x \in Originals(gs[k])
    BY DEF Large, ToSet
  <2> QED
    BY <1>3, <2>1
<1>10. \A k \in S : \A j \in DOMAIN gs \ S : Originals(gs[k]) \cap Originals(gs[j]) = {}
  <2>1. \A k, j \in DOMAIN gs : k # j => Originals(gs[k]) \cap Originals(gs[j]) = {}
    BY <1>1 DEF Disjoint
  <2> QED
    BY <1>3, <2>1
<1>11. Covers(gs) = UNION { Originals(gs[k]) : k \in DOMAIN gs }
  BY DEF Covers
<1>12. UNION { Originals(gs[k]) : k \in S } = Covers(gs) \ Large(gs)
  BY <1>3, <1>9, <1>10, <1>11
<1> QED
  BY <1>7, <1>8, <1>12

\* The networks nets, merged from the groups gss.
MergedAll(nets, gss, cs, n) ==
    /\ DOMAIN nets = DOMAIN gss
    /\ \A k \in DOMAIN gss : /\ Faithful(nets[k], n) /\ Big(nets[k]) = {} /\ Room(gss[k]) \in Nat
                             /\ job.packing = "size" => nets[k].V = Room(gss[k])
                             /\ job.packing # "size" => Room(gss[k]) <= job.capacity
    /\ Covers(nets) = Covers(cs)
    /\ \A g \in ToSet(cs) : Cardinality({ p \in Spots(gss) : PackedAt(gss, p) = g }) = 1

\* merge_nfas_by_group makes such networks of groups that pack all components.
LEMMA MergeHas ==
    ASSUME NEW n, NEW cs, ToPack(cs, n), NEW gss, Packs(gss, cs, Len(cs)), Fits(gss),
           NEW nets, nets = [k \in DOMAIN gss |-> Merged(gss[k])]
    PROVE  MergedAll(nets, gss, cs, n)
<1>1. PICK m \in Nat : DOMAIN cs = 1 .. m /\ Len(cs) = m
  BY DEF ToPack, Disjoint
<1>2. Packs(gss, cs, m) /\ 1 .. m \subseteq DOMAIN cs
  BY <1>1
<1>3. /\ \A k \in 1 .. m : \E p \in Spots(gss) : PackedAt(gss, p) = cs[k]
      /\ \A p \in Spots(gss) : \E k \in 1 .. m : PackedAt(gss, p) = cs[k]
      /\ \A p, q \in Spots(gss) : PackedAt(gss, p) = PackedAt(gss, q) => p = q
      /\ gss \in Seq(Seq(Members))
  BY <1>2 DEF Packs
<1>4. DOMAIN nets = DOMAIN gss /\ \A k \in DOMAIN gss : nets[k] = Merged(gss[k])
  OBVIOUS
<1>5. \A k \in DOMAIN gss : GroupMerged(gss, k, n)
  BY <1>2, NetworkHas
<1>6. ASSUME NEW k \in DOMAIN gss
      PROVE  /\ Faithful(nets[k], n) /\ Big(nets[k]) = {} /\ Room(gss[k]) \in Nat
             /\ job.packing = "size" => nets[k].V = Room(gss[k])
             /\ job.packing # "size" => Room(gss[k]) <= job.capacity
  <2>1. gss[k] \in Seq(Members)
    BY <1>3, ListHas
  <2>2. Widened(gss[k], Members)
    BY <2>1 DEF Widened, Members
  <2>3. Room(gss[k]) \in Nat
    BY <2>2, RoomHas
  <2>4. FitsIn(gss[k])
    BY DEF Fits
  <2>5. GroupMerged(gss, k, n)
    BY <1>5
  <2> QED
    BY <1>4, <2>3, <2>4, <2>5 DEF GroupMerged, FitsIn
<1>7. Covers(nets) = Covers(cs)
  <2>1. \A k \in DOMAIN gss : Originals(nets[k]) = UNION { Originals(PackedAt(gss, <<k, b>>)) : b \in DOMAIN gss[k] }
    BY <1>4, <1>5 DEF GroupMerged
  <2>2. \A x : x \in Covers(nets) <=> \E k \in DOMAIN gss : x \in Originals(nets[k])
    BY <1>4 DEF Covers
  <2>3. \A x : x \in Covers(nets) <=>
               \E k \in DOMAIN gss : \E b \in DOMAIN gss[k] : x \in Originals(PackedAt(gss, <<k, b>>))
    BY <2>1, <2>2
  <2>4. \A x : x \in Covers(nets) <=> \E p \in Spots(gss) : x \in Originals(PackedAt(gss, p))
    <3>1. \A k, b : <<k, b>> \in Spots(gss) <=> k \in DOMAIN gss /\ b \in DOMAIN gss[k]
      BY SpotsHave
    <3>2. \A p \in Spots(gss) : p = <<p[1], p[2]>> /\ p[1] \in DOMAIN gss /\ p[2] \in DOMAIN gss[p[1]]
      BY SpotIsPair
    <3> QED
      BY <2>3, <3>1, <3>2
  <2>5. \A x : x \in Covers(cs) <=> \E k \in 1 .. m : x \in Originals(cs[k])
    BY <1>1 DEF Covers
  <2>6. \A x : x \in Covers(nets) <=> x \in Covers(cs)
    BY <1>3, <2>4, <2>5
  <2> QED
    BY <2>6
<1>8. ASSUME NEW g \in ToSet(cs)
      PROVE  Cardinality({ p \in Spots(gss) : PackedAt(gss, p) = g }) = 1
  <2>1. PICK k \in 1 .. m : g = cs[k]
    BY <1>1 DEF ToSet
  <2>2. PICK p \in Spots(gss) : PackedAt(gss, p) = g
    BY <1>3, <2>1
  <2>3. { q \in Spots(gss) : PackedAt(gss, q) = g } = {p}
    BY <1>3, <2>2
  <2>4. Cardinality({p}) = 1
    BY FS_Singleton
  <2> QED
    BY <2>3, <2>4
<1> QED
  BY <1>4, <1>6, <1>7, <1>8 DEF MergedAll

-----------------------------------------------------------------------------
(* The invariant: what limiting, packing and merging establish in turn.      *)

Typed ==
    /\ JobOK
    /\ phase \in {"limit", "pack", "ready", "aborted"}
    /\ cc_id \in Nat \ {0} /\ num_iteration \in Nat
    /\ dropped \subseteq Sids(nfa) /\ plain \subseteq Sids(nfa)

\* The components done with are kept or deleted, and nothing is packed.
Limited ==
    /\ kept \in Seq(Graph) /\ ToPack(kept, nfa) /\ Disjoint(ccs, nfa)
    /\ phase = "limit" =>
          /\ cc_id <= Len(ccs) + 1 /\ Covers(ccs) = Sids(nfa)
          /\ Done(ccs, cc_id) = Covers(kept) \cup dropped /\ Covers(kept) \cap dropped = {}
          /\ group = <<>> /\ groups = <<>>

\* Then those before cc_id are in groups.
Packed ==
    /\ phase # "limit" => ToPack(ccs, nfa) /\ Covers(ccs) = Sids(nfa) \ dropped
    /\ phase = "pack" => cc_id <= Len(ccs) + 1 /\ ClosedGroups(ccs, cc_id - 1)

\* In each network the copies of the states enabled in the network read are
\* enabled, and no others.
EnabledAreCopies ==
    /\ DOMAIN enabled = DOMAIN networks
    /\ \A k \in DOMAIN networks : enabled[k] = Copies(Base(networks[k]), plain)

PrepInv ==
    /\ Typed /\ Limited /\ Packed
    /\ EnabledAreCopies /\ \A k \in DOMAIN networks : Faithful(networks[k], nfa)
    /\ FitsBlock /\ PackedOnce

\* The network read is a network.
LEMMA NfaIsNetwork ==
    ASSUME JobOK
    PROVE  /\ ReadOK(nfa) /\ nfa.start \subseteq Sids(nfa) /\ nfa.always \subseteq Sids(nfa)
           /\ \A s \in Sids(nfa) : nfa.original_id[s] = s
<1>1. IsNetwork(nfa, nfa.size, Symbol, Sids(nfa)) /\ nfa.original_id = [s \in Sids(nfa) |-> s]
  BY JobsAssumption DEF JobOK, nfa
<1>2. /\ nfa.size \in 1 .. nfa.size /\ nfa.edges \in [Sids(nfa) -> SUBSET Sids(nfa)]
      /\ nfa.start \subseteq Sids(nfa) /\ nfa.always \subseteq nfa.start
  BY <1>1 DEF IsNetwork
<1>3. nfa.size \in Int
  <2>1. \A x : x \in 1 .. nfa.size => x \in Int
    OBVIOUS
  <2> QED
    BY <1>2, <2>1
<1>4. nfa.size \in Nat
  BY <1>2, <1>3
<1>5. ReadOK(nfa)
  BY <1>2, <1>4 DEF ReadOK
<1> QED
  BY <1>1, <1>2, <1>5

\* What is said of the next state, said of its variables.
LEMMA NextStates ==
    ASSUME job' = job
    PROVE  /\ nfa' = nfa /\ (JobOK' <=> JobOK)
           /\ ToPack(kept, nfa)' <=> ToPack(kept', nfa)
           /\ ToPack(ccs, nfa)' <=> ToPack(ccs', nfa)
           /\ ClosedGroups(ccs, cc_id - 1)' <=>
                 /\ groups' \in Seq(Seq(Members)) /\ group' \in Seq(Members)
                 /\ Packs(Append(groups', group'), ccs', cc_id' - 1) /\ Fits(Append(groups', group'))
           /\ FitsBlock' <=>
                 (phase' = "ready" =>
                     \A k \in DOMAIN networks' : Big(networks'[k]) = {} /\ Room(groups'[k]) <= job.capacity)
<1>1. nfa' = nfa /\ (JobOK' <=> JobOK)
  BY DEF nfa, JobOK
<1>2. ToPack(kept, nfa)' <=> ToPack(kept', nfa)
  BY DEF ToPack, Big, OutDegree, nfa
<1>3. ToPack(ccs, nfa)' <=> ToPack(ccs', nfa)
  BY DEF ToPack, Big, OutDegree, nfa
<1>4. Fits(Append(groups, group))' <=> Fits(Append(groups', group'))
  BY DEF Fits, FitsIn
<1>5. ClosedGroups(ccs, cc_id - 1)' <=>
         /\ groups' \in Seq(Seq(Members)) /\ group' \in Seq(Members)
         /\ Packs(Append(groups', group'), ccs', cc_id' - 1) /\ Fits(Append(groups', group'))
  BY <1>4 DEF ClosedGroups
<1>6. FitsBlock' <=>
         (phase' = "ready" =>
             \A k \in DOMAIN networks' : Big(networks'[k]) = {} /\ Room(groups'[k]) <= job.capacity)
  BY DEF FitsBlock, Big, OutDegree
<1> QED
  BY <1>1, <1>2, <1>3, <1>5, <1>6

\* Before the networks are merged, nothing is said of them.
LEMMA NotReady ==
    ASSUME PrepInv, job' = job, UNCHANGED <<networks, enabled, plain>>, phase' # "ready"
    PROVE  /\ EnabledAreCopies' /\ (\A k \in DOMAIN networks' : Faithful(networks'[k], nfa'))
           /\ FitsBlock' /\ PackedOnce'
<1>1. EnabledAreCopies /\ \A k \in DOMAIN networks : Faithful(networks[k], nfa)
  BY DEF PrepInv
<1>2. nfa' = nfa
  BY NextStates
<1>3. networks' = networks /\ enabled' = enabled /\ plain' = plain
  OBVIOUS
<1>4. EnabledAreCopies'
  BY <1>1, <1>3 DEF EnabledAreCopies
<1>5. \A k \in DOMAIN networks' : Faithful(networks'[k], nfa')
  BY <1>1, <1>2, <1>3
<1>6. FitsBlock' /\ PackedOnce'
  BY DEF FitsBlock, PackedOnce
<1> QED
  BY <1>4, <1>5, <1>6

\* While the out-degrees are limited.
LEMMA LimitingHas ==
    ASSUME PrepInv, Limiting
    PROVE  /\ phase = "limit" /\ cc_id \in DOMAIN ccs /\ cc_id \in Nat \ {0} /\ num_iteration \in Nat
           /\ cc_id + 1 <= Len(ccs) + 1
           /\ Faithful(cc, nfa) /\ PrefixFree(cc) /\ Originals(cc) # {} /\ Originals(cc) \subseteq Sids(nfa)
           /\ Done(ccs, cc_id + 1) = Done(ccs, cc_id) \cup Originals(cc)
           /\ Done(ccs, cc_id) \cap Originals(cc) = {}
<1>1. phase = "limit" /\ cc_id <= Len(ccs) /\ cc_id \in Nat \ {0} /\ num_iteration \in Nat
  BY DEF PrepInv, Typed, Limiting
<1>2. Disjoint(ccs, nfa) /\ Covers(ccs) = Sids(nfa)
  BY <1>1 DEF PrepInv, Limited
<1>3. PICK m \in Nat : DOMAIN ccs = 1 .. m /\ Len(ccs) = m
  BY <1>2 DEF Disjoint
<1>4. cc_id \in DOMAIN ccs /\ cc_id + 1 <= Len(ccs) + 1
  BY <1>1, <1>3
<1>5. Faithful(cc, nfa) /\ PrefixFree(cc) /\ Originals(cc) # {}
  BY <1>2, <1>4 DEF Disjoint, cc
<1>6. Originals(cc) \subseteq Sids(nfa)
  BY <1>2, <1>4 DEF Covers, cc
<1>7. /\ Done(ccs, cc_id + 1) = Done(ccs, cc_id) \cup Originals(cc)
      /\ Done(ccs, cc_id) \cap Originals(cc) = {}
  BY <1>2, <1>4, DoneHas DEF cc
<1> QED
  BY <1>1, <1>4, <1>5, <1>6, <1>7

\* A split keeps what the component covers.
LEMMA SplitNodeKeeps ==
    ASSUME PrepInv, SplitNode
    PROVE  PrepInv'
<1>1. /\ Limiting /\ Big(cc) # {} /\ job' = job
      /\ ccs' = [ccs EXCEPT ![cc_id] = Split(cc, ToSplit(cc))]
      /\ num_iteration' = num_iteration + 1
      /\ UNCHANGED <<phase, cc_id, kept, dropped, group, groups>>
      /\ UNCHANGED <<networks, enabled, plain>>
  BY DEF SplitNode
<1>2. /\ phase = "limit" /\ cc_id \in DOMAIN ccs /\ cc_id \in Nat \ {0} /\ num_iteration \in Nat
      /\ Faithful(cc, nfa) /\ PrefixFree(cc)
  BY <1>1, LimitingHas
<1>3. nfa' = nfa /\ (JobOK' <=> JobOK) /\ (ToPack(kept, nfa)' <=> ToPack(kept', nfa))
  BY <1>1, NextStates
<1>4. Typed
  BY DEF PrepInv
<1>5. /\ kept \in Seq(Graph) /\ ToPack(kept, nfa) /\ Disjoint(ccs, nfa)
      /\ cc_id <= Len(ccs) + 1 /\ Covers(ccs) = Sids(nfa)
      /\ Done(ccs, cc_id) = Covers(kept) \cup dropped /\ Covers(kept) \cap dropped = {}
      /\ group = <<>> /\ groups = <<>>
  BY <1>2 DEF PrepInv, Limited
<1>6. KeepsGraph(Split(cc, ToSplit(cc)), cc, nfa)
  <2>1. JobOK
    BY <1>4 DEF Typed
  <2>2. ToSplit(cc) \in Big(cc)
    BY <1>1, <1>2, SplitsBig
  <2> QED
    BY <1>2, <2>1, <2>2, SplitFaithful
<1>7. Replaced(ccs', ccs, cc_id, Split(cc, ToSplit(cc)), nfa)
  BY <1>1, <1>2, <1>6 DEF Replaced, cc
<1>8. /\ Disjoint(ccs', nfa) /\ Len(ccs') = Len(ccs) /\ Covers(ccs') = Covers(ccs)
      /\ Done(ccs', cc_id) = Done(ccs, cc_id)
  BY <1>5, <1>7, ReplacedHas
<1>9. Typed'
  BY <1>1, <1>2, <1>3, <1>4 DEF Typed
<1>10. Limited'
  <2>1. ToPack(kept, nfa)'
    BY <1>1, <1>3, <1>5
  <2> QED
    BY <1>1, <1>3, <1>5, <1>8, <2>1 DEF Limited
<1>11. Packed'
  BY <1>1, <1>2 DEF Packed
<1>12. /\ EnabledAreCopies' /\ (\A k \in DOMAIN networks' : Faithful(networks'[k], nfa'))
       /\ FitsBlock' /\ PackedOnce'
  BY <1>1, <1>2, NotReady
<1> QED
  BY <1>9, <1>10, <1>11, <1>12 DEF PrepInv

\* A component that is given up is deleted.
LEMMA GiveUpKeeps ==
    ASSUME PrepInv, GiveUp
    PROVE  PrepInv'
<1>1. /\ Limiting /\ job' = job /\ dropped' = dropped \cup Originals(cc)
      /\ cc_id' = cc_id + 1 /\ num_iteration' = 0
      /\ UNCHANGED <<phase, ccs, kept, group, groups>>
      /\ UNCHANGED <<networks, enabled, plain>>
  BY DEF GiveUp, NextComponent
<1>2. /\ phase = "limit" /\ cc_id \in Nat \ {0} /\ cc_id + 1 <= Len(ccs) + 1
      /\ Originals(cc) \subseteq Sids(nfa)
      /\ Done(ccs, cc_id + 1) = Done(ccs, cc_id) \cup Originals(cc)
      /\ Done(ccs, cc_id) \cap Originals(cc) = {}
  BY <1>1, LimitingHas
<1>3. nfa' = nfa /\ (JobOK' <=> JobOK) /\ (ToPack(kept, nfa)' <=> ToPack(kept', nfa))
  BY <1>1, NextStates
<1>4. Typed
  BY DEF PrepInv
<1>5. /\ kept \in Seq(Graph) /\ ToPack(kept, nfa) /\ Disjoint(ccs, nfa) /\ Covers(ccs) = Sids(nfa)
      /\ Done(ccs, cc_id) = Covers(kept) \cup dropped /\ Covers(kept) \cap dropped = {}
      /\ group = <<>> /\ groups = <<>>
  BY <1>2 DEF PrepInv, Limited
<1>6. Done(ccs, cc_id + 1) = Covers(kept) \cup dropped' /\ Covers(kept) \cap dropped' = {}
  BY <1>1, <1>2, <1>5
<1>7. cc_id + 1 \in Nat \ {0}
  BY <1>2
<1>8. Typed'
  BY <1>1, <1>2, <1>3, <1>4, <1>7 DEF Typed
<1>9. Limited'
  <2>1. ToPack(kept, nfa)'
    BY <1>1, <1>3, <1>5
  <2> QED
    BY <1>1, <1>2, <1>3, <1>5, <1>6, <2>1 DEF Limited
<1>10. Packed'
  BY <1>1, <1>2 DEF Packed
<1>11. /\ EnabledAreCopies' /\ (\A k \in DOMAIN networks' : Faithful(networks'[k], nfa'))
       /\ FitsBlock' /\ PackedOnce'
  BY <1>1, <1>2, NotReady
<1> QED
  BY <1>8, <1>9, <1>10, <1>11 DEF PrepInv

\* One that is kept has no state over the limit, and shares none with the others.
LEMMA KeepKeeps ==
    ASSUME PrepInv, Keep
    PROVE  PrepInv'
<1>1. /\ Limiting /\ Big(cc) = {} /\ job' = job /\ kept' = Append(kept, cc)
      /\ cc_id' = cc_id + 1 /\ num_iteration' = 0
      /\ UNCHANGED <<phase, ccs, dropped, group, groups>>
      /\ UNCHANGED <<networks, enabled, plain>>
  BY DEF Keep, NextComponent
<1>2. /\ phase = "limit" /\ cc_id \in Nat \ {0} /\ cc_id + 1 <= Len(ccs) + 1
      /\ Faithful(cc, nfa) /\ PrefixFree(cc) /\ Originals(cc) # {}
      /\ Done(ccs, cc_id + 1) = Done(ccs, cc_id) \cup Originals(cc)
      /\ Done(ccs, cc_id) \cap Originals(cc) = {}
  BY <1>1, LimitingHas
<1>3. nfa' = nfa /\ (JobOK' <=> JobOK) /\ (ToPack(kept, nfa)' <=> ToPack(kept', nfa))
  BY <1>1, NextStates
<1>4. Typed
  BY DEF PrepInv
<1>5. /\ kept \in Seq(Graph) /\ ToPack(kept, nfa) /\ Disjoint(ccs, nfa) /\ Covers(ccs) = Sids(nfa)
      /\ Done(ccs, cc_id) = Covers(kept) \cup dropped /\ Covers(kept) \cap dropped = {}
      /\ group = <<>> /\ groups = <<>>
  BY <1>2 DEF PrepInv, Limited
<1>6. Originals(cc) \cap Covers(kept) = {} /\ Originals(cc) \cap dropped = {}
  BY <1>2, <1>5
<1>7. kept' \in Seq(Graph) /\ ToPack(kept', nfa) /\ Covers(kept') = Covers(kept) \cup Originals(cc)
  BY <1>1, <1>2, <1>5, <1>6, KeptMore
<1>8. Done(ccs, cc_id + 1) = Covers(kept') \cup dropped /\ Covers(kept') \cap dropped = {}
  BY <1>2, <1>5, <1>6, <1>7
<1>9. cc_id + 1 \in Nat \ {0}
  BY <1>2
<1>10. Typed'
  BY <1>1, <1>3, <1>4, <1>9 DEF Typed
<1>11. Limited'
  BY <1>1, <1>2, <1>3, <1>5, <1>7, <1>8 DEF Limited
<1>12. Packed'
  BY <1>1, <1>2 DEF Packed
<1>13. /\ EnabledAreCopies' /\ (\A k \in DOMAIN networks' : Faithful(networks'[k], nfa'))
       /\ FitsBlock' /\ PackedOnce'
  BY <1>1, <1>2, NotReady
<1> QED
  BY <1>10, <1>11, <1>12, <1>13 DEF PrepInv

\* The components that are not too large are packed, in some order.
LEMMA DropLargeKeeps ==
    ASSUME PrepInv, DropLarge
    PROVE  PrepInv'
<1>1. /\ phase = "limit" /\ cc_id > Len(ccs) /\ phase' = "pack" /\ job' = job
      /\ ccs' \in PackingOrders(Small(kept)) /\ dropped' = dropped \cup Large(kept) /\ cc_id' = 1
      /\ UNCHANGED <<num_iteration, kept, group, groups>>
      /\ UNCHANGED <<networks, enabled, plain>>
  BY DEF DropLarge, Large
<1>2. /\ nfa' = nfa /\ (JobOK' <=> JobOK)
      /\ (ToPack(kept, nfa)' <=> ToPack(kept', nfa)) /\ (ToPack(ccs, nfa)' <=> ToPack(ccs', nfa))
      /\ ClosedGroups(ccs, cc_id - 1)' <=>
            /\ groups' \in Seq(Seq(Members)) /\ group' \in Seq(Members)
            /\ Packs(Append(groups', group'), ccs', cc_id' - 1) /\ Fits(Append(groups', group'))
  BY <1>1, NextStates
<1>3. Typed /\ JobOK
  BY DEF PrepInv, Typed
<1>4. /\ kept \in Seq(Graph) /\ ToPack(kept, nfa) /\ Disjoint(ccs, nfa)
      /\ cc_id <= Len(ccs) + 1 /\ Covers(ccs) = Sids(nfa)
      /\ Done(ccs, cc_id) = Covers(kept) \cup dropped /\ Covers(kept) \cap dropped = {}
      /\ group = <<>> /\ groups = <<>>
  BY <1>1 DEF PrepInv, Limited
<1>5. Sids(nfa) = Covers(kept) \cup dropped
  <2>1. Len(ccs) \in Nat
    BY <1>4 DEF Disjoint
  <2>2. cc_id = Len(ccs) + 1
    BY <1>1, <1>3, <1>4, <2>1 DEF Typed
  <2>3. Done(ccs, Len(ccs) + 1) = Covers(ccs)
    BY <1>4, DoneHas
  <2> QED
    BY <1>4, <2>2, <2>3
<1>6. ToPack(ccs', nfa) /\ Covers(ccs') = Covers(kept) \ Large(kept)
  BY <1>1, <1>4, DropHas
<1>7. Large(kept) \subseteq Covers(kept)
  <2>1. \A g \in ToSet(kept) : \E k \in DOMAIN kept : g = kept[k]
    BY DEF ToSet
  <2> QED
    BY <2>1 DEF Large, Covers
<1>8. Covers(ccs') = Sids(nfa) \ dropped' /\ dropped' \subseteq Sids(nfa)
  BY <1>1, <1>4, <1>5, <1>6, <1>7
<1>9. Disjoint(ccs', nfa) /\ Len(ccs') \in Nat
  BY <1>6 DEF ToPack, Disjoint
<1>10. ClosedGroups(ccs, cc_id - 1)'
  <2>1. groups' = <<>> /\ group' = <<>> /\ cc_id' - 1 = 0
    BY <1>1, <1>4
  <2>2. groups' \in Seq(Seq(Members)) /\ group' \in Seq(Members)
    BY <2>1, EmptyHas
  <2>3. Packs(Append(groups', group'), ccs', cc_id' - 1) /\ Fits(Append(groups', group'))
    BY <1>3, <2>1, StartPacks
  <2> QED
    BY <1>2, <2>2, <2>3
<1>11. Typed'
  BY <1>1, <1>2, <1>3, <1>8 DEF Typed
<1>12. Limited'
  <2>1. ToPack(kept, nfa)'
    BY <1>1, <1>2, <1>4
  <2> QED
    BY <1>1, <1>2, <1>4, <1>9, <2>1 DEF Limited
<1>13. Packed'
  <2>1. cc_id' <= Len(ccs') + 1
    BY <1>1, <1>9
  <2>2. ToPack(ccs, nfa)' /\ Covers(ccs') = Sids(nfa') \ dropped'
    BY <1>2, <1>6, <1>8
  <2> QED
    BY <1>10, <2>1, <2>2 DEF Packed
<1>14. /\ EnabledAreCopies' /\ (\A k \in DOMAIN networks' : Faithful(networks'[k], nfa'))
       /\ FitsBlock' /\ PackedOnce'
  BY <1>1, NotReady
<1> QED
  BY <1>11, <1>12, <1>13, <1>14 DEF PrepInv

\* The groups new and g after component m was packed.
PackedNext(new, g, m) ==
    /\ new \in Seq(Seq(Members)) /\ g \in Seq(Members)
    /\ Packs(Append(new, g), ccs, m) /\ Fits(Append(new, g))

\* It joins the group being filled, or starts one.
LEMMA PackHas ==
    ASSUME JobOK, NEW n, ToPack(ccs, n), cc_id \in DOMAIN ccs, cc_id \in Nat \ {0},
           ClosedGroups(ccs, cc_id - 1), NEW member, MayPack(member), member.nfa = cc
    PROVE  /\ PackedNext(Closed, <<member>>, cc_id)
           /\ Used + member.width <= job.capacity => PackedNext(groups, Append(group, member), cc_id)
<1> DEFINE m == cc_id - 1
<1>1. m \in Nat /\ m + 1 = cc_id
  OBVIOUS
<1>2. ClosedGroups(ccs, m)
  OBVIOUS
<1>3. member.nfa = ccs[m + 1] /\ m + 1 \in DOMAIN ccs
  BY <1>1 DEF cc
<1> HIDE DEF m
<1>4. member \in Members
  BY DEF MayPack
<1>5. /\ groups \in Seq(Seq(Members)) /\ group \in Seq(Members)
      /\ Packs(Append(groups, group), ccs, m) /\ Fits(Append(groups, group))
  BY <1>2 DEF ClosedGroups
<1>6. Closed \in Seq(Seq(Members)) /\ Packs(Closed, ccs, m) /\ Fits(Closed)
  BY <1>2, ClosedHas
<1>7. PackedNext(Closed, <<member>>, m + 1)
  <2>1. MoreSpots(Append(Closed, <<member>>), Closed, <<Len(Closed) + 1, 1>>, ccs[m + 1])
    BY <1>3, <1>4, <1>6, OpenSpots
  <2>2. Packs(Append(Closed, <<member>>), ccs, m + 1)
    BY <1>1, <1>3, <1>6, <2>1, PacksMore
  <2>3. <<member>> \in Seq(Members)
    BY <1>4
  <2>4. Fits(Append(Closed, <<member>>))
    BY <1>6, <2>3, AloneFits, FitsBoth
  <2> QED
    BY <1>6, <2>2, <2>3, <2>4 DEF PackedNext
<1>8. ASSUME Used + member.width <= job.capacity
      PROVE  PackedNext(groups, Append(group, member), m + 1)
  <2> DEFINE more == Append(group, member)
  <2>1. more \in Seq(Members)
    BY <1>4, <1>5
  <2>2. MoreSpots(Append(groups, more), Append(groups, group), <<Len(groups) + 1, Len(group) + 1>>, ccs[m + 1])
    BY <1>3, <1>4, <1>5, JoinSpots
  <2>3. Fits(groups) /\ FitsIn(group)
    BY <1>5, FitsBoth
  <2>4. FitsIn(more)
    BY <1>5, <1>8, <2>3, JoinFits DEF Used
  <2> HIDE DEF more
  <2>5. Packs(Append(groups, more), ccs, m + 1)
    BY <1>1, <1>3, <1>5, <2>2, PacksMore
  <2>6. Fits(Append(groups, more))
    BY <1>5, <2>1, <2>3, <2>4, FitsBoth
  <2> QED
    BY <1>5, <2>1, <2>5, <2>6 DEF PackedNext, more
<1> QED
  BY <1>1, <1>7, <1>8

\* Every component packed is in one place.
LEMMA PackKeeps ==
    ASSUME PrepInv, Pack
    PROVE  PrepInv'
<1>1. /\ phase = "pack" /\ cc_id <= Len(ccs) /\ job' = job
      /\ UNCHANGED <<ccs, num_iteration, kept, dropped>>
      /\ UNCHANGED <<networks, enabled, plain>>
  BY DEF Pack
<1>2. /\ nfa' = nfa /\ (JobOK' <=> JobOK)
      /\ (ToPack(kept, nfa)' <=> ToPack(kept', nfa)) /\ (ToPack(ccs, nfa)' <=> ToPack(ccs', nfa))
      /\ ClosedGroups(ccs, cc_id - 1)' <=>
            /\ groups' \in Seq(Seq(Members)) /\ group' \in Seq(Members)
            /\ Packs(Append(groups', group'), ccs', cc_id' - 1) /\ Fits(Append(groups', group'))
  BY <1>1, NextStates
<1>3. Typed /\ JobOK /\ cc_id \in Nat \ {0}
  BY DEF PrepInv, Typed
<1>4. kept \in Seq(Graph) /\ ToPack(kept, nfa) /\ Disjoint(ccs, nfa)
  BY DEF PrepInv, Limited
<1>5. /\ ToPack(ccs, nfa) /\ Covers(ccs) = Sids(nfa) \ dropped
      /\ ClosedGroups(ccs, cc_id - 1)
  BY <1>1 DEF PrepInv, Packed
<1>6. cc_id \in DOMAIN ccs /\ cc_id + 1 <= Len(ccs) + 1
  <2>1. PICK m \in Nat : DOMAIN ccs = 1 .. m /\ Len(ccs) = m
    BY <1>4 DEF Disjoint
  <2> QED
    BY <1>1, <1>3, <2>1
<1>7. cc \in Graph /\ cc.V \in Nat
  <2>1. cc \in Graph
    BY <1>4, <1>6 DEF Disjoint, Faithful, Listed, cc
  <2> QED
    BY <2>1, GraphHas
<1>8. PICK w \in Widths(cc) :
         IF Refused(w)
         THEN phase' = "aborted" /\ UNCHANGED <<cc_id, group, groups>>
         ELSE /\ IF Used + w > job.capacity
                 THEN groups' = Closed /\ group' = << [nfa |-> cc, width |-> w] >>
                 ELSE groups' = groups /\ group' = Append(group, [nfa |-> cc, width |-> w])
              /\ cc_id' = cc_id + 1
              /\ phase' = phase
  BY DEF Pack
<1>9. w \in 0 .. cc.V /\ (job.packing = "size" => w = cc.V)
  BY <1>8 DEF Widths
<1>10. w \in Nat
  BY <1>7, <1>9
<1>11. /\ EnabledAreCopies' /\ (\A k \in DOMAIN networks' : Faithful(networks'[k], nfa'))
       /\ FitsBlock' /\ PackedOnce'
  <2>1. phase' # "ready"
    BY <1>1, <1>8
  <2> QED
    BY <1>1, <2>1, NotReady
<1>12. Limited'
  <2>1. ToPack(kept, nfa)' /\ phase' # "limit"
    BY <1>1, <1>2, <1>4, <1>8
  <2> QED
    BY <1>1, <1>2, <1>4, <2>1 DEF Limited
<1>13. CASE Refused(w)
  <2>1. phase' = "aborted" /\ cc_id' = cc_id
    BY <1>8, <1>13
  <2>2. Typed'
    BY <1>1, <1>2, <1>3, <2>1 DEF Typed
  <2>3. Packed'
    BY <1>1, <1>2, <1>5, <2>1 DEF Packed
  <2> QED
    BY <1>11, <1>12, <2>2, <2>3 DEF PrepInv
<1>14. CASE ~Refused(w)
  <2> DEFINE member == [nfa |-> cc, width |-> w]
  <2>1. /\ IF Used + w > job.capacity
           THEN groups' = Closed /\ group' = <<member>>
           ELSE groups' = groups /\ group' = Append(group, member)
        /\ cc_id' = cc_id + 1 /\ phase' = "pack"
    BY <1>1, <1>8, <1>14
  <2>2. member.nfa = cc /\ member.width = w /\ member \in Members
    BY <1>7, <1>10 DEF Members
  <2> HIDE DEF member
  <2>3. job.capacity \in Nat
    BY <1>3, JobsAssumption DEF JobOK
  <2>4. MayPack(member)
    BY <1>9, <1>10, <1>14, <2>2, <2>3 DEF MayPack, Refused
  <2>5. /\ PackedNext(Closed, <<member>>, cc_id)
        /\ Used + w <= job.capacity => PackedNext(groups, Append(group, member), cc_id)
    BY <1>3, <1>5, <1>6, <2>2, <2>4, PackHas
  <2>6. Used \in Nat
    <3>1. group \in Seq(Members)
      BY <1>5 DEF ClosedGroups
    <3>2. Widened(group, Members)
      BY <3>1 DEF Widened, Members
    <3> QED
      BY <3>2, RoomHas DEF Used
  <2>7. PackedNext(groups', group', cc_id)
    <3>1. CASE Used + w > job.capacity
      BY <2>1, <2>5, <3>1
    <3>2. CASE ~(Used + w > job.capacity)
      <4>1. Used + w <= job.capacity
        BY <1>10, <2>3, <2>6, <3>2
      <4> QED
        BY <2>1, <2>5, <3>2, <4>1
    <3> QED
      BY <3>1, <3>2
  <2>8. cc_id' - 1 = cc_id /\ cc_id + 1 \in Nat \ {0}
    BY <1>3, <2>1
  <2>9. ClosedGroups(ccs, cc_id - 1)'
    BY <1>1, <1>2, <2>7, <2>8 DEF PackedNext
  <2>10. Typed'
    BY <1>1, <1>2, <1>3, <2>1, <2>8 DEF Typed
  <2>11. Packed'
    BY <1>1, <1>2, <1>5, <1>6, <2>1, <2>9 DEF Packed
  <2> QED
    BY <1>11, <1>12, <2>10, <2>11 DEF PrepInv
<1> QED
  BY <1>13, <1>14

\* The networks are made of the components, and fit.
LEMMA MergeKeeps ==
    ASSUME PrepInv, Merge
    PROVE  PrepInv'
<1>1. /\ phase = "pack" /\ cc_id > Len(ccs) /\ job' = job /\ groups' = Closed
      /\ networks' = [k \in DOMAIN Closed |-> Merged(Closed[k])]
      /\ phase' = IF job.packing = "size" /\ \E g \in ToSet(networks') : g.V > job.capacity
                  THEN "aborted" ELSE "ready"
      /\ enabled' = [k \in DOMAIN Closed |-> Copies(Base(networks'[k]), nfa.start)]
      /\ plain' = nfa.start
      /\ UNCHANGED <<ccs, cc_id, num_iteration, kept, dropped>>
  BY DEF Merge
<1>2. /\ nfa' = nfa /\ (JobOK' <=> JobOK)
      /\ (ToPack(kept, nfa)' <=> ToPack(kept', nfa)) /\ (ToPack(ccs, nfa)' <=> ToPack(ccs', nfa))
      /\ FitsBlock' <=>
            (phase' = "ready" =>
                \A k \in DOMAIN networks' : Big(networks'[k]) = {} /\ Room(groups'[k]) <= job.capacity)
  BY <1>1, NextStates
<1>3. Typed /\ JobOK /\ cc_id \in Nat \ {0}
  BY DEF PrepInv, Typed
<1>4. kept \in Seq(Graph) /\ ToPack(kept, nfa) /\ Disjoint(ccs, nfa)
  BY DEF PrepInv, Limited
<1>5. /\ ToPack(ccs, nfa) /\ Covers(ccs) = Sids(nfa) \ dropped
      /\ ClosedGroups(ccs, cc_id - 1) /\ cc_id <= Len(ccs) + 1
  BY <1>1 DEF PrepInv, Packed
<1>6. cc_id - 1 = Len(ccs)
  <2>1. Len(ccs) \in Nat
    BY <1>4 DEF Disjoint
  <2> QED
    BY <1>1, <1>3, <1>5, <2>1
<1>7. Packs(Closed, ccs, Len(ccs)) /\ Fits(Closed)
  BY <1>5, <1>6, ClosedHas
<1>8. MergedAll(networks', Closed, ccs, nfa)
  BY <1>1, <1>5, <1>7, MergeHas
<1>9. /\ DOMAIN networks' = DOMAIN Closed
      /\ \A k \in DOMAIN Closed : /\ Faithful(networks'[k], nfa) /\ Big(networks'[k]) = {}
                                  /\ job.packing = "size" => networks'[k].V = Room(Closed[k])
                                  /\ job.packing # "size" => Room(Closed[k]) <= job.capacity
                                  /\ Room(Closed[k]) \in Nat
      /\ Covers(networks') = Covers(ccs)
      /\ \A g \in ToSet(ccs) : Cardinality({ p \in Spots(Closed) : PackedAt(Closed, p) = g }) = 1
  BY <1>8 DEF MergedAll
<1>10. \A k \in DOMAIN networks' : Faithful(networks'[k], nfa')
  BY <1>2, <1>9
<1>11. EnabledAreCopies'
  <2>1. DOMAIN enabled' = DOMAIN networks'
    BY <1>1, <1>9
  <2>2. \A k \in DOMAIN networks' : enabled'[k] = Copies(Base(networks'[k]), plain')
    BY <1>1, <1>9
  <2> QED
    BY <2>1, <2>2 DEF EnabledAreCopies
<1>12. FitsBlock'
  <2> SUFFICES ASSUME phase' = "ready", NEW k \in DOMAIN networks'
               PROVE  Big(networks'[k]) = {} /\ Room(groups'[k]) <= job.capacity
    BY <1>2
  <2>1. job.capacity \in Nat
    BY <1>3, JobsAssumption DEF JobOK
  <2>2. CASE job.packing = "size"
    <3>1. networks'[k] \in ToSet(networks')
      BY DEF ToSet
    <3>2. ~(\E g \in ToSet(networks') : g.V > job.capacity)
      BY <1>1, <2>2
    <3>3. ~(networks'[k].V > job.capacity)
      BY <3>1, <3>2
    <3>4. networks'[k].V = Room(Closed[k]) /\ Room(Closed[k]) \in Nat
      BY <1>9, <2>2
    <3> QED
      BY <1>1, <1>9, <2>1, <3>3, <3>4
  <2>3. CASE job.packing # "size"
    BY <1>1, <1>9, <2>3
  <2> QED
    BY <2>2, <2>3
<1>13. PackedOnce'
  <2>1. ccs' = ccs /\ groups' = Closed /\ dropped' = dropped /\ Sids(nfa') = Sids(nfa)
    BY <1>1, <1>2
  <2>2. \A g \in ToSet(ccs') :
           Cardinality({ p \in UNION { {k} \X DOMAIN groups'[k] : k \in DOMAIN groups' } :
                           groups'[p[1]][p[2]].nfa = g }) = 1
    BY <1>9, <2>1 DEF Spots, PackedAt
  <2>3. dropped \subseteq Sids(nfa)
    BY <1>3 DEF Typed
  <2>4. dropped' = Sids(nfa') \ UNION { Originals(networks'[k]) : k \in DOMAIN networks' }
    BY <1>5, <1>9, <2>1, <2>3 DEF Covers
  <2> QED
    BY <2>2, <2>4 DEF PackedOnce
<1>14. phase' \in {"aborted", "ready"}
  BY <1>1
<1>15. Typed'
  <2>1. nfa.start \subseteq Sids(nfa)
    BY <1>3, NfaIsNetwork
  <2> QED
    BY <1>1, <1>2, <1>3, <1>14, <2>1 DEF Typed
<1>16. Limited'
  <2>1. ToPack(kept, nfa)' /\ phase' # "limit"
    BY <1>1, <1>2, <1>4, <1>14
  <2> QED
    BY <1>1, <1>2, <1>4, <2>1 DEF Limited
<1>17. Packed'
  BY <1>1, <1>2, <1>5, <1>14 DEF Packed
<1> QED
  BY <1>10, <1>11, <1>12, <1>13, <1>15, <1>16, <1>17 DEF PrepInv

\* Network k as the device gets it is made of copies of the states read.
LEMMA DeviceIsCopy ==
    ASSUME PrepInv, NEW k \in DOMAIN networks
    PROVE  IsCopyOf(Device(k), nfa, Base(networks[k]))
<1>1. Faithful(networks[k], nfa)
  BY DEF PrepInv
<1>2. DOMAIN nfa.edges = Sids(nfa)
  BY NfaIsNetwork DEF PrepInv, Typed, ReadOK
<1> QED
  BY <1>1, <1>2, FaithfulIsCopy DEF Device

\* The networks and the network read stay in lockstep.
LEMMA ConsumeKeeps ==
    ASSUME PrepInv, NEW c \in Symbol, Consume(c)
    PROVE  PrepInv'
<1>1. /\ phase = "ready" /\ job' = job
      /\ enabled' = [k \in DOMAIN networks |-> NextEnabled(Device(k), enabled[k], c)]
      /\ plain' = NextEnabled(nfa, plain, c)
      /\ UNCHANGED <<phase, ccs, cc_id, num_iteration, kept, dropped, group, groups, networks>>
  BY DEF Consume
<1>2. /\ nfa' = nfa /\ (JobOK' <=> JobOK)
      /\ (ToPack(kept, nfa)' <=> ToPack(kept', nfa)) /\ (ToPack(ccs, nfa)' <=> ToPack(ccs', nfa))
      /\ FitsBlock' <=>
            (phase' = "ready" =>
                \A k \in DOMAIN networks' : Big(networks'[k]) = {} /\ Room(groups'[k]) <= job.capacity)
  BY <1>1, NextStates
<1>3. Typed /\ JobOK /\ plain \subseteq Sids(nfa)
  BY DEF PrepInv, Typed
<1>4. /\ EnabledAreCopies /\ (\A k \in DOMAIN networks : Faithful(networks[k], nfa))
      /\ FitsBlock /\ PackedOnce /\ Limited /\ Packed
  BY DEF PrepInv
<1>5. ReadOK(nfa) /\ nfa.always \subseteq Sids(nfa)
  BY <1>3, NfaIsNetwork
<1>6. DOMAIN nfa.edges = Sids(nfa) /\ \A s \in Sids(nfa) : nfa.edges[s] \subseteq Sids(nfa)
  BY <1>5 DEF ReadOK
<1>7. plain' \subseteq Sids(nfa)
  BY <1>1, <1>3, <1>5, <1>6 DEF NextEnabled, Successors, Activated
<1>8. ASSUME NEW k \in DOMAIN networks
      PROVE  enabled'[k] = Copies(Base(networks[k]), plain')
  <2>1. enabled[k] = Copies(Base(networks[k]), plain)
    BY <1>4 DEF EnabledAreCopies
  <2>2. IsCopyOf(Device(k), nfa, Base(networks[k]))
    BY DeviceIsCopy
  <2>3. NextEnabled(Device(k), Copies(Base(networks[k]), plain), c)
          = Copies(Base(networks[k]), NextEnabled(nfa, plain, c))
    BY <1>3, <1>6, <2>2, CopiesStep
  <2> QED
    BY <1>1, <2>1, <2>3
<1>9. EnabledAreCopies'
  BY <1>1, <1>8 DEF EnabledAreCopies
<1>10. \A k \in DOMAIN networks' : Faithful(networks'[k], nfa')
  BY <1>1, <1>2, <1>4
<1>11. FitsBlock'
  BY <1>1, <1>2, <1>4 DEF FitsBlock
<1>12. PackedOnce'
  BY <1>1, <1>2, <1>4 DEF PackedOnce
<1>13. Typed'
  BY <1>1, <1>2, <1>3, <1>7 DEF Typed
<1>14. Limited'
  BY <1>1, <1>2, <1>4 DEF Limited
<1>15. Packed'
  BY <1>1, <1>2, <1>4 DEF Packed
<1> QED
  BY <1>9, <1>10, <1>11, <1>12, <1>13, <1>14, <1>15 DEF PrepInv

\* Nothing else happens.
LEMMA StutterKeeps ==
    ASSUME PrepInv, UNCHANGED vars
    PROVE  PrepInv'
<1>1. /\ job' = job /\ UNCHANGED <<phase, ccs, cc_id, num_iteration, kept, dropped, group, groups>>
      /\ UNCHANGED <<networks, enabled, plain>>
  BY DEF vars
<1>2. /\ nfa' = nfa /\ (JobOK' <=> JobOK)
      /\ (ToPack(kept, nfa)' <=> ToPack(kept', nfa)) /\ (ToPack(ccs, nfa)' <=> ToPack(ccs', nfa))
      /\ ClosedGroups(ccs, cc_id - 1)' <=>
            /\ groups' \in Seq(Seq(Members)) /\ group' \in Seq(Members)
            /\ Packs(Append(groups', group'), ccs', cc_id' - 1) /\ Fits(Append(groups', group'))
      /\ FitsBlock' <=>
            (phase' = "ready" =>
                \A k \in DOMAIN networks' : Big(networks'[k]) = {} /\ Room(groups'[k]) <= job.capacity)
  BY <1>1, NextStates
<1>3. /\ Typed /\ Limited /\ Packed /\ EnabledAreCopies
      /\ (\A k \in DOMAIN networks : Faithful(networks[k], nfa)) /\ FitsBlock /\ PackedOnce
  BY DEF PrepInv
<1>4. Typed'
  BY <1>1, <1>2, <1>3 DEF Typed
<1>5. Limited'
  BY <1>1, <1>2, <1>3 DEF Limited
<1>6. Packed'
  <2>1. ClosedGroups(ccs, cc_id - 1) => ClosedGroups(ccs, cc_id - 1)'
    BY <1>1, <1>2 DEF ClosedGroups
  <2> QED
    BY <1>1, <1>2, <1>3, <2>1 DEF Packed
<1>7. EnabledAreCopies' /\ \A k \in DOMAIN networks' : Faithful(networks'[k], nfa')
  BY <1>1, <1>2, <1>3 DEF EnabledAreCopies
<1>8. FitsBlock' /\ PackedOnce'
  BY <1>1, <1>2, <1>3 DEF FitsBlock, PackedOnce
<1> QED
  BY <1>4, <1>5, <1>6, <1>7, <1>8 DEF PrepInv

\* The components of the network read, before anything is done.
LEMMA InitHas ==
    ASSUME Init
    PROVE  PrepInv
<1>1. /\ job \in Jobs /\ phase = "limit" /\ ccs = Components(nfa) /\ cc_id = 1 /\ num_iteration = 0
      /\ kept = <<>> /\ dropped = {} /\ group = <<>> /\ groups = <<>>
      /\ networks = <<>> /\ enabled = <<>> /\ plain = {}
  BY DEF Init, nfa
<1>2. JobOK
  BY <1>1 DEF JobOK
<1>3. ReadOK(nfa)
  BY <1>2, NfaIsNetwork
<1>4. Disjoint(ccs, nfa) /\ Covers(ccs) = Sids(nfa)
  BY <1>1, <1>3, ComponentsHave
<1>5. DOMAIN <<>> = {} /\ Len(<<>>) = 0 /\ <<>> \in Seq(Graph)
  BY EmptyHas
<1>6. Typed
  BY <1>1, <1>2 DEF Typed
<1>7. Limited
  <2>1. ToPack(kept, nfa)
    <3>1. 1 .. 0 = {} /\ 0 \in Nat
      OBVIOUS
    <3>2. Disjoint(kept, nfa)
      BY <1>1, <1>5, <3>1 DEF Disjoint
    <3> QED
      BY <1>1, <1>5, <3>2 DEF ToPack
  <2>2. Covers(kept) = {}
    BY <1>1, <1>5 DEF Covers
  <2>3. Done(ccs, 1) = {}
    BY <1>4, DoneHas
  <2>4. 1 <= Len(ccs) + 1
    <3>1. Len(ccs) \in Nat
      BY <1>4 DEF Disjoint
    <3> QED
      BY <3>1
  <2> QED
    BY <1>1, <1>4, <1>5, <2>1, <2>2, <2>3, <2>4 DEF Limited
<1>8. Packed
  BY <1>1 DEF Packed
<1>9. EnabledAreCopies /\ \A k \in DOMAIN networks : Faithful(networks[k], nfa)
  BY <1>1, <1>5 DEF EnabledAreCopies
<1>10. FitsBlock /\ PackedOnce
  BY <1>1 DEF FitsBlock, PackedOnce
<1> QED
  BY <1>6, <1>7, <1>8, <1>9, <1>10 DEF PrepInv

\* Every step keeps the invariant.
LEMMA Invariant == Spec => []PrepInv
<1>1. Init => PrepInv
  BY InitHas
<1>2. PrepInv /\ [Next]_vars => PrepInv'
  <2> SUFFICES ASSUME PrepInv, [Next]_vars PROVE PrepInv'
    OBVIOUS
  <2>1. CASE SplitNode
    BY <2>1, SplitNodeKeeps
  <2>2. CASE GiveUp
    BY <2>2, GiveUpKeeps
  <2>3. CASE Keep
    BY <2>3, KeepKeeps
  <2>4. CASE DropLarge
    BY <2>4, DropLargeKeeps
  <2>5. CASE Pack
    BY <2>5, PackKeeps
  <2>6. CASE Merge
    BY <2>6, MergeKeeps
  <2>7. CASE \E c \in Symbol : Consume(c)
    BY <2>7, ConsumeKeeps
  <2>8. CASE UNCHANGED vars
    BY <2>8, StutterKeeps
  <2> QED
    BY <2>1, <2>2, <2>3, <2>4, <2>5, <2>6, <2>7, <2>8 DEF Next, Prepare, Terminated
<1> QED
  BY <1>1, <1>2, PTL DEF Spec

-----------------------------------------------------------------------------
(* What the invariant says of the program.                                   *)

\* Graphs are sound if all are made of copies.
LEMMA InvariantIsSound ==
    ASSUME PrepInv
    PROVE  GraphsSound
<1>1. /\ Typed /\ Limited /\ EnabledAreCopies /\ \A k \in DOMAIN networks : Faithful(networks[k], nfa)
  BY DEF PrepInv
<1>2. TypeOK
  <2>1. ASSUME NEW k \in DOMAIN enabled
        PROVE  enabled[k] \subseteq DOMAIN networks[k].node_pool
    <3>1. enabled[k] = Copies(Base(networks[k]), plain)
      BY <1>1, <2>1 DEF EnabledAreCopies
    <3>2. DOMAIN Base(networks[k]) = DOMAIN networks[k].node_pool
      BY DEF Base
    <3> QED
      BY <3>1, <3>2 DEF Copies
  <2> QED
    BY <1>1, <2>1 DEF Typed, TypeOK
<1>3. ASSUME NEW g \in Graphs
      PROVE  Faithful(g, nfa)
  <2>1. CASE g \in ToSet(ccs)
    BY <1>1, <2>1 DEF Limited, Disjoint, ToSet
  <2>2. CASE g \in ToSet(kept)
    BY <1>1, <2>2 DEF Limited, ToPack, Disjoint, ToSet
  <2>3. CASE g \in ToSet(networks)
    BY <1>1, <2>3 DEF ToSet
  <2> QED
    BY <2>1, <2>2, <2>3 DEF Graphs
<1>4. DOMAIN nfa.edges = Sids(nfa)
  BY <1>1, NfaIsNetwork DEF Typed, ReadOK
<1>5. \A g \in Graphs : Consistent(g) /\ IsCopyOf(AsNetwork(g, nfa), nfa, Base(g))
  BY <1>3, <1>4, FaithfulIsConsistent, FaithfulIsCopy
<1> QED
  BY <1>2, <1>5 DEF GraphsSound

\* Networks in lockstep report the same states.
LEMMA LockStepReports ==
    ASSUME PrepInv
    PROVE  SameReports
<1> SUFFICES ASSUME phase = "ready", NEW c \in Symbol
             PROVE  UNION { { Device(k).original_id[i] : i \in Reporting(Device(k), enabled[k], c) }
                                : k \in DOMAIN networks }
                      = Reporting(nfa, plain, c) \ dropped
  BY DEF SameReports
<1> DEFINE R == Reporting(nfa, plain, c)
           Base1(k) == Base(networks[k])
<1>1. Typed /\ EnabledAreCopies /\ PackedOnce
  BY DEF PrepInv
<1>2. R \subseteq Sids(nfa)
  BY <1>1 DEF Reporting, Activated, Typed
<1>3. \A k \in DOMAIN networks : Reporting(Device(k), enabled[k], c) = Copies(Base1(k), R)
  BY <1>1, DeviceIsCopy, CopiesReport DEF EnabledAreCopies
<1>4. \A k \in DOMAIN networks : \A i \in Copies(Base1(k), R) :
          Device(k).original_id[i] = Base1(k)[i]
  <2> SUFFICES ASSUME NEW k \in DOMAIN networks, NEW i \in Copies(Base1(k), R)
               PROVE  Device(k).original_id[i] = Base1(k)[i]
    OBVIOUS
  <2>1. i \in DOMAIN Base1(k) /\ Base1(k)[i] \in R
    BY DEF Copies
  <2>2. Device(k).original_id[i] = nfa.original_id[Base1(k)[i]]
    BY <2>1, DeviceIsCopy DEF IsCopyOf, SameAttributes
  <2> QED
    BY <1>1, <1>2, <2>1, <2>2, NfaIsNetwork DEF Typed
<1>5. dropped = Sids(nfa) \ UNION { Range(Base1(k)) : k \in DOMAIN networks }
  BY <1>1 DEF PackedOnce, Originals
<1>6. \A k \in DOMAIN networks :
          { Device(k).original_id[i] : i \in Reporting(Device(k), enabled[k], c) }
            = R \cap Range(Base1(k))
  <2> SUFFICES ASSUME NEW k \in DOMAIN networks
               PROVE  { Device(k).original_id[i] : i \in Copies(Base1(k), R) } = R \cap Range(Base1(k))
    BY <1>3
  <2>1. { Device(k).original_id[i] : i \in Copies(Base1(k), R) } = { Base1(k)[i] : i \in Copies(Base1(k), R) }
    BY <1>4
  <2>2. { Base1(k)[i] : i \in Copies(Base1(k), R) } = R \cap Range(Base1(k))
    BY DEF Copies, Range
  <2> QED
    BY <2>1, <2>2
<1> HIDE DEF R, Base1
<1>7. UNION { { Device(k).original_id[i] : i \in Reporting(Device(k), enabled[k], c) } : k \in DOMAIN networks }
        = UNION { R \cap Range(Base1(k)) : k \in DOMAIN networks }
  BY <1>6
<1>8. UNION { R \cap Range(Base1(k)) : k \in DOMAIN networks } = R \ dropped
  BY <1>2, <1>5
<1> QED
  BY <1>7, <1>8 DEF R

\* The two lists of an edge agree in every graph, after every split and every
\* merge, and each graph is made of copies of states of the network read, with an
\* edge into each copy for every edge into its original: addEdge,
\* remove_node_unsafe, limit_out_degree_on_nfa, split_nfa_by_ccs and merge_nfas
\* keep them so.
THEOREM GraphsStaySound == Spec => []GraphsSound
<1>1. PrepInv => GraphsSound
  BY InvariantIsSound
<1> QED
  BY <1>1, Invariant, PTL

\* group_nfas, group_nfas_by_hotcold and ppopp12 leave no network whose states
\* have more successors than the limit, or whose components need more room than a
\* block has.
THEOREM BlocksFit == Spec => []FitsBlock
<1>1. PrepInv => FitsBlock
  BY DEF PrepInv
<1> QED
  BY <1>1, Invariant, PTL

\* Each component that was not deleted is in one group, and once, and the networks
\* merged from the groups have all states but those deleted.
THEOREM EachPackedOnce == Spec => []PackedOnce
<1>1. PrepInv => PackedOnce
  BY DEF PrepInv
<1> QED
  BY <1>1, Invariant, PTL

\* The blocks together report on every input what the network read reports, except
\* for states of deleted components: limiting, packing and merging lose no
\* report of obat, hotstart or ppopp12 and add none.
THEOREM ReportsSurvivePreparation == Spec => []SameReports
<1>1. PrepInv => SameReports
  BY LockStepReports
<1> QED
  BY <1>1, Invariant, PTL
=============================================================================
