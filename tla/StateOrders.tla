---------------------------- MODULE StateOrders ----------------------------
(***************************************************************************)
(* Minimization.java: the orders in which the translator eliminates the    *)
(* states.  A transition is a record of current, input and next; states    *)
(* and transitions are lists.                                              *)
(***************************************************************************)
EXTENDS RegexText, FiniteSets, Integers

Ends == {"start", "end"}

GetCurr(tr, s) == SelectSeq(tr, LAMBDA t : t.current = s)
GetNext(tr, s) == SelectSeq(tr, LAMBDA t : t.next = s)

Degree(s, tr) == Len(GetCurr(tr, s)) + Len(GetNext(tr, s))

(* A state is put after the first one that has no more transitions than    *)
(* it; one with fewer than all of them is left out, and then the order     *)
(* stays as it was.                                                        *)
InsertByDegree(ordered, s, tr) ==
  LET fits == {i \in DOMAIN ordered : Degree(s, tr) >= Degree(ordered[i], tr)}
  IN  IF ordered = <<>> THEN <<s>>
      ELSE IF fits = {} THEN ordered
      ELSE InsertAt(ordered, 1 + CHOOSE i \in fits : \A j \in fits : i <= j, s)

RECURSIVE InsertAll(_, _, _)
InsertAll(ordered, states, tr) ==
  IF states = <<>> THEN ordered
  ELSE CHOOSE all \in {InsertAll(o, Tail(states), tr) :
                         o \in {InsertByDegree(ordered, Head(states), tr)}} : TRUE

OrderStates(states, tr) ==
  LET ordered == InsertAll(<<>>, states, tr)
  IN  IF Len(ordered) = Len(states) THEN ordered ELSE states

(* states with one transition in and one out come first *)
OrderSerial(states, tr) ==
  LET serial(s) == Len(GetNext(tr, s)) = 1 /\ Len(GetCurr(tr, s)) = 1
  IN  SelectSeq(states, serial) \o SelectSeq(states, LAMBDA s : ~serial(s))

SumLen(tr) == FoldLeft(LAMBDA n, t : n + TextLen(t.input), 0, tr)

Weight(s, tr) ==
  LET inward  == SelectSeq(tr, LAMBDA t : t.next = s /\ t.current # s)
      outward == SelectSeq(tr, LAMBDA t : t.current = s /\ t.next # s)
      loops   == SelectSeq(tr, LAMBDA t : t.current = s /\ t.next = s)
      chars(q) == SumLen(SelectSeq(q, LAMBDA t : t.input # Empty))
  IN  IF s \in Ends THEN 1000000
      ELSE (Len(outward) - 1) * chars(inward) + (Len(inward) - 1) * chars(outward)
           + (Len(inward) * Len(outward) - 1) * SumLen(loops)

(* ascending weight, the earlier of two equal ones first *)
OrderWeight(states, tr) ==
  LET w == [i \in DOMAIN states |-> Weight(states[i], tr)]
      before(i, j) == w[i] < w[j] \/ (w[i] = w[j] /\ i < j)
      by == SortSeq([i \in DOMAIN states |-> i], before)
  IN  [i \in DOMAIN states |-> states[by[i]]]

(* The walk from "start" counts the passes through each state, and gives   *)
(* up (-1) on one it meets again; every arrival at "end" is a path.        *)
RECURSIVE FollowPath(_, _, _)
FollowPath(s, tr, walk) ==
  IF s = "end" THEN [walk EXCEPT !.paths = @ + 1]
  ELSE IF s \in walk.traversed
  THEN [walk EXCEPT !.pass[s] = -1]
  ELSE FoldLeft(LAMBDA w, t : IF t.next = s THEN w ELSE FollowPath(t.next, tr, w),
                [walk EXCEPT !.traversed = @ \union {s}, !.pass[s] = @ + 1],
                GetCurr(tr, s))

(* States on every path come last; otherwise the order is that of a hash   *)
(* map keyed by object identity: any.                                      *)
OrdersBridge(states, tr) ==
  LET from   == [pass |-> [s \in ToSet(states) |-> 0], traversed |-> {}, paths |-> 0]
      bridges(w) == {s \in ToSet(states) \ Ends : w.pass[s] = w.paths}
  IN  UNION {{first \o last : first \in SetToSeqs(ToSet(states) \ lasts),
                              last  \in SetToSeqs(lasts)} :
               lasts \in {bridges(w) : w \in {FollowPath("start", tr, from)}}}

(* the orders a turn may work in *)
Ordered(order, states, tr) ==
  CASE order = "degree" -> {OrderStates(states, tr)}
    [] order = "serial" -> {OrderSerial(states, tr)}
    [] order = "weight" -> {OrderWeight(states, tr)}
    [] order = "bridge" -> OrdersBridge(states, tr)
    [] order = "false"  -> {states}
=============================================================================
