----------------------------- MODULE Translator -----------------------------
(***************************************************************************)
(* Translator.java: an automaton becomes a regular expression by state     *)
(* elimination.  The transitions are a list whose labels are texts; a      *)
(* state is taken out by joining every label into it with every label out  *)
(* of it, and parallel transitions are merged into an alternation, until   *)
(* one transition from "start" to "end" is left.                           *)
(*                                                                         *)
(* The texts stay far below the 2^30 characters at which the code gives    *)
(* up (end() at 505, 565 and 627), so that branch is left out.             *)
(***************************************************************************)
EXTENDS StateOrders

CONSTANTS
  Jobs,       \* what the GUI may ask for: a network, an order and a mode
  Earlier     \* the text left in the static list by the automaton before

(***************************************************************************)
(* An automaton file: state-transition elements in file order, each with   *)
(* its symbol set, what it activates, and whether it starts and reports.   *)
(* The reader needs a start first, and splits what is not connected.       *)
(***************************************************************************)
IsNetwork(n) ==
  LET elements == ToSet(n.elements)
  IN  /\ n.symbol \in [elements -> {<<c>> : c \in DOMAIN PieceLen}]
      /\ n.activate \in [elements -> SUBSET elements]
      /\ n.start \subseteq elements /\ n.report \subseteq elements
      /\ Head(n.elements) \in n.start
      /\ \A i \in 2..Len(n.elements) : \E j \in 1..(i - 1) :
            \/ n.elements[i] \in n.activate[n.elements[j]]
            \/ n.elements[j] \in n.activate[n.elements[i]]

Settings == ({"degree", "serial", "weight"} \X {"once", "iter"})
            \union ({"bridge", "false"} \X {"once"})

ASSUME JobsAssumption ==
  \A job \in Jobs : IsNetwork(job.net) /\ <<job.order, job.mode>> \in Settings

VARIABLES
  net,         \* the automaton in translation
  order, mode,
  phase,       \* "read", "remove", or the result: "done" or "stale"
  st,          \* the states left, in their order
  tr,          \* trRemove, the transitions left
  pos,         \* the position in st
  loopLabel,
  regex        \* the static list that translateToRegex returns

vars == <<net, order, mode, phase, st, tr, pos, loopLabel, regex>>

-----------------------------------------------------------------------------
(* What the readers make of a file: an element activates the next ones     *)
(* with its own symbol, and a report becomes an end state of its own.  The *)
(* MNRL reader does the latter only for an element that activates nothing: *)
(* of an MNRL file, n.report are the reporting elements of this kind.  The *)
(* elements that the ANML reader ends at an "or" are left out.             *)
Transition(c, i, n) == [current |-> c, input |-> i, next |-> n]

EndOf(p) == "temp_" \o p

NextsOf(n, p) == SelectSeq(n.elements, LAMBDA q : q \in n.activate[p])

(* each state where it is met first *)
StatesRead(n) ==
  LET met(p) == <<p>> \o NextsOf(n, p) \o (IF p \in n.report THEN <<EndOf(p)>> ELSE <<>>)
      all    == FlattenSeq([i \in DOMAIN n.elements |-> met(n.elements[i])])
      first  == SelectSeq([i \in DOMAIN all |-> i],
                          LAMBDA i : \A j \in 1..(i - 1) : all[j] # all[i])
  IN  [k \in DOMAIN first |-> all[first[k]]]

TransitionsRead(n) ==
  LET out(p) ==
        LET nexts == NextsOf(n, p)
        IN  [i \in DOMAIN nexts |-> Transition(p, n.symbol[p], nexts[i])]
            \o (IF p \in n.report THEN <<Transition(p, n.symbol[p], EndOf(p))>> ELSE <<>>)
  IN  FlattenSeq([i \in DOMAIN n.elements |-> out(n.elements[i])])

(* modifyAutomata: a single start before the starts and a single end after *)
(* the end states, each in the order their elements are read in.  No two   *)
(* transitions read have the same two states, so its own merge of parallel *)
(* ones finds nothing to do.                                               *)
ModifiedTransitions(n) ==
  LET starts == SelectSeq(n.elements, LAMBDA s : s \in n.start)
      ends   == SelectSeq(StatesRead(n), LAMBDA s : \E p \in n.report : s = EndOf(p))
  IN  [i \in DOMAIN starts |-> Transition("start", Empty, starts[i])]
      \o TransitionsRead(n)
      \o [i \in DOMAIN ends |-> Transition(ends[i], Empty, "end")]

ModifiedStates(n) == StatesRead(n) \o <<"start", "end">>

-----------------------------------------------------------------------------
(* Merging parallel transitions. *)
SamePair(x, y) == x.current = y.current /\ x.next = y.next

(* the label of two parallel transitions: an empty one gives way *)
JoinedInput(x, y) ==
  IF x = Empty THEN y
  ELSE IF y = Empty THEN x
  ELSE Guarded(x) \o <<"|">> \o Guarded(y)

(* mutant: the transition merged into the other one stays *)
MergeAtKeepingBoth(trans, todo, i) ==
  LET x == Head(todo)
      y == trans[i]
      joined == [y EXCEPT !.input = JoinedInput(x.input, y.input)]
  IN  IF ~SamePair(x, y) \/ x.input = y.input THEN <<trans, todo>>
      ELSE <<ReplaceAt(trans, i, joined), RemoveFirst(todo, y)>>

(* what position i holds against the head of todo, in the list and in todo *)
MergeAt(trans, todo, i) ==
  LET x == Head(todo)
      y == trans[i]
      kept == SelectSeq([j \in DOMAIN trans |-> j], LAMBDA j : j = i \/ trans[j] # y)
  IN  IF ~SamePair(x, y) THEN <<trans, todo>>
      ELSE IF x.input = y.input
      THEN <<[k \in DOMAIN kept |-> trans[kept[k]]], todo>>
      ELSE LET joined == [y EXCEPT !.input = JoinedInput(x.input, y.input)]
           IN  <<RemoveFirst(ReplaceAt(trans, i, joined), x), RemoveFirst(todo, y)>>

(* The passes over the list, one for each transition left in todo.  A      *)
(* removal does not step back, and the position goes on.                   *)
RECURSIVE MergePasses(_, _)
MergePasses(list, i) ==
  IF list[2] = <<>> THEN list[1]
  ELSE IF i > Len(list[1]) THEN MergePasses(<<list[1], Tail(list[2])>>, 1)
  ELSE CHOOSE merged \in {MergePasses(l, i + 1) : l \in {MergeAt(list[1], list[2], i)}} : TRUE

EliminateParallelTransitions(trans) ==
  CHOOSE merged \in {MergePasses(list, 1) : list \in {<<trans, trans>>}} : TRUE

-----------------------------------------------------------------------------
(* Taking out a state. *)
IsLoop(t, s) == t.current = s /\ t.next = s

(* mutant: the other label of an empty way in is forgotten *)
ThroughLosingEmpty(i, o) ==
  IF i = Empty THEN <<>> ELSE IF o = Empty THEN <<i>> ELSE <<Guarded(i) \o Guarded(o)>>

(* the labels for the way in by i and out by o *)
Through(i, o) ==
  IF i = Empty THEN <<o>>
  ELSE IF o = Empty THEN <<i>>
  ELSE <<Guarded(i) \o Guarded(o)>>

(* the same around a loop; the second label is added in any case *)
ThroughLoop(i, loop, o) ==
  IF i = Empty THEN <<loop \o o>>
  ELSE IF o = Empty THEN <<i \o loop>>
  ELSE <<Guarded(i) \o loop \o Guarded(o), i \o loop \o o>>

(* loop is the label of the loops of s, <<>> if it has none *)
EliminateState(trans, s, loop) ==
  LET in  == GetNext(trans, s)
      out == GetCurr(trans, s)
      made(i, o) == LET labels == IF loop = <<>> THEN Through(i.input, o.input)
                                  ELSE ThroughLoop(i.input, loop, o.input)
                    IN  [k \in DOMAIN labels |-> Transition(i.current, labels[k], o.next)]
      ways == [k \in 1..(Len(in) * Len(out)) |->
                 made(in[1 + ((k - 1) \div Len(out))], out[1 + ((k - 1) % Len(out))])]
  IN  CHOOSE all \in {SelectSeq(trans, LAMBDA t : s \notin {t.current, t.next})
                        \o FlattenSeq(w) : w \in {ways}} : TRUE

(* mutant: a label of one character is not repeated *)
LoopLabelOnce(trans, s) ==
  LET loops == SelectSeq(trans, LAMBDA t : IsLoop(t, s))
      text  == FoldLeft(LAMBDA l, t : IF l = <<>> THEN t.input ELSE l \o <<"|">> \o t.input,
                        <<>>, loops)
      all   == loopLabel \o text
  IN  IF TextLen(all) = 1 THEN all ELSE Parens(all) \o <<"*">>

(* The labels of the loops are appended to what loopLabel holds, which is  *)
(* the label of the state with a loop that went before.                    *)
LoopLabel(trans, s) ==
  LET loops == SelectSeq(trans, LAMBDA t : IsLoop(t, s))
      text  == FoldLeft(LAMBDA l, t : IF l = <<>> THEN t.input ELSE l \o <<"|">> \o t.input,
                        <<>>, loops)
      all   == loopLabel \o text
  IN  IF TextLen(all) = 1 THEN all \o <<"*">> ELSE Parens(all) \o <<"*">>

(* removeStates on state s: its loops become a label, every way through it *)
(* a transition, and these are merged with the parallel ones               *)
Bypassed(trans, s) ==
  LET loopless == SelectSeq(trans, LAMBDA t : ~IsLoop(t, s))
  IN  IF loopless = trans
      THEN EliminateState(trans, s, <<>>)
      ELSE CHOOSE all \in {EliminateState(loopless, s, l) : l \in {LoopLabel(trans, s)}} : TRUE

WithoutState(trans, s) == EliminateParallelTransitions(Bypassed(trans, s))

LoopLabelAfter(trans, s) ==
  IF \E k \in DOMAIN trans : IsLoop(trans[k], s) THEN LoopLabel(trans, s) ELSE loopLabel

-----------------------------------------------------------------------------
Init ==
  /\ \E job \in Jobs : net = job.net /\ order = job.order /\ mode = job.mode
  /\ phase = "read"
  /\ st = <<>> /\ tr = <<>> /\ pos = 1 /\ loopLabel = <<>>
  /\ regex = <<Earlier>>

(* translateToRegex reads and modifies the automaton, removeStates orders it *)
Modify ==
  /\ phase = "read"
  /\ phase' = "remove"
  /\ tr' = ModifiedTransitions(net)
  /\ st' \in Ordered(order, ModifiedStates(net), tr')
  /\ UNCHANGED <<net, order, mode, pos, loopLabel, regex>>

(* A turn of the loop.  By NoParallel no turn finds "start" and "end"      *)
(* alone with transitions to merge, so the code for that (283-291, 345,    *)
(* 429-436), and an index past the end of the states, are never reached.   *)
Turn(m) == phase = "remove" /\ Len(tr) > 1 /\ mode = m

Eliminate(s, states) ==
  /\ s \notin Ends
  /\ tr' = WithoutState(tr, s)
  /\ loopLabel' = LoopLabelAfter(tr, s)
  /\ st' = Remove(states, s)
  /\ UNCHANGED <<net, order, mode, phase, regex>>

(* mode "once": the order is kept, and pos moves past "start" and "end" *)
EliminateOnce ==
  /\ Turn("once")
  /\ Eliminate(st[pos], st)
  /\ UNCHANGED pos

(* mutant: only "start" is passed *)
PassStart ==
  /\ Turn("once")
  /\ st[pos] \in Ends /\ Len(st) > 2
  /\ pos' = CHOOSE p \in pos..Len(st) :
              st[p] # "start" /\ \A q \in pos..(p - 1) : st[q] = "start"
  /\ UNCHANGED <<net, order, mode, phase, st, tr, loopLabel, regex>>

PassEnds ==
  /\ Turn("once")
  /\ st[pos] \in Ends /\ Len(st) > 2
  /\ pos' = CHOOSE p \in pos..Len(st) :
              /\ st[p] \notin Ends \/ p = Len(st)
              /\ \A q \in pos..(p - 1) : st[q] \in Ends
  /\ UNCHANGED <<net, order, mode, phase, st, tr, loopLabel, regex>>

(* mode "iter": every turn orders the states again.  The orders of this    *)
(* mode leave "start" and "end" last, so that pos stays in the list; only  *)
(* by weight may a state of more than 1000000 come after them, and pos be  *)
(* past the list when it is gone, where the code fails at get(pos) and the *)
(* modulus here goes on: the model is bounded to smaller weights.          *)
NextPosition(states) ==
  LET turn(k) == 1 + ((pos - 1 + k) % Len(states))
  IN  turn(CHOOSE k \in 0..(Len(states) - 1) :
             /\ states[turn(k)] \notin Ends
             /\ \A j \in 0..(k - 1) : states[turn(j)] \in Ends)

EliminateIter ==
  /\ Turn("iter")
  /\ \E states \in Ordered(order, st, tr) :
       /\ pos' = NextPosition(states)
       /\ Eliminate(states[pos'], states)

(* with no transition left the failure is recorded, and the static list is *)
(* returned as the automaton before left it                                *)
Finish ==
  /\ phase = "remove" /\ Len(tr) <= 1
  /\ IF Len(tr) = 1
     THEN phase' = "done" /\ regex' = <<tr[1].input>>
     ELSE phase' = "stale" /\ UNCHANGED regex
  /\ UNCHANGED <<net, order, mode, st, tr, pos, loopLabel>>

Next == Modify \/ EliminateOnce \/ PassEnds \/ EliminateIter \/ Finish

(* The translation is one sequential call. *)
Spec == Init /\ [][Next]_vars /\ WF_vars(Next)

-----------------------------------------------------------------------------
(* What is promised. *)

(* the words the network reports, up to MaxWord *)
RECURSIVE Runs(_, _)
Runs(n, k) ==
  IF k = 1 THEN {[at |-> p, word |-> n.symbol[p]] : p \in n.start}
  ELSE LET shorter == Runs(n, k - 1)
       IN  shorter \union
           UNION {{[at |-> q, word |-> r.word \o n.symbol[q]] : q \in n.activate[r.at]} :
                  r \in {x \in shorter : Len(x.word) = k - 1}}

NetworkWords(n) == {r.word : r \in {x \in Runs(n, MaxWord) : x.at \in n.report}}

(* the words from "start" to each state along the transitions of a list *)
RECURSIVE Reaching(_, _)
Reaching(edges, words) ==
  LET more == [s \in DOMAIN words |-> words[s] \union
                 UNION {Cat(words[e.from], e.words) : e \in {x \in edges : x.to = s}}]
  IN  IF more = words THEN words ELSE Reaching(edges, more)

LanguageOf(trans) ==
  LET edges  == {[from |-> t.current, to |-> t.next, words |-> Words(t.input)] :
                 t \in ToSet(trans)}
      states == Ends \union UNION {{e.from, e.to} : e \in edges}
  IN  Reaching(edges, [s \in states |-> IF s = "start" THEN {<<>>} ELSE {}])["end"]

(* elements reachable from A along R, A included *)
RECURSIVE Closure(_, _)
Closure(R, A) ==
  LET more == A \union UNION {R[p] : p \in A} IN IF more = A THEN A ELSE Closure(R, more)

(* Networks that come through whole: no cycle, no start element that       *)
(* another one activates, and no element off every path to a report.       *)
Plain(n) ==
  LET elements == ToSet(n.elements)
  IN  /\ \A p \in elements : p \notin Closure(n.activate, n.activate[p])
      /\ \A p \in elements : n.activate[p] \cap n.start = {}
      /\ elements = Closure(n.activate, n.start)
      /\ \A p \in elements : Closure(n.activate, {p}) \cap n.report # {}

TypeOK ==
  /\ IsNetwork(net) /\ <<order, mode>> \in Settings
  /\ phase \in {"read", "remove", "done", "stale"}
  /\ ToSet(st) \subseteq ToSet(ModifiedStates(net))
  /\ \A t \in ToSet(tr) : {t.current, t.next} \subseteq ToSet(ModifiedStates(net))
  /\ pos \in Nat \ {0}
  /\ Len(regex) = 1

(* Translator.java:614-661: although the merge skips the neighbour of what *)
(* it removes, one pass leaves no two transitions between the same states; *)
(* so the last turn leaves a single transition.                            *)
NoParallel ==
  /\ TypeOK
  /\ \A i, j \in DOMAIN tr : i # j => ~SamePair(tr[i], tr[j])

(* Translator.java:88: the expression of a plain network denotes exactly   *)
(* the words the network reports, whatever the order and the mode.         *)
RegexExact == phase = "done" /\ Plain(net) => Words(regex[1]) = NetworkWords(net)

(* Translator.java:62-78: the text of the automaton before comes out again *)
(* only for an automaton that reports nothing.                             *)
StaleOnlyIfSilent == phase = "stale" => NetworkWords(net) = {}

(* Translator.java:481: taking out a state keeps the language, as long as  *)
(* no loop label is left over, no alternation stands next to a loop, and   *)
(* no empty label is merged with another.                                  *)
NoEmptyBeside(trans) ==
  \A x, y \in ToSet(trans) : SamePair(x, y) /\ x.input = Empty => y.input = Empty

Careful(trans, s) ==
  LET loops  == {t \in ToSet(trans) : IsLoop(t, s)}
      around == {t \in ToSet(trans) : s \in {t.current, t.next}} \ loops
  IN  /\ NoEmptyBeside(Bypassed(trans, s))
      /\ loops # {} => /\ loopLabel = <<>>
                       /\ \A t \in around : ~HasBar(t.input)
                       /\ {t.input : t \in around} # {Empty}

EliminationKeepsLanguage ==
  [][\A s \in ToSet(st) \ ToSet(st') :
        Careful(tr, s) => LanguageOf(tr') = LanguageOf(tr)]_vars

(* every translation ends *)
Terminates == <>(phase \in {"done", "stale"})
=============================================================================
