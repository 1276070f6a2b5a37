------------------------- MODULE IncompatibleStates -------------------------
(***************************************************************************)
(* CompatibleGroupHelper::calc_incompatible_states: which states of a       *)
(* connected component may be active after the same symbol.  A queue of     *)
(* pairs is worked off: what two incompatible states can activate together  *)
(* is incompatible in turn.  The queue is a set: the order in which pairs    *)
(* leave it decides nothing.                                                *)
(*                                                                          *)
(* A start state of the engine stays active if it is all-input, whatever    *)
(* the symbol; start and report states are made incompatible with all.      *)
(***************************************************************************)
EXTENDS Incompatibility

CONSTANTS Id,      \* original ids of states
          Networks \* the connected components the analysis may be run on

ASSUME NetworksAssumption ==
    \A n \in Networks : IsNetwork(n, MaxInt, Symbol, Id)

VARIABLES nfa,          \* the component
          incompatible, \* the pairs whose entry of the matrix is true
          Q             \* the pairs still to be worked off

pairsVars == <<nfa, incompatible, Q>>

\* The order a pair was pushed in: <<i, j>> in the loop over the start and
\* report states i, unless <<j, i>> was pushed for a smaller j.
Pushed(n) ==
    { p \in Initial(n) :
        \/ p[1] = p[2]
        \/ /\ p[1] \in n.start \cup n.report
           /\ p[2] \in n.start \cup n.report => p[1] < p[2] }

PairsInit ==
    /\ nfa \in Networks
    /\ incompatible = Initial(nfa)
    /\ Q = Pushed(nfa)

\* Mutant of Pop: only one entry of the matrix is set.
Pop_OneEntry ==
    \E p \in Q :
        LET new == { q \in Consequences(nfa, p[1], p[2]) \ incompatible : q[1] < q[2] }
        IN  /\ incompatible' = incompatible \cup new
            /\ Q' = (Q \ {p}) \cup new
            /\ UNCHANGED nfa

\* Mutant of Pop: the pair is pushed back.
Pop_Again ==
    \E p \in Q :
        LET new == { q \in Consequences(nfa, p[1], p[2]) \ incompatible : q[1] < q[2] }
        IN  /\ incompatible' = incompatible \cup new \cup { <<q[2], q[1]>> : q \in new }
            /\ Q' = Q \cup new
            /\ UNCHANGED nfa

\* One turn of the loop.  p1 and p2 run upwards over could_active, so that a
\* new pair is pushed in ascending order.
Pop ==
    \E p \in Q :
        LET new == { q \in Consequences(nfa, p[1], p[2]) \ incompatible : q[1] < q[2] }
        IN  /\ incompatible' = incompatible \cup new \cup { <<q[2], q[1]>> : q \in new }
            /\ Q' = (Q \ {p}) \cup new
            /\ UNCHANGED nfa

Done == Q = {}
PairsEnded == Done /\ UNCHANGED pairsVars

PairsNext == Pop \/ PairsEnded

PairsSpec == PairsInit /\ [][PairsNext]_pairsVars

\* The loop is sequential code: it goes on while the queue has a pair.
PairsFairSpec == PairsSpec /\ WF_pairsVars(Pop)
-----------------------------------------------------------------------------
\* The types of the matrix and of the queue; a queued pair is in the matrix.
PairsOK ==
    /\ nfa \in Networks
    /\ incompatible \subseteq Sids(nfa) \X Sids(nfa)
    /\ Q \subseteq incompatible

\* The matrix is symmetric, as MyGraph1 takes it to be, and has the initial
\* pairs.
Symmetric ==
    /\ \A p \in incompatible : <<p[2], p[1]>> \in incompatible
    /\ Initial(nfa) \subseteq incompatible

\* A pair that is in the queue in neither order has been worked off.
Frontier ==
    \A p \in incompatible :
        \/ p \in Q
        \/ <<p[2], p[1]>> \in Q
        \/ Consequences(nfa, p[1], p[2]) \subseteq incompatible

\* What every turn of the loop keeps: the matrix is symmetric, has the initial
\* pairs, and each pair in it is queued or worked off.
IInv == PairsOK /\ Symmetric /\ Frontier

\* When the queue is empty the matrix is closed.
Closed == Done => ClosedUnder(nfa, incompatible)

\* The active states after each prefix of input.
ActiveAt(n, input) ==
    LET active[k \in 0 .. Len(input)] ==
            IF k = 0 THEN n.start ELSE Activate(n, active[k - 1], input[k])
    IN  active

\* The matrix has every pair of states that some input activates together; on
\* all inputs of up to InputBound symbols.
InputBound == 3
Streams == UNION { [1 .. k -> Symbol] : k \in 0 .. InputBound }

TogetherIncompatible ==
    Done => \A input \in Streams : \A k \in 0 .. Len(input) :
                LET A == ActiveAt(nfa, input)[k] IN A \X A \subseteq incompatible

\* The analysis ends.
PairsTerminate == <>Done
=============================================================================
