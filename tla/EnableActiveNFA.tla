--------------------------- MODULE EnableActiveNFA --------------------------
(***************************************************************************)
(* What a run of the GPU engines promises: every thread block, one per     *)
(* group of connected components and input stream, reads its stream one    *)
(* symbol at a time, and each symbol moves the whole enabled set at once.  *)
(* Blocks are independent and advance in any order.                        *)
(***************************************************************************)
EXTENDS HomogeneousNFA

CONSTANTS Group,    \* indices of grouped_nfas (blockIdx.x)
          Stream,   \* indices of symbol_streams (blockIdx.y)
          Jobs      \* the inputs of a run: [nfa : Group -> network,
                    \*                       input : Stream -> symbols]

VARIABLES job,      \* the run's networks and streams
          position, \* symbols consumed, per block
          enabled,  \* enabled states, per block
          reports   \* <<block, offset, sid>> reported so far

vars == <<job, position, enabled, reports>>

Block == Group \X Stream
nfa(b)   == job.nfa[b[1]]
input(b) == job.input[b[2]]

Init ==
    /\ job \in Jobs
    /\ position = [b \in Block |-> 0]
    /\ enabled = [b \in Block |-> nfa(b).start]
    /\ reports = {}

\* Block b consumes its next symbol.
Consume(b) ==
    LET c == input(b)[position[b] + 1]
    IN  /\ position[b] < Len(input(b))
        /\ position' = [position EXCEPT ![b] = @ + 1]
        /\ enabled' = [enabled EXCEPT ![b] = NextEnabled(nfa(b), @, c)]
        /\ reports' = reports \cup
             { <<b, position[b], s>> : s \in Reporting(nfa(b), enabled[b], c) }
        /\ UNCHANGED job

Next == \E b \in Block : Consume(b)

Spec == Init /\ [][Next]_vars
=============================================================================
