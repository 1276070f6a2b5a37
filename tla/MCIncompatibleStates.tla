------------------------ MODULE MCIncompatibleStates ------------------------
(* Components of four states for IncompatibleStates. *)
EXTENDS IncompatibleStates, TLC

TwoIds == {"p", "q"}
AB == {"a", "b"}

\* State 0 is the clone that starts 1; 1, 2 and 3 enable each other and the
\* last may report.
Components ==
    { [size |-> 4, edges |-> 0 :> {1} @@ 1 :> e1 @@ 2 :> e2 @@ 3 :> e3,
       symbol_set |-> 0 :> {"a"} @@ 1 :> {"a"} @@ 2 :> {"a", "b"} @@ 3 :> {"b"},
       start |-> {0}, always |-> always, report |-> report,
       original_id |-> 0 :> "p" @@ 1 :> "p" @@ 2 :> "q" @@ 3 :> "q"] :
        e1 \in {{2}, {3}, {2, 3}}, e2 \in {{}, {1}, {2, 3}}, e3 \in {{}, {1}, {2}},
        always \in {{}, {0}}, report \in {{}, {3}} }
=============================================================================
