---------------------------- MODULE MCTaskBridge ----------------------------
(* Two agents for TLC: what their models may ask for.                      *)
EXTENDS TaskBridgeProperties, TLC

CONSTANTS a1, a2

\* One agent talks, or calls a tool there is not and then runs the program; the other edits a
\* file or runs the program too.
EditAgainstRun ==
    (a1 :> {<<>>, <<"other", "run_program">>})
        @@ (a2 :> {<<"edit_file">>, <<"run_program">>})

\* The loop thread overtakes the main thread's _setup_connection() in the first agent only: what
\* it can do then is the same for each.
SecondConnectsFirst ==
    setup[a2] \in {"on_init", "queues", "connecting"} => loop[a2] = "top"
=============================================================================
