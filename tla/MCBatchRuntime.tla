--------------------------- MODULE MCBatchRuntime ---------------------------
(* BatchRuntime with tasks of one worker, as the gateway starts them, and a  *)
(* single permit they contend for.                                           *)
EXTENDS BatchRuntime

\* The event loop runs a coroutine that is ready before the end_batch that a
\* driver's thread has yet to schedule.
ReadyFirst ==
    (\E t \in Tasks : EndBatch(t)) =>
        \A w \in Turns :
            /\ spc[w] # "acquire"
            /\ spc[w] = "queued" => permits = 0
=============================================================================
