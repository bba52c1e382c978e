---------------------------- MODULE MCRetention -----------------------------
(* Two jobs in two queues, one of which has windows of its own; an        *)
(* instance whose clock lags and one whose clock is ahead.                  *)
EXTENDS Retention, TLC

CONSTANTS j1, j2, i1, i2

MCQueueOf     == (j1 :> "mail") @@ (j2 :> "bulk")
MCOutcomes    == (j1 :> {"dead"}) @@ (j2 :> {"succeeded"})
MCQueueConfig == "bulk" :> [succeeded |-> 0, dead |-> 0]
MCDefaults    == [succeeded |-> 0, dead |-> 1]
MCSkew        == (i1 :> -1) @@ (i2 :> 1)
=============================================================================
