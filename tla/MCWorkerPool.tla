---------------------------- MODULE MCWorkerPool ----------------------------
(* Two queues and three jobs: two in the first queue, one in the second.   *)
EXTENDS WorkerPool, TLC

CONSTANTS j1, j2, j3

MCQueues  == <<"a", "b">>
MCQueueOf == (j1 :> "a") @@ (j2 :> "a") @@ (j3 :> "b")
=============================================================================
