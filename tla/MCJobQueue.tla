----------------------------- MODULE MCJobQueue -----------------------------
(* Instances of JobQueue for TLC.                                          *)
EXTENDS JobQueue

CONSTANTS j1, j2, w1, w2

\* All jobs of one priority: the order of claims is then free.
MCPriority == [j \in Job |-> 0]
=============================================================================
