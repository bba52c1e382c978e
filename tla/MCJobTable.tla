----------------------------- MODULE MCJobTable -----------------------------
(* Instances of JobTable for TLC: two jobs of different priority.          *)
EXTENDS JobTable

CONSTANTS j1, j2, w1, w2

\* j2 goes first whenever both can be claimed.
MCPriority == [j \in {j1, j2} |-> IF j = j1 THEN 0 ELSE 1]
=============================================================================
