---------------------------- MODULE MCScheduler -----------------------------
(* Instances of Scheduler: a schedule whose expression runs out and one that  *)
(* goes on; the second instance's clock may lag.                              *)
EXTENDS Scheduler, TLC
CONSTANTS s1, s2, i1, i2
MCOccurrences  == (s1 :> {1, 3, 5}) @@ (s2 :> {2})
MCSkew         == (i1 :> 0) @@ (i2 :> -1)
=============================================================================
