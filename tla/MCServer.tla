------------------------------ MODULE MCServer ------------------------------
(* One key, of an operator of one queue.                                   *)
EXTENDS Server, TLC

CONSTANTS c1, c2

MCKey == [k |-> [scopes |-> Scopes, every |-> FALSE, queues |-> {"mail"}]]

Ask(route) == [route |-> route, key |-> "k", queue |-> "mail", form |-> "ok"]

MCRequests == [replay |-> Ask("replay"),
               batch  |-> Ask("enqueueBatch"),
               watch  |-> Ask("events"),
               ready  |-> [Ask("ready") EXCEPT !.key = "none"]]
=============================================================================
