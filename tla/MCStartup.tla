----------------------------- MODULE MCStartup ------------------------------
(* Two migrating processes of different releases, a worker and a server.    *)
EXTENDS Startup, TLC

CONSTANTS m1, m2, w1, s1

MCKind == (m1 :> "up") @@ (m2 :> "up") @@ (w1 :> "worker") @@ (s1 :> "server")

Newer == <<"a", "b">>
Older == <<"a">>
Edited == <<"x">>
MCBuild == (m1 :> Newer) @@ (m2 :> Edited) @@ (w1 :> Newer) @@ (s1 :> Older)

Plain == [set |-> <<>>, databaseUrl |-> TRUE, production |-> FALSE, apiBootstrapKey |-> "none",
          logPayloads |-> FALSE, jitter |-> "full", enabled |-> {"reaper"}]
\* No initial delay, and growth that overflows within the attempts.
Steep == [Plain EXCEPT !.set = [backoffInitialMs |-> 0, backoffMultiplier |-> 100,
                                defaultMaxAttempts |-> 8],
                       !.jitter = "equal"]
\* A ceiling below the first delay.
Inverted == [Plain EXCEPT !.set = [backoffMaxMs |-> 500]]
MCEnvironment == [plain |-> Plain, steep |-> Steep, inverted |-> Inverted]
MCMayHave == (m1 :> {"plain"}) @@ (m2 :> {"plain"})
             @@ (w1 :> {"steep", "inverted"}) @@ (s1 :> {"plain"})
=============================================================================
