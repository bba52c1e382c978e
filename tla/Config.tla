------------------------------- MODULE Config -------------------------------
(***************************************************************************)
(* Which environments a process accepts.  An environment gives numbers to  *)
(* some of the variables and sets the switches; a fraction is in percent,  *)
(* and a bootstrap key is only of a kind.                                  *)
(***************************************************************************)
EXTENDS Integers

int(min, max, default) == [min |-> min, max |-> max, default |-> default]

configSchema ==
  [dbPoolMax               |-> int(1, 500, 10),
   dbPoolMin               |-> int(0, 500, 0),
   dbStatementTimeoutMs    |-> int(100, 600000, 10000),
   dbConnectTimeoutMs      |-> int(100, 120000, 10000),
   workerConcurrency       |-> int(1, 10000, 10),
   workerClaimBatchMax     |-> int(1, 1000, 20),
   workerPollIntervalMs    |-> int(10, 300000, 1000),
   workerJobTimeoutMs      |-> int(100, 86400000, 300000),
   workerShutdownGraceMs   |-> int(0, 600000, 30000),
   workerHeartbeatFraction |-> int(5, 90, 50),
   defaultMaxAttempts      |-> int(1, 1000, 5),
   defaultLeaseSeconds     |-> int(1, 86400, 30),
   maxPayloadBytes         |-> int(1, 10485760, 262144),
   backoffInitialMs        |-> int(0, 3600000, 1000),
   backoffMultiplier       |-> int(1, 100, 2),
   backoffMaxMs            |-> int(0, 604800000, 3600000),
   maxErrorHistory         |-> int(1, 100, 5),
   maxErrorTextBytes       |-> int(64, 1048576, 4096),
   reaperIntervalMs        |-> int(100, 3600000, 5000),
   reaperBatchMax          |-> int(1, 100000, 1000),
   schedulerIntervalMs     |-> int(100, 3600000, 5000),
   schedulerBatchMax       |-> int(1, 10000, 100),
   retentionIntervalMs     |-> int(1000, 86400000, 60000),
   retentionBatchMax       |-> int(1, 100000, 1000),
   port                    |-> int(1, 65535, 3000),
   rateLimitWindowMs       |-> int(1000, 3600000, 60000),
   rateLimitMax            |-> int(1, 1000000, 600),
   sseMaxSubscribers       |-> int(1, 10000, 50)]

Fields == DOMAIN configSchema
Loops  == {"reaper", "scheduler", "retention"}

\* set is what the environment sets; enabled the loops it leaves enabled.
IsEnvironment(env) ==
  /\ DOMAIN env.set \subseteq Fields /\ env.set \in [DOMAIN env.set -> Int]
  /\ env.databaseUrl \in BOOLEAN
  /\ env.production \in BOOLEAN
  /\ env.apiBootstrapKey \in {"none", "short", "placeholder", "random"}
  /\ env.logPayloads \in BOOLEAN
  /\ env.jitter \in {"none", "equal", "full"}
  /\ env.enabled \subseteq Loops

Value(env, f) == IF f \in DOMAIN env.set THEN env.set[f] ELSE configSchema[f].default

Parses(env) ==
  /\ env.databaseUrl
  /\ \A f \in Fields : configSchema[f].min <= Value(env, f) /\ Value(env, f) <= configSchema[f].max

\* No problem spans two fields.
validateCrossField(env) ==
  /\ Value(env, "dbPoolMin") <= Value(env, "dbPoolMax")
  /\ Value(env, "backoffInitialMs") <= Value(env, "backoffMaxMs")
  /\ Value(env, "workerConcurrency") <= Value(env, "dbPoolMax") * 10
  /\ LET leaseMs == Value(env, "defaultLeaseSeconds") * 1000
     IN (leaseMs \div 100) * Value(env, "workerHeartbeatFraction") < leaseMs
  /\ env.production => env.apiBootstrapKey = "random" /\ ~env.logPayloads

loadConfig(env) == Parses(env) /\ validateCrossField(env)

backoffOf(env) == [initialMs  |-> Value(env, "backoffInitialMs"),
                   multiplier |-> Value(env, "backoffMultiplier"),
                   maxMs      |-> Value(env, "backoffMaxMs"),
                   jitter     |-> env.jitter]
=============================================================================
