------------------------------ MODULE Startup -------------------------------
(***************************************************************************)
(* The processes of a deployment from their start to their exit: the       *)
(* migration command, workers, API servers and embedded runtimes, each of  *)
(* some release, on one database that is unreachable at times.             *)
(*                                                                         *)
(* A process reads its configuration, waits for the database, and then     *)
(* migrates it or checks that it has been migrated; a second migrating     *)
(* process is not kept out by any lock.  After that the background loops   *)
(* run until a signal, and are stopped in a given order.                   *)
(***************************************************************************)
EXTENDS Integers, Sequences, FiniteSets, FiniteSetsExt, Config, Backoff

CONSTANTS Process,
          Kind,         \* what each process runs
          Build,        \* the migrations of its release: version -> checksum
          Environment,  \* environments, by name
          MayHave,      \* the ones each process may be started with
          Outages,      \* how the database may be unreachable
          MaxAttempts,  \* maxAttempts of waitForDatabase
          MaxOutages,   \* bound
          MaxDeaths     \* bound: processes killed, queries failed

Kinds == {"up", "status", "worker", "server", "runtime"}
Outage == {"starting", "stopping", "refused", "denied"}

ASSUME StartupAssumptions ==
  /\ IsFiniteSet(Process)
  /\ Kind \in [Process -> Kinds]
  /\ \A e \in DOMAIN Environment : IsEnvironment(Environment[e])
  /\ \A p \in Process : /\ MayHave[p] # {} /\ MayHave[p] \subseteq DOMAIN Environment
                        /\ IsFiniteSet(DOMAIN Build[p]) /\ DOMAIN Build[p] \subseteq Nat \ {0}
                        /\ DOMAIN Build[p] # {}
  /\ Outages \subseteq Outage
  /\ MaxAttempts \in Nat \ {0}
  /\ MaxOutages \in Nat /\ MaxDeaths \in Nat

\* A release has every migration below its newest one.  assertSchemaCurrent
\* compares the newest version only and would not see a gap (migrate.ts:188).
ASSUME BuildsHaveNoGaps ==
  \A p, q \in Process : \A v \in DOMAIN Build[p], w \in DOMAIN Build[q] :
    w < v => w \in DOMAIN Build[p]

VARIABLES database,   \* "up", or the way it is unreachable
          applied,    \* pgjobq_migration: version -> checksum
          committed,  \* the versions whose DDL was committed, in order (history)
          bootstrap,  \* the api_key row of the bootstrap key exists
          env,        \* the environment of each process
          proc,       \* the processes
          outages,    \* outages left
          deaths      \* kills and failures left

startupVars == <<database, applied, committed, bootstrap, env, proc, outages, deaths>>

\* pending are the migrations to apply, loops the loops that run; error is what waitForDatabase met last.
Points == {"boot", "ping", "read", "apply", "bootstrap", "serving",
           "pool", "loops", "close", "exit0", "exit1", "killed"}

StartupTypeOK ==
  /\ database \in {"up"} \cup Outages
  /\ DOMAIN applied \subseteq UNION {DOMAIN Build[p] : p \in Process}
  /\ committed \in Seq(Nat)
  /\ bootstrap \in BOOLEAN
  /\ \A p \in Process : env[p] \in MayHave[p]
  /\ \A p \in Process :
       /\ proc[p].at \in Points
       /\ proc[p].attempt \in 1..MaxAttempts
       /\ proc[p].error \in {"none"} \cup Outages
       /\ proc[p].pending \subseteq DOMAIN Build[p]
       /\ proc[p].loops \subseteq {"pool"} \cup Loops
  /\ outages \in 0..MaxOutages
  /\ deaths \in 0..MaxDeaths

Booting == [at |-> "boot", attempt |-> 1, error |-> "none", pending |-> {}, loops |-> {}]
Over(p) == proc[p].at \in {"exit0", "exit1", "killed"}

Set(p, r) == proc' = [proc EXCEPT ![p] = r]
Goto(p, at) == Set(p, [proc[p] EXCEPT !.at = at])
Exit(p, at) == Set(p, [Booting EXCEPT !.at = at])
DatabaseUnchanged == UNCHANGED <<database, applied, committed, bootstrap, env, outages>>

-----------------------------------------------------------------------------
(* waitForDatabase.                                                        *)

\* What the driver throws: the server's code, or the one Node gives its own errors.
DriverError == [starting |-> "57P03", stopping |-> "57P01",
                refused |-> "ECONNREFUSED", denied |-> "28P01"]

\* A code, whoever gave it, decides alone; the message is read only when there is none.
isTransientDbError(code) == code \in {"40001", "40P01", "57P01", "57P03"}

AcceptedEnvironments == {e \in DOMAIN Environment : loadConfig(Environment[e])}
Accepted(p) == env[p] \in AcceptedEnvironments

LoadConfig(p) ==
  /\ proc[p].at = "boot"
  /\ IF Accepted(p) THEN Goto(p, "ping") ELSE Exit(p, "exit1")
  /\ DatabaseUnchanged /\ UNCHANGED deaths

\* One attempt; the sleep after it is the time to the next.
Ping(p) ==
  /\ proc[p].at = "ping"
  /\ IF database = "up" THEN Set(p, [Booting EXCEPT !.at = "read"])
     ELSE IF isTransientDbError(DriverError[database]) /\ proc[p].attempt < MaxAttempts
     THEN Set(p, [proc[p] EXCEPT !.attempt = @ + 1, !.error = database])
     ELSE Set(p, [proc[p] EXCEPT !.at = "exit1", !.error = database])
  /\ DatabaseUnchanged /\ UNCHANGED deaths

-----------------------------------------------------------------------------
(* Migrations.                                                             *)

latestVersion(versions) == IF versions = {} THEN 0 ELSE Max(versions)
\* Mutant: an applied migration is not compared with its file.
Unchecked(p) == FALSE

Changed(p) == \E v \in DOMAIN Build[p] \cap DOMAIN applied : applied[v] # Build[p][v]
Pending(p) == DOMAIN Build[p] \ DOMAIN applied

\* Mutant: any database that has been migrated will do.
assertSchemaKnown(p) == applied # <<>>

assertSchemaCurrent(p) == latestVersion(DOMAIN applied) = latestVersion(DOMAIN Build[p])

LoopsOf(p) == CASE Kind[p] = "worker"  -> (Environment[env[p]].enabled \ {"scheduler"}) \cup {"pool"}
                [] Kind[p] = "server"  -> Environment[env[p]].enabled
                [] Kind[p] = "runtime" -> Environment[env[p]].enabled \cup {"pool"}

\* No await separates the loops from the check that precedes them.
Serve(p) == Set(p, [proc[p] EXCEPT !.at = "serving", !.loops = LoopsOf(p)])

\* Mutant: the refusal is an orderly end.
RefuseQuietly(p) == Exit(p, "exit0")

Refuse(p) == Exit(p, "exit1")

\* getApplied, and what the process makes of the rows.  That the table is created
\* first makes no difference to them.
ReadApplied(p) ==
  /\ proc[p].at = "read" /\ database = "up"
  /\ CASE Kind[p] = "up" ->
            IF Changed(p) THEN Exit(p, "exit1")
            ELSE IF Pending(p) = {} THEN Exit(p, "exit0")
            ELSE Set(p, [proc[p] EXCEPT !.at = "apply", !.pending = Pending(p)])
       [] Kind[p] = "status" -> Exit(p, "exit0")
       [] Kind[p] \in {"worker", "server", "runtime"} ->
            IF ~assertSchemaCurrent(p) THEN Refuse(p)
            ELSE IF Kind[p] = "server" THEN Goto(p, "bootstrap") ELSE Serve(p)
  /\ DatabaseUnchanged /\ UNCHANGED deaths

\* Mutant: the files are taken in the order of the directory.
FirstOf(S) == Max(S)

NextMigration(S) == Min(S)

\* withTransaction: the DDL and the row, or neither.  A version that another
\* process has applied since fails on its objects or on the primary key.
Commit(p, v) ==
  /\ v \notin DOMAIN applied
  /\ applied' = [w \in DOMAIN applied \cup {v} |-> IF w = v THEN Build[p][v] ELSE applied[w]]
  /\ committed' = Append(committed, v)

Apply(p) ==
  /\ proc[p].at = "apply" /\ database = "up"
  /\ LET v    == NextMigration(proc[p].pending)
         rest == proc[p].pending \ {v}
     IN \/ v \in DOMAIN applied /\ Exit(p, "exit1") /\ UNCHANGED <<applied, committed>>
        \/ /\ Commit(p, v)
           /\ IF rest = {} THEN Exit(p, "exit0")
              ELSE Set(p, [proc[p] EXCEPT !.pending = rest])
  /\ UNCHANGED <<database, bootstrap, env, outages, deaths>>

-----------------------------------------------------------------------------
(* Serving, and the shutdown.                                              *)

\* A bootstrap key is registered once; without one the server just warns.
ensureBootstrapKey(p) ==
  /\ proc[p].at = "bootstrap" /\ database = "up"
  /\ bootstrap' = (bootstrap \/ Environment[env[p]].apiBootstrapKey # "none")
  /\ Serve(p)
  /\ UNCHANGED <<database, applied, committed, env, outages, deaths>>

Draining(p) == proc[p].at \in {"pool", "loops", "close"}

\* Where the shutdown waits while these loops still run.
Awaits(loops) == CASE "pool" \in loops -> "pool"
                   [] "pool" \notin loops /\ loops # {} -> "loops"
                   [] loops = {} -> "close"

\* SIGTERM, SIGINT or an unhandled rejection; the second one exits at once.
Signal(p) ==
  /\ \/ proc[p].at = "serving" /\ Goto(p, Awaits(proc[p].loops))
     \/ Draining(p) /\ Exit(p, "exit1")
  /\ DatabaseUnchanged /\ UNCHANGED deaths

\* pool.stop() first, then the loops side by side.
LoopEnds(p, l) ==
  /\ l \in proc[p].loops
  /\ proc[p].at = IF l = "pool" THEN "pool" ELSE "loops"
  /\ LET rest == proc[p].loops \ {l}
     IN Set(p, [proc[p] EXCEPT !.loops = rest, !.at = Awaits(rest)])
  /\ DatabaseUnchanged /\ UNCHANGED deaths

Close(p) ==
  /\ proc[p].at = "close"
  /\ Exit(p, "exit0")
  /\ DatabaseUnchanged /\ UNCHANGED deaths

-----------------------------------------------------------------------------
(* Faults, and the restart policy around the processes.                    *)

\* A query of the start sequence fails, or it is executed and its answer is lost.
QueryFails(p) ==
  /\ proc[p].at \in {"read", "apply", "bootstrap"}
  /\ deaths > 0 \/ database # "up"
  /\ deaths' = IF database = "up" THEN deaths - 1 ELSE deaths
  /\ Exit(p, "exit1")
  /\ \/ UNCHANGED <<applied, committed>>
     \/ proc[p].at = "apply" /\ Commit(p, NextMigration(proc[p].pending))
  /\ UNCHANGED <<database, bootstrap, env, outages>>

Die(p) ==
  /\ ~Over(p) /\ deaths > 0
  /\ deaths' = deaths - 1
  /\ Exit(p, "killed")
  /\ DatabaseUnchanged

Restart(p) ==
  /\ proc[p].at \in {"exit1", "killed"}
  /\ Set(p, Booting)
  /\ DatabaseUnchanged /\ UNCHANGED deaths

OutageBegins(o) ==
  /\ database = "up" /\ outages > 0
  /\ database' = o /\ outages' = outages - 1
  /\ UNCHANGED <<applied, committed, bootstrap, env, proc, deaths>>

OutageEnds ==
  /\ database # "up"
  /\ database' = "up"
  /\ UNCHANGED <<applied, committed, bootstrap, env, proc, outages, deaths>>

-----------------------------------------------------------------------------
StartupInit ==
  /\ database = "up"
  /\ applied = <<>>
  /\ committed = <<>>
  /\ bootstrap = FALSE
  /\ env \in {e \in [Process -> DOMAIN Environment] : \A p \in Process : e[p] \in MayHave[p]}
  /\ proc = [p \in Process |-> Booting]
  /\ outages = MaxOutages
  /\ deaths = MaxDeaths

Progress(p) == \/ LoadConfig(p) \/ Ping(p) \/ ReadApplied(p) \/ Apply(p)
               \/ ensureBootstrapKey(p) \/ QueryFails(p) \/ Close(p)
               \/ \E l \in proc[p].loops : LoopEnds(p, l)

StartupNext ==
  \/ \E p \in Process : Progress(p) \/ Signal(p) \/ Die(p) \/ Restart(p)
  \/ \E o \in Outages : OutageBegins(o)
  \/ OutageEnds

StartupSpec == StartupInit /\ [][StartupNext]_startupVars

\* A process that is up goes on: queries settle, sleeps end and loops that are
\* stopped return.  Something restarts a process that failed.
StartupFairness == \A p \in Process : WF_startupVars(Progress(p) \/ Restart(p))

FairStartupSpec == StartupSpec /\ StartupFairness

-----------------------------------------------------------------------------
(* Properties.                                                             *)

Serving(p) == proc[p].at = "serving" \/ Draining(p)

\* No process serves on a schema that lacks a migration of its release
\* ("Refusing to serve", migrate.ts:165-200), whoever migrates meanwhile.
ServesMigratedSchema ==
  \A p \in Process : Serving(p) => DOMAIN Build[p] \subseteq DOMAIN applied

\* Each migration is committed once and after the ones before it, however many
\* processes migrate at the same time (migrate.ts:129-152), and the table of
\* versions says what was done.
MigratedInOrder ==
  /\ \A i, k \in 1..Len(committed) : i < k => committed[i] < committed[k]
  /\ {committed[i] : i \in 1..Len(committed)} = DOMAIN applied

\* migrate up reports success only when the database has its release's text of
\* every migration (migrate.ts:115-127).
SuccessMeansMigrated ==
  \A p \in Process : Kind[p] = "up" /\ proc[p].at = "exit0" =>
    \A v \in DOMAIN Build[p] : v \in DOMAIN applied /\ applied[v] = Build[p][v]

\* The environments whose retry schedule is as it should be.
Orderly(delays, maxMs) ==
  \A a \in DOMAIN delays :
    /\ 0 <= delays[a].least /\ delays[a].least <= delays[a].most
    /\ delays[a].most <= maxMs
    /\ a + 1 \in DOMAIN delays => delays[a].most <= delays[a + 1].most
OrderlyEnvironments ==
  {e \in DOMAIN Environment :
     LET set == Environment[e]
     IN Orderly(describeSchedule(Value(set, "defaultMaxAttempts"), backoffOf(set)),
                Value(set, "backoffMaxMs"))}

\* With a configuration that loadConfig accepts, retry delays never shrink from
\* one attempt to the next and stay within the ceiling, also where the
\* exponential overflows (backoff.ts:27-35, config.ts:170).
DelaysWithinCeiling == \A p \in Process : Serving(p) => env[p] \in OrderlyEnvironments

\* A process that cannot reach the database gives up only after all its attempts:
\* it "should report unhealthy and keep trying, not exit immediately"
\* (db.ts:242-244).  A wrong password is not an outage.
OutageIsWaitedOut ==
  \A p \in Process :
    proc[p].at = "exit1" /\ proc[p].error \in {"starting", "stopping", "refused"} =>
      proc[p].attempt = MaxAttempts

Newest(p) == \A q \in Process : DOMAIN Build[q] \subseteq DOMAIN Build[p]

\* A deployment comes up by itself: once the database stays up, restarts bring
\* every worker and server of the newest release to the end of its start, although
\* migrating processes make each other fail and old releases are refused for ever.
\* An edited migration that was applied first, or a rejected environment, needs an operator.
DeploymentConverges ==
  \A p \in Process :
    /\ Kind[p] \in {"worker", "server", "runtime"}
    /\ Newest(p)
    => (<>[](database = "up") => <>(Serving(p) \/ Changed(p) \/ ~Accepted(p)))
=============================================================================
