----------------------------- MODULE Retention ------------------------------
(***************************************************************************)
(* The retention loops of the server instances: the batches that delete    *)
(* finished jobs or move them to job_archive, and the monthly partitions   *)
(* of that table.                                                          *)
(*                                                                         *)
(* now is the clock of the database, which decides what is old enough and  *)
(* into which partition a row goes.  Partitions are created from the       *)
(* instance's own clock, off by Skew.  A statement may fail, or commit and *)
(* lose its response; both end the pass in the catch block.                *)
(***************************************************************************)
EXTENDS Integers, FiniteSets

CONSTANTS Job,
          Instance,
          Archive,       \* opts.archive
          BatchMax,      \* opts.batchMax
          QueueOf,       \* the queue of each job
          Outcomes,      \* how each job may end
          QueueConfig,   \* the windows of the queues that have a queue_config row
          Defaults,      \* the windows of the others
          MonthLength,   \* in units of time
          Skew,          \* how far the clock of an instance is off
          PassMax,       \* bound: how long a pass lasts from ensurePartitions on
          MayStop,       \* instances that may be stopped
          MayFail,       \* instances whose queries may fail
          MaxTime        \* bound: the last moment of the model

Window == [succeeded : Nat, dead : Nat]
Finished == {"succeeded", "dead", "cancelled"}

ASSUME RetentionAssumptions ==
  /\ IsFiniteSet(Job)
  /\ Archive \in BOOLEAN
  /\ BatchMax \in Nat \ {0}
  /\ DOMAIN QueueConfig \subseteq STRING
  /\ QueueConfig \in [DOMAIN QueueConfig -> Window]
  /\ Defaults \in Window
  /\ QueueOf \in [Job -> STRING]
  /\ Outcomes \in [Job -> SUBSET Finished]
  /\ MonthLength \in Nat \ {0}
  /\ Skew \in [Instance -> Int]
  /\ PassMax \in Nat
  /\ MayStop \subseteq Instance /\ MayFail \subseteq Instance
  /\ MaxTime \in Nat

VARIABLES job,         \* the job rows: state and finished_at
          archive,     \* the rows of job_archive
          partitions,  \* the months that have a partition
          now,
          pass         \* per instance, where run() awaits

retentionVars == <<job, archive, partitions, now, pass>>

Month(t) == t \div MonthLength

Row == [state : Finished \cup {"live", "removed"}, finished_at : Nat]
Archived == [job : Job, state : Finished]
Awaits == {"current", "next", "prune", "health", "sleep", "ended"}

\* running is this.running, begun the moment ensurePartitions called new Date(),
\* by the clock of the database, kept while it matters.
Pass == [at : Awaits, running : BOOLEAN, begun : Nat]

RetentionTypeOK ==
  /\ job \in [Job -> Row]
  /\ archive \in SUBSET Archived
  /\ partitions \in SUBSET Int
  /\ now \in Nat
  /\ pass \in [Instance -> Pass]

-----------------------------------------------------------------------------
(* The statements.                                                         *)

\* COALESCE over the LEFT JOIN with queue_config.
WindowOf(j, state) ==
  LET w == IF QueueOf[j] \in DOMAIN QueueConfig THEN QueueConfig[QueueOf[j]] ELSE Defaults
  IN IF state = "dead" THEN w.dead ELSE w.succeeded

\* Mutant: the window runs from a column that unfinished rows have too.
VictimsOfAnyState == {j \in Job : /\ job[j].state # "removed"
                                  /\ job[j].finished_at < now - WindowOf(j, job[j].state)}

Victims == {j \in Job : /\ job[j].state \in Finished
                        /\ job[j].finished_at < now - WindowOf(j, job[j].state)}

\* ORDER BY finished_at LIMIT, without the rows others have locked.
Batch(S, locked) ==
  /\ S \subseteq Victims \ locked
  /\ \/ S = Victims \ locked /\ Cardinality(S) <= BatchMax
     \/ /\ Cardinality(S) = BatchMax
        /\ \A j \in S, k \in (Victims \ locked) \ S : job[j].finished_at <= job[k].finished_at

NoRow == [state |-> "removed", finished_at |-> 0]
Removed(S) == [j \in Job |-> IF j \in S THEN NoRow ELSE job[j]]

pruneTerminalJobs(S) == job' = Removed(S) /\ UNCHANGED archive

Copies(S) == {[job |-> j, state |-> job[j].state] : j \in S}

\* Mutant: the rows are copied by one statement and deleted by the next.
archiveInTwoSteps(S) == /\ archive' = archive \cup Copies(S)
                        /\ job' = Removed({j \in S : \E a \in archive : a.job = j})

\* DELETE ... RETURNING and INSERT ... SELECT in one statement.
archiveTerminalJobs(S) == job' = Removed(S) /\ archive' = archive \cup Copies(S)

\* A row whose archived_at is in no partition makes the statement fail.
HasPartition(S) == S = {} \/ Month(now) \in partitions

pruneOnce(S) == IF Archive THEN HasPartition(S) /\ archiveTerminalJobs(S)
                ELSE pruneTerminalJobs(S)

\* Mutant: the month is the current one, whatever the offset.
createCurrentPartition(i, offset) ==
  partitions' = partitions \cup {Month(pass[i].begun + Skew[i])}

\* CREATE TABLE IF NOT EXISTS; the name is that of the month.
createArchivePartition(i, offset) ==
  partitions' = partitions \cup {Month(pass[i].begun + Skew[i]) + offset}

-----------------------------------------------------------------------------
(* Retention.run of instance i.                                            *)

Busy(i) == pass[i].at \in {"current", "next", "prune"}

Goto(i, at) ==
  pass' = [pass EXCEPT ![i] =
             [at      |-> at,
              running |-> pass[i].running,
              begun   |-> IF at \in {"health", "sleep"} THEN 0 ELSE pass[i].begun]]

\* The head of the while loop, after a sleep.
Begin(i) ==
  /\ pass[i].at = "sleep"
  /\ pass' = [pass EXCEPT ![i] = [@ EXCEPT
                !.at    = CASE ~pass[i].running -> "ended"
                            [] pass[i].running /\ Archive -> "current"
                            [] pass[i].running /\ ~Archive -> "prune",
                !.begun = IF pass[i].running THEN now ELSE 0]]
  /\ UNCHANGED <<job, archive, partitions, now>>

\* ensurePartitions: the month of the instance's clock, then the one after.
ensurePartitions(i) ==
  /\ \/ pass[i].at = "current" /\ createArchivePartition(i, 0) /\ Goto(i, "next")
     \/ pass[i].at = "next" /\ createArchivePartition(i, 1)
        /\ Goto(i, IF pass[i].running THEN "prune" ELSE "health")
  /\ UNCHANGED <<job, archive, now>>

\* A batch that is not full ends the loop.
Prune(i, S) ==
  /\ pass[i].at = "prune"
  /\ \E locked \in SUBSET Victims : Batch(S, locked)
  /\ pruneOnce(S)
  /\ Goto(i, IF Cardinality(S) = BatchMax /\ pass[i].running THEN "prune" ELSE "health")
  /\ UNCHANGED <<partitions, now>>

\* Mutant: run() returns after its first pass.
reportHealthAndReturn(i) ==
  /\ pass[i].at = "health"
  /\ Goto(i, "ended")
  /\ UNCHANGED <<job, archive, partitions, now>>

reportHealth(i) ==
  /\ pass[i].at = "health"
  /\ Goto(i, "sleep")
  /\ UNCHANGED <<job, archive, partitions, now>>

\* The catch block: the statement was not applied, or its response was lost.
Fail(i) ==
  /\ pass[i].at \in {"current", "next", "prune", "health"}
  /\ Goto(i, "sleep")
  /\ \/ i \in MayFail /\ UNCHANGED <<job, archive>>
     \/ i \in MayFail /\ pass[i].at = "prune" /\ \E S \in SUBSET Victims : Batch(S, {}) /\ pruneOnce(S)
     \/ /\ pass[i].at = "prune" /\ Archive /\ ~HasPartition(Victims)
        /\ UNCHANGED <<job, archive>>
  /\ UNCHANGED <<partitions, now>>

Stop(i) ==
  /\ i \in MayStop /\ pass[i].running
  /\ pass' = [pass EXCEPT ![i].running = FALSE]
  /\ UNCHANGED <<job, archive, partitions, now>>

-----------------------------------------------------------------------------
(* The rest of the system, and the clock.                                  *)

Finish(j, state) ==
  /\ job[j].state = "live" /\ state \in Outcomes[j]
  /\ job' = [job EXCEPT ![j] = [state |-> state, finished_at |-> now]]
  /\ UNCHANGED <<archive, partitions, now, pass>>

replayDeadJob(j) ==
  /\ job[j].state = "dead"
  /\ job' = [job EXCEPT ![j] = [state |-> "live", finished_at |-> 0]]
  /\ UNCHANGED <<archive, partitions, now, pass>>

Elapse ==
  /\ now < MaxTime
  /\ \A i \in Instance : Busy(i) => now - pass[i].begun < PassMax
  /\ now' = now + 1
  /\ UNCHANGED <<job, archive, partitions, pass>>

-----------------------------------------------------------------------------
RetentionInit ==
  /\ job = [j \in Job |-> [state |-> "live", finished_at |-> 0]]
  /\ archive = {}
  /\ partitions = {}
  /\ now = 0
  /\ pass = [i \in Instance |-> [at |-> "sleep", running |-> TRUE, begun |-> 0]]

LoopStep(i) == \/ Begin(i) \/ ensurePartitions(i) \/ reportHealth(i) \/ Fail(i)
               \/ \E S \in SUBSET Job : Prune(i, S)

RetentionNext ==
  \/ \E i \in Instance : LoopStep(i) \/ Stop(i)
  \/ \E j \in Job, state \in Finished : Finish(j, state)
  \/ \E j \in Job : replayDeadJob(j)
  \/ Elapse

RetentionSpec == RetentionInit /\ [][RetentionNext]_retentionVars

\* Time passes and the loops go on; the lock of a row is not held for ever, so
\* an instance that deletes again and again gets at every victim.
RetentionFairness ==
  /\ WF_retentionVars(Elapse)
  /\ \A i \in Instance : WF_retentionVars(LoopStep(i))
  /\ \A i \in Instance \ (MayStop \cup MayFail), j \in Job :
       SF_retentionVars(\E S \in SUBSET Job : j \in S /\ Prune(i, S))

FairRetentionSpec == RetentionSpec /\ RetentionFairness

-----------------------------------------------------------------------------
(* Properties.                                                             *)

\* A job the loop removed is in the archive exactly once, and a job that is in
\* the archive is not in the table: neither a lost response nor a second
\* instance loses or doubles history (retention.sql.ts:58-65).
ArchivedExactlyOnce ==
  Archive => \A j \in Job :
    /\ Cardinality({a \in archive : a.job = j}) <= 1
    /\ (job[j].state = "removed") <=> (\E a \in archive : a.job = j)

\* An archival run does "not fail for want of a partition" (retention.ts:114-116)
\* when the month ends under it, as long as the clock of the instance is not
\* ahead and its lag and the length of the pass stay within a month.
PartitionAtHand ==
  \A i \in Instance : pass[i].at = "prune" /\ Archive /\ Skew[i] <= 0 =>
    Month(now) \in partitions

\* A job whose window has passed leaves the table or is replayed, however large
\* the backlog is and although an instance whose clock is ahead may lack the
\* partition of this month ("size must track BACKLOG, not history",
\* retention.ts:4-6).
BacklogDrains == \A j \in Job : j \in Victims ~> j \notin Victims

=============================================================================
