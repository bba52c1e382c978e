------------------------------ MODULE JobTable ------------------------------
(***************************************************************************)
(* The job table of one queue, and every SQL statement that writes it.     *)
(*                                                                         *)
(* Each statement is one implicit transaction, so it is one atomic step.   *)
(* The clock is abstracted to what a row can tell: whether its run_at has  *)
(* passed and whether its lease has.  Both only ever depend on the         *)
(* database clock, so they are flags that the two clock actions set.       *)
(*                                                                         *)
(* The callers are not modelled here: a report may carry any worker id and *)
(* any attempt number, which is what a stale process sends.                *)
(***************************************************************************)
EXTENDS Naturals, FiniteSets

CONSTANTS Job,              \* job ids
          Worker,           \* worker ids: one per process incarnation
          NoWorker,         \* worker_id IS NULL
          MaxAttempts,      \* max_attempts
          Priority,         \* priority of each job
          PriorityAging,    \* the queue opted in to priority aging
          ClaimBatchMax,    \* LIMIT of a claim
          BatchMax,         \* LIMIT of a reap, prune or purge
          MaxErrorHistory,  \* the workers' MAX_ERROR_HISTORY
          MaxReplays        \* bound: how often one job is replayed

ASSUME TableAssumptions ==
  /\ NoWorker \notin Worker
  /\ MaxAttempts \in Nat \ {0}
  /\ Priority \in [Job -> Nat]
  /\ PriorityAging \in BOOLEAN
  /\ ClaimBatchMax \in Nat \ {0}
  /\ BatchMax \in Nat \ {0}
  /\ MaxErrorHistory \in Nat \ {0}
  /\ MaxReplays \in Nat

VARIABLES job,     \* the rows
          paused   \* queue_config.paused

tableVars == <<job, paused>>

Terminal == {"succeeded", "dead", "cancelled"}
Live     == {"available", "running"} \cup Terminal
States   == Live \cup {"absent", "deleted"}
Reasons  == {"none", "attempts_exhausted", "lease_expired", "non_retryable_error"}

\* One row.  "round" counts the replays of the row: no column holds it, it only
\* tells deliveries apart that the attempt counter does not.
Row == [ state       : States,
         attempt     : Nat,
         worker_id   : Worker \cup {NoWorker},
         due         : BOOLEAN,                    \* run_at <= now()
         lease       : {"null", "held", "expired"},\* lease_expires_at
         cancel      : BOOLEAN,                    \* cancel_requested_at IS NOT NULL
         dead_reason : Reasons,
         finished    : BOOLEAN,                    \* finished_at IS NOT NULL
         errors      : Nat,                        \* jsonb_array_length(errors)
         round       : Nat ]

NoRow == [ state |-> "absent", attempt |-> 0, worker_id |-> NoWorker,
           due |-> FALSE, lease |-> "null", cancel |-> FALSE,
           dead_reason |-> "none", finished |-> FALSE, errors |-> 0, round |-> 0 ]

TypeOK == /\ job \in [Job -> Row]
          /\ paused \in BOOLEAN

-----------------------------------------------------------------------------
(* What each statement's SET clause does to a row it selects.              *)

\* Mutants: drop the oldest entry but never append; append but never trim.
LoggedWithoutAppend(n, limit) == n - 1
LoggedWithoutTrim(n, limit) == n + 1

\* Trim-and-append of the errors array, with the given history limit.
Logged(n, limit) == (IF n >= limit THEN n - 1 ELSE n) + 1

\* reapExpiredLeases trims at a limit of its own, written in the statement.
ReapErrorHistory == 5

Inserted(r, isDue) == [r EXCEPT !.state = "available", !.due = isDue]

\* Mutant: the claim does not consume an attempt once one has been used.
ClaimedUncounted(r, w) == [r EXCEPT !.state = "running", !.worker_id = w, !.lease = "held",
                                    !.attempt = IF @ = 0 THEN 1 ELSE @]

Claimed(r, w) == [r EXCEPT !.state = "running", !.attempt = @ + 1,
                           !.worker_id = w, !.lease = "held"]

Completed(r) == [r EXCEPT !.state = "succeeded", !.finished = TRUE,
                          !.lease = "null", !.worker_id = NoWorker]

\* Mutant: the last permitted attempt is never made.
ExhaustedEarly(r) == r.attempt + 1 >= MaxAttempts

Exhausted(r) == r.attempt >= MaxAttempts

Failed(r, nonRetryable) ==
  LET dead == nonRetryable \/ Exhausted(r)
  IN  [r EXCEPT !.state       = IF dead THEN "dead" ELSE "available",
                !.dead_reason = IF nonRetryable THEN "non_retryable_error"
                                ELSE IF dead THEN "attempts_exhausted" ELSE "none",
                !.due         = IF dead THEN @ ELSE FALSE,
                !.finished    = dead,
                !.errors      = Logged(@, MaxErrorHistory),
                !.lease       = "null",
                !.worker_id   = NoWorker]

HeartBeaten(r) == [r EXCEPT !.lease = "held"]

Acknowledged(r) == [r EXCEPT !.state = "cancelled", !.dead_reason = "none",
                             !.finished = TRUE, !.lease = "null",
                             !.worker_id = NoWorker]

\* Mutant: the release forgets the owner.
ReleasedOwned(r) == [r EXCEPT !.state = "available", !.due = TRUE, !.lease = "null"]

Released(r) == [r EXCEPT !.state = "available", !.due = TRUE,
                         !.lease = "null", !.worker_id = NoWorker]

Reaped(r) ==
  LET dead == Exhausted(r)
  IN  [r EXCEPT !.state       = IF dead THEN "dead" ELSE "available",
                !.dead_reason = IF dead THEN "lease_expired" ELSE "none",
                !.due         = IF dead THEN @ ELSE FALSE,
                !.finished    = dead,
                !.errors      = Logged(@, ReapErrorHistory),
                !.lease       = "null",
                !.worker_id   = NoWorker]

Cancelled(r) == [r EXCEPT !.state = "cancelled", !.finished = TRUE]

CancelRequested(r) == [r EXCEPT !.cancel = TRUE]

RetriedNow(r) == [r EXCEPT !.due = TRUE]

Replayed(r) == [r EXCEPT !.state = "available", !.attempt = 0,
                         !.dead_reason = "none", !.due = TRUE,
                         !.finished = FALSE, !.round = @ + 1]

\* The id is never used again; attempt and round are kept for the history.
Deleted(r) == [NoRow EXCEPT !.state = "deleted", !.attempt = r.attempt,
                            !.round = r.round]

-----------------------------------------------------------------------------
(* The statements.                                                         *)

insertJob(j) ==
  /\ job[j].state = "absent"
  /\ \E isDue \in BOOLEAN : job' = [job EXCEPT ![j] = Inserted(@, isDue)]
  /\ UNCHANGED paused

\* Mutant: the claim does not look at the state of the row.
CandidatesOfAnyState ==
  {j \in Job : job[j].state \in {"available", "running"} /\ job[j].due /\ ~paused}

\* The rows the claim's WHERE clause admits.
Candidates == {j \in Job : job[j].state = "available" /\ job[j].due /\ ~paused}

\* S is what ORDER BY ... LIMIT ... SKIP LOCKED selects when the rows in
\* "locked" are held by other statements.  Rows of equal priority come in
\* run_at order, which the model does not keep; aging reorders all of them.
Selected(S, locked, limit) ==
  LET open == Candidates \ locked
  IN  /\ S \subseteq open
      /\ Cardinality(S) <= limit
      /\ Cardinality(S) < limit => S = open
      /\ PriorityAging \/ \A j \in S, k \in open \ S : Priority[k] <= Priority[j]

\* CHECK job_attempt_bounded: one selected row that has no attempt left makes
\* the whole statement fail, and the claim then writes nothing.
claimJobs(w, S, locked, limit) ==
  /\ S # {}
  /\ Selected(S, locked, limit)
  /\ \A j \in S : job[j].attempt < MaxAttempts
  /\ job' = [j \in Job |-> IF j \in S THEN Claimed(job[j], w) ELSE job[j]]
  /\ UNCHANGED paused

\* Mutant: half a fence.
FenceByWorker(j, w, a) == job[j].state = "running" /\ job[j].worker_id = w

\* THE OWNERSHIP FENCE
Fence(j, w, a) == /\ job[j].state = "running"
                  /\ job[j].worker_id = w
                  /\ job[j].attempt = a

completeJob(j, w, a) ==
  /\ Fence(j, w, a)
  /\ job' = [job EXCEPT ![j] = Completed(@)]
  /\ UNCHANGED paused

failJob(j, w, a, nonRetryable) ==
  /\ Fence(j, w, a)
  /\ job' = [job EXCEPT ![j] = Failed(@, nonRetryable)]
  /\ UNCHANGED paused

heartbeatJob(j, w, a) ==
  /\ Fence(j, w, a)
  /\ job' = [job EXCEPT ![j] = HeartBeaten(@)]
  /\ UNCHANGED paused

acknowledgeCancellation(j, w, a) ==
  /\ Fence(j, w, a)
  /\ job[j].cancel
  /\ job' = [job EXCEPT ![j] = Acknowledged(@)]
  /\ UNCHANGED paused

releaseJob(j, w, a) ==
  /\ Fence(j, w, a)
  /\ job' = [job EXCEPT ![j] = Released(@)]
  /\ UNCHANGED paused

\* Mutant: the reaper leaves out rows on their final attempt.
reapRetriableLeases(S) ==
  /\ S # {} /\ Cardinality(S) <= BatchMax
  /\ \A j \in S : /\ job[j].state = "running" /\ job[j].lease = "expired"
                  /\ job[j].attempt < MaxAttempts
  /\ job' = [j \in Job |-> IF j \in S THEN Reaped(job[j]) ELSE job[j]]
  /\ UNCHANGED paused

\* SKIP LOCKED lets the pass leave out any expired row.
reapExpiredLeases(S) ==
  /\ S # {} /\ Cardinality(S) <= BatchMax
  /\ \A j \in S : job[j].state = "running" /\ job[j].lease = "expired"
  /\ job' = [j \in Job |-> IF j \in S THEN Reaped(job[j]) ELSE job[j]]
  /\ UNCHANGED paused

cancelAvailableJob(j) ==
  /\ job[j].state = "available"
  /\ job' = [job EXCEPT ![j] = Cancelled(@)]
  /\ UNCHANGED paused

requestCancelRunningJob(j) ==
  /\ job[j].state = "running"
  /\ job' = [job EXCEPT ![j] = CancelRequested(@)]
  /\ UNCHANGED paused

retryJobNow(j) ==
  /\ job[j].state = "available"
  /\ job' = [job EXCEPT ![j] = RetriedNow(@)]
  /\ UNCHANGED paused

\* replayDeadJob is the case of one id.
replayDeadJobs(S) ==
  /\ S # {}
  /\ \A j \in S : job[j].state = "dead" /\ job[j].round < MaxReplays
  /\ job' = [j \in Job |-> IF j \in S THEN Replayed(job[j]) ELSE job[j]]
  /\ UNCHANGED paused

setQueuePaused(p) == paused' = p /\ UNCHANGED job

\* An operator purges whatever states he names, running included.
purgeQueue(states, S) ==
  /\ S # {} /\ Cardinality(S) <= BatchMax
  /\ \A j \in S : job[j].state \in states
  /\ job' = [j \in Job |-> IF j \in S THEN Deleted(job[j]) ELSE job[j]]
  /\ UNCHANGED paused

\* A finished row may be past its retention window at any time.
pruneTerminalJobs(S) ==
  /\ S # {} /\ Cardinality(S) <= BatchMax
  /\ \A j \in S : job[j].state \in Terminal /\ job[j].finished
  /\ job' = [j \in Job |-> IF j \in S THEN Deleted(job[j]) ELSE job[j]]
  /\ UNCHANGED paused

-----------------------------------------------------------------------------
(* The database clock.                                                     *)

RunAtPasses(j) ==
  /\ job[j].state = "available" /\ ~job[j].due
  /\ job' = [job EXCEPT ![j].due = TRUE]
  /\ UNCHANGED paused

LeaseLapses(j) ==
  /\ job[j].lease = "held"
  /\ job' = [job EXCEPT ![j].lease = "expired"]
  /\ UNCHANGED paused

-----------------------------------------------------------------------------
Init == job = [j \in Job |-> NoRow] /\ paused = FALSE

\* What producers, operators, retention and the clock do to the table.
AdminNext ==
  \/ \E j \in Job : \/ insertJob(j)
                    \/ cancelAvailableJob(j)
                    \/ requestCancelRunningJob(j)
                    \/ retryJobNow(j)
                    \/ RunAtPasses(j)
                    \/ LeaseLapses(j)
  \/ \E S \in SUBSET Job : \/ replayDeadJobs(S)
                           \/ purgeQueue(Live, S)
                           \/ pruneTerminalJobs(S)
  \/ \E p \in BOOLEAN : setQueuePaused(p)

\* What the workers do: claims, and reports that carry any fence.
ClaimNext ==
  \E w \in Worker, S, locked \in SUBSET Job, limit \in 1..ClaimBatchMax :
     claimJobs(w, S, locked, limit)

ReportNext ==
  \E j \in Job, w \in Worker, a \in 1..MaxAttempts :
     \/ completeJob(j, w, a)
     \/ \E nonRetryable \in BOOLEAN : failJob(j, w, a, nonRetryable)
     \/ heartbeatJob(j, w, a)
     \/ acknowledgeCancellation(j, w, a)
     \/ releaseJob(j, w, a)

ReaperNext == \E S \in SUBSET Job : reapExpiredLeases(S)

Next == AdminNext \/ ClaimNext \/ ReportNext \/ ReaperNext

Spec == Init /\ [][Next]_tableVars

-----------------------------------------------------------------------------
(* Properties.                                                             *)

\* No statement writes a row that the CHECK constraints of the schema reject,
\* except the claim that job_attempt_bounded stops: a running row, and only a
\* running row, has an owner and a lease; a dead row, and only a dead row, has
\* a reason; a terminal row, and only a terminal row, is finished; attempts
\* stay within the limit and a running row has used at least one.
RowPassesChecks(r) ==
  /\ (r.state = "running") <=> (r.worker_id # NoWorker)
  /\ (r.state = "running") <=> (r.lease # "null")
  /\ (r.state = "dead") <=> (r.dead_reason # "none")
  /\ (r.state \in Terminal) <=> r.finished
  /\ r.attempt <= MaxAttempts
  /\ r.state = "running" => r.attempt > 0
RowsPassChecks == \A j \in Job : RowPassesChecks(job[j])

\* failJob and reapExpiredLeases append to one errors array and trim it at
\* different lengths; together they still keep it within the larger of the two.
ErrorHistoryBounded ==
  \A j \in Job : job[j].errors <= ReapErrorHistory \/ job[j].errors <= MaxErrorHistory

\* Whatever the callers send, in whatever order, rows move only along the
\* transition table or are released, a claim consumes exactly one attempt of at
\* most MaxAttempts, only a replay gives attempts back, a row is retried after a
\* backoff while attempts remain, and is dead for the reason the table gives.
Lifecycle == INSTANCE JobLifecycle
               WITH state       <- [j \in Job |-> job[j].state],
                    attempt     <- [j \in Job |-> job[j].attempt],
                    dead_reason <- [j \in Job |-> job[j].dead_reason],
                    due         <- [j \in Job |-> job[j].due]
ImplementsLifecycle == Lifecycle!Spec
=============================================================================
