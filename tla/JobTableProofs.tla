--------------------------- MODULE JobTableProofs ---------------------------
(***************************************************************************)
(* Theorems about the job table, for every set of jobs and workers, every  *)
(* attempt limit and every sequence of statements.                         *)
(***************************************************************************)
EXTENDS JobTable, TLAPS

(* What each SET clause writes: a row again, and which columns it changes. *)
(* The counters are named before the record is built, because the provers  *)
(* do not mix arithmetic with record updates.                              *)

\* Appending to the trimmed history yields a length, and one that grows at
\* most to the limit.
LEMMA LoggedType ==
  ASSUME NEW n \in Nat, NEW limit \in Nat \ {0}
  PROVE  /\ Logged(n, limit) \in Nat
         /\ Logged(n, limit) <= limit \/ Logged(n, limit) <= n
BY DEF Logged

\* claimJobs consumes an attempt and names the owner.
LEMMA ClaimedRow ==
  ASSUME NEW r \in Row, NEW w \in Worker
  PROVE  /\ Claimed(r, w) \in Row
         /\ Claimed(r, w).state = "running"
         /\ Claimed(r, w).attempt = r.attempt + 1
         /\ Claimed(r, w).worker_id = w
         /\ Claimed(r, w).lease = "held"
         /\ Claimed(r, w).dead_reason = r.dead_reason
         /\ Claimed(r, w).due = r.due
         /\ Claimed(r, w).finished = r.finished
         /\ Claimed(r, w).errors = r.errors
         /\ Claimed(r, w).round = r.round
<1> DEFINE n == r.attempt + 1
<1>1. n \in Nat
  BY DEF Row
<1>2. Claimed(r, w) = [r EXCEPT !.state = "running", !.attempt = n,
                                !.worker_id = w, !.lease = "held"]
  BY DEF Claimed
<1> HIDE DEF n
<1>3. Claimed(r, w) \in Row /\ Claimed(r, w).attempt = n
  BY <1>1, <1>2 DEF Row, States, Live
<1> QED
  BY <1>2, <1>3 DEF Row, n

\* failJob takes the owner away and decides by the row's own counters between
\* another attempt and the dead letter.
LEMMA FailedRow ==
  ASSUME NEW r \in Row, NEW b \in BOOLEAN
  PROVE  /\ Failed(r, b) \in Row
         /\ Failed(r, b).state = IF b \/ r.attempt >= MaxAttempts THEN "dead" ELSE "available"
         /\ Failed(r, b).dead_reason = IF b THEN "non_retryable_error"
              ELSE IF r.attempt >= MaxAttempts THEN "attempts_exhausted" ELSE "none"
         /\ Failed(r, b).due = (r.due /\ (b \/ r.attempt >= MaxAttempts))
         /\ Failed(r, b).finished = (b \/ r.attempt >= MaxAttempts)
         /\ Failed(r, b).errors = Logged(r.errors, MaxErrorHistory)
         /\ Failed(r, b).lease = "null"
         /\ Failed(r, b).worker_id = NoWorker
         /\ Failed(r, b).attempt = r.attempt
         /\ Failed(r, b).round = r.round
<1> DEFINE e == Logged(r.errors, MaxErrorHistory)
           dead == b \/ r.attempt >= MaxAttempts
           why == IF b THEN "non_retryable_error"
                  ELSE IF dead THEN "attempts_exhausted" ELSE "none"
<1>1. e \in Nat
  BY LoggedType, TableAssumptions DEF Row
<1>2. dead \in BOOLEAN /\ why \in Reasons
  BY DEF Reasons
<1>3. Failed(r, b) = [r EXCEPT !.state       = IF dead THEN "dead" ELSE "available",
                               !.dead_reason = why,
                               !.due         = IF dead THEN @ ELSE FALSE,
                               !.finished    = dead,
                               !.errors      = e,
                               !.lease       = "null",
                               !.worker_id   = NoWorker]
  BY DEF Failed, Exhausted
<1> HIDE DEF e, dead, why
<1>4. /\ Failed(r, b) \in Row
      /\ Failed(r, b).state = IF dead THEN "dead" ELSE "available"
      /\ Failed(r, b).dead_reason = why
      /\ Failed(r, b).due = (r.due /\ dead)
      /\ Failed(r, b).finished = dead
      /\ Failed(r, b).errors = e
      /\ Failed(r, b).lease = "null"
      /\ Failed(r, b).worker_id = NoWorker
      /\ Failed(r, b).attempt = r.attempt
      /\ Failed(r, b).round = r.round
  BY <1>1, <1>2, <1>3 DEF Row, States, Live, Terminal, Reasons
<1> QED
  BY <1>4 DEF e, dead, why

\* reapExpiredLeases decides the same way, with a reason of its own.
LEMMA ReapedRow ==
  ASSUME NEW r \in Row
  PROVE  /\ Reaped(r) \in Row
         /\ Reaped(r).state = IF r.attempt >= MaxAttempts THEN "dead" ELSE "available"
         /\ Reaped(r).dead_reason = IF r.attempt >= MaxAttempts THEN "lease_expired" ELSE "none"
         /\ Reaped(r).due = (r.due /\ r.attempt >= MaxAttempts)
         /\ Reaped(r).finished = (r.attempt >= MaxAttempts)
         /\ Reaped(r).errors = Logged(r.errors, ReapErrorHistory)
         /\ Reaped(r).lease = "null"
         /\ Reaped(r).worker_id = NoWorker
         /\ Reaped(r).attempt = r.attempt
         /\ Reaped(r).round = r.round
<1> DEFINE e == Logged(r.errors, ReapErrorHistory)
           dead == r.attempt >= MaxAttempts
           why == IF dead THEN "lease_expired" ELSE "none"
<1>1. e \in Nat
  BY LoggedType DEF Row, ReapErrorHistory
<1>2. dead \in BOOLEAN /\ why \in Reasons
  BY DEF Reasons
<1>3. Reaped(r) = [r EXCEPT !.state       = IF dead THEN "dead" ELSE "available",
                            !.dead_reason = why,
                            !.due         = IF dead THEN @ ELSE FALSE,
                            !.finished    = dead,
                            !.errors      = e,
                            !.lease       = "null",
                            !.worker_id   = NoWorker]
  BY DEF Reaped, Exhausted
<1> HIDE DEF e, dead, why
<1>4. /\ Reaped(r) \in Row
      /\ Reaped(r).state = IF dead THEN "dead" ELSE "available"
      /\ Reaped(r).dead_reason = why
      /\ Reaped(r).due = (r.due /\ dead)
      /\ Reaped(r).finished = dead
      /\ Reaped(r).errors = e
      /\ Reaped(r).lease = "null"
      /\ Reaped(r).worker_id = NoWorker
      /\ Reaped(r).attempt = r.attempt
      /\ Reaped(r).round = r.round
  BY <1>1, <1>2, <1>3 DEF Row, States, Live, Terminal, Reasons
<1> QED
  BY <1>4 DEF e, dead, why

\* A replay gives all attempts back and starts a new round.
LEMMA ReplayedRow ==
  ASSUME NEW r \in Row
  PROVE  /\ Replayed(r) \in Row
         /\ Replayed(r).state = "available"
         /\ Replayed(r).attempt = 0
         /\ Replayed(r).dead_reason = "none"
         /\ Replayed(r).due = TRUE
         /\ Replayed(r).finished = FALSE
         /\ Replayed(r).worker_id = r.worker_id
         /\ Replayed(r).lease = r.lease
         /\ Replayed(r).errors = r.errors
         /\ Replayed(r).round = r.round + 1
<1> DEFINE n == r.round + 1
           z == 0
<1>1. n \in Nat /\ z \in Nat
  BY DEF Row
<1>2. Replayed(r) = [r EXCEPT !.state = "available", !.attempt = z,
                              !.dead_reason = "none", !.due = TRUE,
                              !.finished = FALSE, !.round = n]
  BY DEF Replayed
<1> HIDE DEF n, z
<1>3. Replayed(r) \in Row /\ Replayed(r).round = n /\ Replayed(r).attempt = z
  BY <1>1, <1>2 DEF Row, States, Live, Reasons
<1> QED
  BY <1>2, <1>3 DEF Row, n, z

\* The statements that set columns to constants write rows, too.
LEMMA PlainRows ==
  ASSUME NEW r \in Row
  PROVE  /\ \A b \in BOOLEAN : Inserted(r, b) \in Row
         /\ Completed(r) \in Row
         /\ HeartBeaten(r) \in Row
         /\ Acknowledged(r) \in Row
         /\ Released(r) \in Row
         /\ Cancelled(r) \in Row
         /\ CancelRequested(r) \in Row
         /\ RetriedNow(r) \in Row
         /\ Deleted(r) \in Row
<1> USE DEF Row, States, Live, Terminal, Reasons
<1>1. \A b \in BOOLEAN : Inserted(r, b) \in Row
  BY DEF Inserted
<1>2. Completed(r) \in Row /\ HeartBeaten(r) \in Row
  BY DEF Completed, HeartBeaten
<1>3. Acknowledged(r) \in Row /\ Released(r) \in Row
  BY DEF Acknowledged, Released
<1>4. Cancelled(r) \in Row /\ CancelRequested(r) \in Row /\ RetriedNow(r) \in Row
  BY DEF Cancelled, CancelRequested, RetriedNow
<1>5. Deleted(r) \in Row
  BY DEF Deleted, NoRow
<1> QED
  BY <1>1, <1>2, <1>3, <1>4, <1>5

-----------------------------------------------------------------------------
(* Every step of the specification does one of a few things to each row.   *)

Lapsed(r) == [r EXCEPT !.lease = "expired"]

\* Every statement but the claim.
QuietStep(r, q) ==
  \/ q = r
  \/ r.state = "absent" /\ \E b \in BOOLEAN : q = Inserted(r, b)
  \/ r.state = "available" /\ q \in {Cancelled(r), RetriedNow(r)}
  \/ r.state = "running" /\ \E b \in BOOLEAN : q = Failed(r, b)
  \/ r.state = "running" /\ q \in {Completed(r), HeartBeaten(r), Acknowledged(r),
                                    Released(r), Reaped(r), CancelRequested(r)}
  \/ r.state = "dead" /\ r.round < MaxReplays /\ q = Replayed(r)
  \/ r.state \in Live /\ q = Deleted(r)
  \/ r.lease = "held" /\ q = Lapsed(r)

RowStep(r, q) ==
  \/ QuietStep(r, q)
  \/ r.state = "available" /\ r.attempt < MaxAttempts /\ \E w \in Worker : q = Claimed(r, w)

\* A step that is not a claim changes every row by a quiet step.
LEMMA QuietSteps ==
  ASSUME TypeOK, AdminNext \/ ReportNext \/ ReaperNext \/ UNCHANGED tableVars
  PROVE  /\ job' = [k \in Job |-> job'[k]]
         /\ \A k \in Job : QuietStep(job[k], job'[k])
         /\ paused' \in BOOLEAN
<1> DEFINE Goal == /\ job' = [k \in Job |-> job'[k]]
                   /\ \A k \in Job : QuietStep(job[k], job'[k])
                   /\ paused' \in BOOLEAN
<1>1. ASSUME UNCHANGED tableVars PROVE Goal
  BY TypeOK, <1>1 DEF TypeOK, QuietStep, tableVars
<1>2. ASSUME NEW j \in Job, insertJob(j) PROVE Goal
  BY TypeOK, <1>2 DEF TypeOK, QuietStep, insertJob
<1>4. ASSUME NEW j \in Job, NEW w \in Worker, NEW a \in 1..MaxAttempts,
             completeJob(j, w, a) \/ heartbeatJob(j, w, a)
               \/ acknowledgeCancellation(j, w, a) \/ releaseJob(j, w, a)
      PROVE  Goal
  BY TypeOK, <1>4 DEF TypeOK, QuietStep, completeJob, heartbeatJob, acknowledgeCancellation,
                      releaseJob, Fence
<1>5. ASSUME NEW j \in Job, NEW w \in Worker, NEW a \in 1..MaxAttempts, NEW b \in BOOLEAN,
             failJob(j, w, a, b)
      PROVE  Goal
  BY TypeOK, <1>5 DEF TypeOK, QuietStep, failJob, Fence
<1>6. ASSUME NEW j \in Job, cancelAvailableJob(j) \/ retryJobNow(j) \/ RunAtPasses(j)
      PROVE  Goal
  BY TypeOK, <1>6 DEF TypeOK, QuietStep, cancelAvailableJob, retryJobNow, RunAtPasses, RetriedNow
<1>7. ASSUME NEW j \in Job, requestCancelRunningJob(j) \/ LeaseLapses(j)
      PROVE  Goal
  BY TypeOK, <1>7 DEF TypeOK, QuietStep, requestCancelRunningJob, LeaseLapses, Lapsed
<1>8. ASSUME NEW S \in SUBSET Job, reapExpiredLeases(S) \/ replayDeadJobs(S)
      PROVE  Goal
  BY TypeOK, <1>8 DEF TypeOK, QuietStep, reapExpiredLeases, replayDeadJobs
<1>9. ASSUME NEW S \in SUBSET Job, purgeQueue(Live, S) \/ pruneTerminalJobs(S)
      PROVE  Goal
  BY TypeOK, <1>9 DEF TypeOK, QuietStep, purgeQueue, pruneTerminalJobs, Live
<1>10. ASSUME NEW p \in BOOLEAN, setQueuePaused(p)
      PROVE  Goal
  BY TypeOK, <1>10 DEF TypeOK, QuietStep, setQueuePaused
<1> HIDE DEF Goal
<1>11. ASSUME AdminNext PROVE Goal
  BY <1>11, <1>2, <1>6, <1>7, <1>8, <1>9, <1>10 DEF AdminNext
<1>12. ASSUME ReportNext PROVE Goal
  BY <1>12, <1>4, <1>5 DEF ReportNext
<1>13. ASSUME ReaperNext PROVE Goal
  BY <1>13, <1>8 DEF ReaperNext
<1>14. Goal
  BY <1>1, <1>11, <1>12, <1>13
<1> QED
  BY <1>14 DEF Goal

\* Every step of the table changes every row by a row step.
LEMMA StepsAreRowSteps ==
  ASSUME TypeOK, [Next]_tableVars
  PROVE  /\ job' = [k \in Job |-> job'[k]]
         /\ \A k \in Job : RowStep(job[k], job'[k])
         /\ paused' \in BOOLEAN
<1>1. ASSUME NEW w \in Worker, NEW S \in SUBSET Job, NEW locked \in SUBSET Job,
             NEW limit \in 1..ClaimBatchMax, claimJobs(w, S, locked, limit)
      PROVE  /\ job' = [k \in Job |-> job'[k]]
             /\ \A k \in Job : RowStep(job[k], job'[k])
             /\ paused' \in BOOLEAN
  BY TypeOK, <1>1 DEF TypeOK, RowStep, QuietStep, claimJobs, Selected, Candidates
<1>2. CASE ClaimNext
  BY <1>1, <1>2 DEF ClaimNext
<1>3. CASE AdminNext \/ ReportNext \/ ReaperNext \/ UNCHANGED tableVars
  BY <1>3, QuietSteps DEF RowStep
<1> QED
  BY <1>2, <1>3 DEF Next

-----------------------------------------------------------------------------
\* A row step keeps a row a row.
LEMMA RowStepType ==
  ASSUME NEW r \in Row, NEW q, RowStep(r, q)
  PROVE  q \in Row
<1>1. Lapsed(r) \in Row
  BY DEF Lapsed, Row
<1>2. \A w \in Worker : Claimed(r, w) \in Row
  BY ClaimedRow
<1>3. \A b \in BOOLEAN : Failed(r, b) \in Row
  BY FailedRow
<1>4. Reaped(r) \in Row /\ Replayed(r) \in Row
  BY ReapedRow, ReplayedRow
<1> QED
  BY <1>1, <1>2, <1>3, <1>4, PlainRows DEF RowStep, QuietStep

\* The type invariant holds for every instance.
THEOREM TypeCorrect == Spec => []TypeOK
<1>1. Init => TypeOK
  <2> DEFINE z == 0
  <2>1. z \in Nat /\ z = 0
    OBVIOUS
  <2> HIDE DEF z
  <2>2. NoRow \in Row
    BY <2>1 DEF NoRow, Row, States, Reasons
  <2> QED
    BY <2>2 DEF Init, TypeOK
<1>2. TypeOK /\ [Next]_tableVars => TypeOK'
  <2> SUFFICES ASSUME TypeOK, [Next]_tableVars PROVE TypeOK'
    OBVIOUS
  <2>1. \A j \in Job : job'[j] \in Row
    BY StepsAreRowSteps, RowStepType DEF TypeOK
  <2> QED
    BY <2>1, StepsAreRowSteps DEF TypeOK
<1> QED
  BY <1>1, <1>2, PTL DEF Spec

\* A row step keeps a row within the CHECK constraints.
LEMMA RowStepChecks ==
  ASSUME NEW r \in Row, NEW q, RowStep(r, q), RowPassesChecks(r)
  PROVE  RowPassesChecks(q)
<1> USE TableAssumptions DEF RowPassesChecks
<1>1. ASSUME NEW b \in BOOLEAN, r.state = "absent", q = Inserted(r, b)
      PROVE  RowPassesChecks(q)
  BY <1>1 DEF Inserted, Row, Terminal
<1>2. ASSUME NEW w \in Worker, r.state = "available", r.attempt < MaxAttempts, q = Claimed(r, w)
      PROVE  RowPassesChecks(q)
  BY <1>2, ClaimedRow DEF Row, Terminal
<1>3. ASSUME r.state = "available", q \in {Cancelled(r), RetriedNow(r)}
      PROVE  RowPassesChecks(q)
  BY <1>3 DEF Cancelled, RetriedNow, Row, Terminal
<1>4. ASSUME NEW b \in BOOLEAN, r.state = "running", q = Failed(r, b)
      PROVE  RowPassesChecks(q)
  <2>1. CASE b \/ r.attempt >= MaxAttempts
    <3>1. /\ q.state = "dead" /\ q.dead_reason \in {"non_retryable_error", "attempts_exhausted"}
          /\ q.finished = TRUE /\ q.worker_id = NoWorker /\ q.lease = "null" /\ q.attempt = r.attempt
      BY <1>4, <2>1, FailedRow
    <3> QED
      BY <3>1 DEF Terminal
  <2>2. CASE ~(b \/ r.attempt >= MaxAttempts)
    <3>1. /\ q.state = "available" /\ q.dead_reason = "none"
          /\ q.finished = FALSE /\ q.worker_id = NoWorker /\ q.lease = "null" /\ q.attempt = r.attempt
      BY <1>4, <2>2, FailedRow
    <3> QED
      BY <3>1 DEF Terminal
  <2> QED
    BY <2>1, <2>2
<1>5. ASSUME r.state = "running", q = Reaped(r)
      PROVE  RowPassesChecks(q)
  BY <1>5, ReapedRow DEF Row, Terminal
<1>6. ASSUME r.state = "running", q \in {Completed(r), Acknowledged(r), Released(r)}
      PROVE  RowPassesChecks(q)
  <2>1. CASE q = Completed(r)
    BY <1>6, <2>1 DEF Completed, Row, Terminal
  <2>2. CASE q = Acknowledged(r)
    BY <1>6, <2>2 DEF Acknowledged, Row, Terminal
  <2>3. CASE q = Released(r)
    BY <1>6, <2>3 DEF Released, Row, Terminal
  <2> QED
    BY <1>6, <2>1, <2>2, <2>3
<1>7. ASSUME r.state = "running", q \in {HeartBeaten(r), CancelRequested(r)}
      PROVE  RowPassesChecks(q)
  BY <1>7 DEF HeartBeaten, CancelRequested, Row, Terminal
<1>8. ASSUME r.state = "dead", q = Replayed(r)
      PROVE  RowPassesChecks(q)
  <2>1. r.worker_id = NoWorker /\ r.lease = "null"
    BY <1>8
  <2>2. /\ q.state = "available" /\ q.attempt = 0 /\ q.dead_reason = "none"
        /\ ~q.finished /\ q.worker_id = NoWorker /\ q.lease = "null"
    BY <1>8, <2>1, ReplayedRow
  <2> QED
    BY <2>2 DEF Terminal
<1>9. ASSUME r.state \in Live, q = Deleted(r)
      PROVE  RowPassesChecks(q)
  BY <1>9 DEF Deleted, NoRow, Row, Terminal
<1>10. ASSUME r.lease = "held", q = Lapsed(r)
       PROVE  RowPassesChecks(q)
  BY <1>10 DEF Lapsed, Row, Terminal
<1> HIDE DEF RowPassesChecks
<1> QED
  BY <1>1, <1>2, <1>3, <1>4, <1>5, <1>6, <1>7, <1>8, <1>9, <1>10 DEF RowStep, QuietStep

\* No sequence of statements, whoever sends them, writes a row that a CHECK
\* constraint rejects; only the claim has to be stopped by one.
THEOREM ChecksHold == Spec => []RowsPassChecks
<1>1. Init => RowsPassChecks
  BY TableAssumptions DEF Init, RowsPassChecks, RowPassesChecks, NoRow, Terminal
<1>2. TypeOK /\ RowsPassChecks /\ [Next]_tableVars => RowsPassChecks'
  BY StepsAreRowSteps, RowStepChecks DEF RowsPassChecks, TypeOK
<1> QED
  BY <1>1, <1>2, TypeCorrect, PTL DEF Spec

\* The two writers of the errors array keep it within the larger of their limits,
\* however they alternate.
THEOREM HistoryBounded == Spec => []ErrorHistoryBounded
<1> DEFINE Bounded(r) == r.errors <= ReapErrorHistory \/ r.errors <= MaxErrorHistory
<1>1. Init => ErrorHistoryBounded
  BY TableAssumptions DEF Init, ErrorHistoryBounded, NoRow, ReapErrorHistory
<1>2. TypeOK /\ ErrorHistoryBounded /\ [Next]_tableVars => ErrorHistoryBounded'
  <2>1. ASSUME NEW r \in Row, NEW q, RowStep(r, q), Bounded(r)
        PROVE  Bounded(q)
    <3>1. \A b \in BOOLEAN : Bounded(Failed(r, b))
      <4>1. \A b \in BOOLEAN : Failed(r, b).errors = Logged(r.errors, MaxErrorHistory)
        BY FailedRow
      <4>2. r.errors \in Nat
        BY DEF Row
      <4>3. Logged(r.errors, MaxErrorHistory) <= MaxErrorHistory
              \/ Logged(r.errors, MaxErrorHistory) <= r.errors
        BY <4>2, LoggedType, TableAssumptions
      <4>4. Logged(r.errors, MaxErrorHistory) \in Nat
        BY <4>2, LoggedType, TableAssumptions
      <4> QED
        BY <2>1, <4>1, <4>2, <4>3, <4>4, TableAssumptions DEF ReapErrorHistory
    <3>2. Bounded(Reaped(r))
      BY <2>1, ReapedRow, LoggedType, TableAssumptions DEF Row, ReapErrorHistory
    <3>3. Deleted(r).errors = 0
      BY DEF Deleted, NoRow
    <3>4. Bounded(Deleted(r))
      BY <3>3 DEF ReapErrorHistory
    <3>5. \A b \in BOOLEAN : Inserted(r, b).errors = r.errors
      BY DEF Inserted, Row
    <3>6. \A w \in Worker : Claimed(r, w).errors = r.errors
      BY ClaimedRow
    <3>9. Replayed(r).errors = r.errors
      BY ReplayedRow
    <3>7. \A p \in {Completed(r), HeartBeaten(r), Acknowledged(r), Released(r),
                    Cancelled(r), CancelRequested(r), RetriedNow(r), Lapsed(r)} :
             p.errors = r.errors
      BY DEF Completed, HeartBeaten, Acknowledged, Released, Cancelled,
             CancelRequested, RetriedNow, Lapsed, Row
    <3> HIDE DEF Bounded
    <3>8. \A p : p.errors = r.errors => Bounded(p)
      BY <2>1 DEF Bounded
    <3> QED
      BY <2>1, <3>1, <3>2, <3>4, <3>5, <3>6, <3>7, <3>8, <3>9 DEF RowStep, QuietStep
  <2> QED
    BY <2>1, StepsAreRowSteps DEF ErrorHistoryBounded, TypeOK
<1> QED
  BY <1>1, <1>2, TypeCorrect, PTL DEF Spec

-----------------------------------------------------------------------------
(* The table implements the state machine.                                 *)

\* A row that was never inserted has used no attempt.
AbsentUnused == \A j \in Job : job[j].state = "absent" => job[j].attempt = 0

\* No step uses an attempt of a row that was never inserted.
LEMMA AbsentStaysUnused == Spec => []AbsentUnused
<1>1. Init => AbsentUnused
  BY DEF Init, AbsentUnused, NoRow
<1>2. TypeOK /\ AbsentUnused /\ [Next]_tableVars => AbsentUnused'
  <2>1. ASSUME NEW r \in Row, NEW q, RowStep(r, q), q.state = "absent"
        PROVE  q.attempt = r.attempt /\ r.state = "absent"
    <3>1. (\A b \in BOOLEAN : Failed(r, b).state # "absent") /\ Reaped(r).state # "absent"
      BY FailedRow, ReapedRow
    <3>2. (\A w \in Worker : Claimed(r, w).state # "absent") /\ Replayed(r).state # "absent"
      BY ClaimedRow, ReplayedRow
    <3>3. /\ \A b \in BOOLEAN : Inserted(r, b).state # "absent"
          /\ Completed(r).state # "absent" /\ Acknowledged(r).state # "absent"
          /\ Released(r).state # "absent" /\ Cancelled(r).state # "absent"
      BY DEF Inserted, Completed, Acknowledged, Released, Cancelled, Row
    <3>4. Deleted(r).state # "absent"
      BY DEF Deleted, NoRow
    <3>5. \A p \in {HeartBeaten(r), CancelRequested(r), RetriedNow(r), Lapsed(r)} :
             p.state = r.state /\ p.attempt = r.attempt
      BY DEF HeartBeaten, CancelRequested, RetriedNow, Lapsed, Row
    <3> QED
      BY <2>1, <3>1, <3>2, <3>3, <3>4, <3>5 DEF RowStep, QuietStep
  <2> QED
    BY <2>1, StepsAreRowSteps DEF AbsentUnused, TypeOK
<1> QED
  BY <1>1, <1>2, TypeCorrect, PTL DEF Spec

\* An entry of the transition table fires for a job.
LEMMA EntryFires ==
  ASSUME NEW j \in Job, NEW f, NEW g, NEW why,
         Lifecycle!Transition(f, g, why) \in Lifecycle!TRANSITIONS,
         job[j].state = f, job'[j].state = g,
         why \in {"retry", "reap_retry"}     => job[j].attempt < MaxAttempts,
         why \in {"exhaust", "reap_exhaust"} => job[j].attempt = MaxAttempts,
         job'[j].attempt = IF why = "claim" THEN job[j].attempt + 1
                           ELSE IF why = "replay" THEN 0 ELSE job[j].attempt,
         job'[j].attempt <= MaxAttempts,
         job'[j].dead_reason = IF why = "exhaust" THEN "attempts_exhausted"
                               ELSE IF why = "reap_exhaust" THEN "lease_expired"
                               ELSE IF why = "non_retryable" THEN "non_retryable_error"
                               ELSE "none",
         job'[j].due = IF why \in {"retry", "reap_retry"} THEN FALSE
                       ELSE IF why \in {"replay", "operator_retry"} THEN TRUE
                       ELSE job[j].due
  PROVE  Lifecycle!Moves(j)
<1> DEFINE t == Lifecycle!Transition(f, g, why)
<1>1. t.from = f /\ t.to = g /\ t.reason = why
  BY DEF Lifecycle!Transition
<1> HIDE DEF t
<1>2. Lifecycle!Permits(t, job[j].attempt)
  BY <1>1 DEF Lifecycle!Permits
<1>3. job'[j].attempt = Lifecycle!AttemptAfter(t, job[j].attempt)
  BY <1>1 DEF Lifecycle!AttemptAfter
<1>4. job'[j].dead_reason = Lifecycle!ReasonAfter(t)
  BY <1>1 DEF Lifecycle!ReasonAfter
<1>5. job'[j].due = Lifecycle!DueAfter(t, job[j].due)
  BY <1>1 DEF Lifecycle!DueAfter
<1> QED
  BY <1>1, <1>2, <1>3, <1>4, <1>5, t \in Lifecycle!TRANSITIONS DEF Lifecycle!Moves, t

\* What a statement does to a row is a step of the state machine.
LEMMA RowStepIsLifecycleStep ==
  ASSUME TypeOK, TypeOK', RowsPassChecks, RowsPassChecks', AbsentUnused,
         NEW j \in Job, RowStep(job[j], job'[j])
  PROVE  \/ Lifecycle!Enqueues(j) \/ Lifecycle!Moves(j) \/ Lifecycle!Releases(j)
         \/ Lifecycle!Leaves(j)   \/ Lifecycle!Rests(j)
<1> DEFINE r == job[j]
           q == job'[j]
           Entry(f, g, why) == Lifecycle!Transition(f, g, why)
<1>1. r \in Row /\ q \in Row
  BY DEF TypeOK
<1>2. /\ r.attempt <= MaxAttempts /\ q.attempt <= MaxAttempts
      /\ r.state # "dead" => r.dead_reason = "none"
  BY <1>1 DEF RowsPassChecks, RowPassesChecks, Row, Reasons
<1> USE DEF Lifecycle!TRANSITIONS
<1>3. ASSUME q.state = r.state, q.attempt = r.attempt, q.dead_reason = r.dead_reason, q.due = r.due
      PROVE  Lifecycle!Rests(j)
  BY <1>3 DEF Lifecycle!Rests
<1>4. ASSUME NEW b \in BOOLEAN, r.state = "absent", q = Inserted(r, b)
      PROVE  Lifecycle!Enqueues(j)
  BY <1>1, <1>2, <1>4 DEF AbsentUnused, Inserted, Row, Lifecycle!Enqueues
<1>5. ASSUME NEW w \in Worker, r.state = "available", q = Claimed(r, w)
      PROVE  Lifecycle!Moves(j)
  <2>1. /\ q.state = "running" /\ q.attempt = r.attempt + 1
        /\ q.dead_reason = "none" /\ q.due = r.due
    BY <1>1, <1>2, <1>5, ClaimedRow
  <2>2. Entry("available", "running", "claim") \in Lifecycle!TRANSITIONS
    OBVIOUS
  <2> HIDE DEF Lifecycle!TRANSITIONS
  <2> QED
    BY <1>2, <1>5, <2>1, <2>2, EntryFires
<1>6. ASSUME r.state = "available", q = Cancelled(r)
      PROVE  Lifecycle!Moves(j)
  <2>1. /\ q.state = "cancelled" /\ q.attempt = r.attempt
        /\ q.dead_reason = "none" /\ q.due = r.due
    BY <1>1, <1>2, <1>6 DEF Cancelled, Row
  <2>2. Entry("available", "cancelled", "cancel") \in Lifecycle!TRANSITIONS
    OBVIOUS
  <2> HIDE DEF Lifecycle!TRANSITIONS
  <2> QED
    BY <1>2, <1>6, <2>1, <2>2, EntryFires
<1>7. ASSUME NEW b \in BOOLEAN, r.state = "running", q = Failed(r, b)
      PROVE  Lifecycle!Moves(j)
  <2> DEFINE why == IF b THEN "non_retryable"
                    ELSE IF r.attempt >= MaxAttempts THEN "exhaust" ELSE "retry"
             to  == IF why = "retry" THEN "available" ELSE "dead"
  <2>1. /\ Entry("running", to, why) \in Lifecycle!TRANSITIONS
        /\ why = "retry" => r.attempt < MaxAttempts
        /\ why = "exhaust" => r.attempt = MaxAttempts
    BY <1>1, <1>2, TableAssumptions DEF Row
  <2>2. /\ q.state = to /\ q.attempt = r.attempt
        /\ q.dead_reason = IF why = "exhaust" THEN "attempts_exhausted"
                           ELSE IF why = "non_retryable" THEN "non_retryable_error" ELSE "none"
        /\ q.due = IF why = "retry" THEN FALSE ELSE r.due
    <3>1. /\ Failed(r, b).state = to /\ Failed(r, b).attempt = r.attempt
          /\ Failed(r, b).dead_reason
               = IF why = "exhaust" THEN "attempts_exhausted"
                 ELSE IF why = "non_retryable" THEN "non_retryable_error" ELSE "none"
      BY <1>1, FailedRow
    <3>2. Failed(r, b).due = IF why = "retry" THEN FALSE ELSE r.due
      <4>1. Failed(r, b).due = (r.due /\ (b \/ r.attempt >= MaxAttempts))
        BY <1>1, FailedRow
      <4>2. CASE b \/ r.attempt >= MaxAttempts
        <5>1. why # "retry"
          BY <4>2
        <5> QED
          BY <1>1, <4>1, <4>2, <5>1 DEF Row
      <4>3. CASE ~(b \/ r.attempt >= MaxAttempts)
        BY <4>1, <4>3
      <4> QED
        BY <4>2, <4>3
    <3> QED
      BY <1>7, <3>1, <3>2
  <2>3. why \in {"retry", "exhaust", "non_retryable"}
    OBVIOUS
  <2> HIDE DEF Lifecycle!TRANSITIONS, why, to
  <2> QED
    BY <1>2, <1>7, <2>1, <2>2, <2>3, EntryFires
<1>8. ASSUME r.state = "running", q = Reaped(r)
      PROVE  Lifecycle!Moves(j)
  <2> DEFINE why == IF r.attempt >= MaxAttempts THEN "reap_exhaust" ELSE "reap_retry"
             to  == IF why = "reap_retry" THEN "available" ELSE "dead"
  <2>1. /\ Entry("running", to, why) \in Lifecycle!TRANSITIONS
        /\ why = "reap_retry" => r.attempt < MaxAttempts
        /\ why = "reap_exhaust" => r.attempt = MaxAttempts
    BY <1>1, <1>2, TableAssumptions DEF Row
  <2>2. /\ q.state = to /\ q.attempt = r.attempt
        /\ q.dead_reason = IF why = "reap_exhaust" THEN "lease_expired" ELSE "none"
        /\ q.due = IF why = "reap_retry" THEN FALSE ELSE r.due
    <3>1. /\ Reaped(r).state = to /\ Reaped(r).attempt = r.attempt
          /\ Reaped(r).dead_reason = IF why = "reap_exhaust" THEN "lease_expired" ELSE "none"
      BY <1>1, ReapedRow
    <3>2. Reaped(r).due = IF why = "reap_retry" THEN FALSE ELSE r.due
      BY <1>1, ReapedRow DEF Row
    <3> QED
      BY <1>8, <3>1, <3>2
  <2>3. why \in {"reap_retry", "reap_exhaust"}
    OBVIOUS
  <2> HIDE DEF Lifecycle!TRANSITIONS, why, to
  <2> QED
    BY <1>2, <1>8, <2>1, <2>2, <2>3, EntryFires
<1>9. ASSUME NEW why \in {"succeed", "cancel_ack"}, r.state = "running",
             q = IF why = "succeed" THEN Completed(r) ELSE Acknowledged(r)
      PROVE  Lifecycle!Moves(j)
  <2> DEFINE to == IF why = "succeed" THEN "succeeded" ELSE "cancelled"
  <2>1. /\ q.state = to /\ q.attempt = r.attempt /\ q.dead_reason = "none" /\ q.due = r.due
    BY <1>1, <1>2, <1>9 DEF Completed, Acknowledged, Row
  <2>2. Entry("running", to, why) \in Lifecycle!TRANSITIONS
    OBVIOUS
  <2> HIDE DEF Lifecycle!TRANSITIONS, to
  <2> QED
    BY <1>2, <1>9, <2>1, <2>2, EntryFires
<1>10. ASSUME r.state = "dead", q = Replayed(r)
       PROVE  Lifecycle!Moves(j)
  <2>1. q.state = "available" /\ q.attempt = 0 /\ q.dead_reason = "none" /\ q.due = TRUE
    <3>1. /\ Replayed(r).state = "available" /\ Replayed(r).attempt = 0
          /\ Replayed(r).dead_reason = "none" /\ Replayed(r).due = TRUE
      BY <1>1, ReplayedRow
    <3> QED
      BY <1>10, <3>1
  <2>2. Entry("dead", "available", "replay") \in Lifecycle!TRANSITIONS
    OBVIOUS
  <2> HIDE DEF Lifecycle!TRANSITIONS
  <2> QED
    BY <1>2, <1>10, <2>1, <2>2, EntryFires
<1>11. ASSUME r.state \in Live, q = Deleted(r)
       PROVE  Lifecycle!Leaves(j)
  <2>1. q.state = "deleted" /\ q.attempt = r.attempt
    BY <1>1, <1>11 DEF Deleted, NoRow, Row
  <2> QED
    BY <1>11, <2>1 DEF Lifecycle!Leaves, Lifecycle!JobStates, Lifecycle!TerminalStates,
                       Live, Terminal
<1>12. ASSUME q \in {r, HeartBeaten(r), CancelRequested(r), Lapsed(r)}
       PROVE  Lifecycle!Rests(j)
  BY <1>1, <1>3, <1>12 DEF HeartBeaten, CancelRequested, Lapsed, Row
<1>13. ASSUME r.state = "available", q = RetriedNow(r)
       PROVE  Lifecycle!Moves(j)
  <2>1. /\ q.state = "available" /\ q.attempt = r.attempt
        /\ q.dead_reason = "none" /\ q.due = TRUE
    BY <1>1, <1>2, <1>13 DEF RetriedNow, Row
  <2>2. Entry("available", "available", "operator_retry") \in Lifecycle!TRANSITIONS
    OBVIOUS
  <2> HIDE DEF Lifecycle!TRANSITIONS
  <2> QED
    BY <1>2, <1>13, <2>1, <2>2, EntryFires
<1>14. ASSUME r.state = "running", q = Released(r)
       PROVE  Lifecycle!Releases(j)
  BY <1>1, <1>2, <1>14 DEF Released, Row, Lifecycle!Releases
<1>15. r.state = "running" /\ q \in {Completed(r), Acknowledged(r)} => Lifecycle!Moves(j)
  BY <1>9
<1> QED
  BY <1>4, <1>5, <1>6, <1>7, <1>8, <1>10, <1>11, <1>12, <1>13, <1>14, <1>15 DEF RowStep, QuietStep

\* The table implements the state machine of engine/state-machine.ts for every
\* caller: no order of statements takes a row outside the transition table or
\* the release, past its attempt limit, gives an attempt back other than by a
\* replay, or lets a row die with an attempt left unless it was not retryable.
THEOREM TableImplementsLifecycle == Spec => ImplementsLifecycle
<1>1. Init => Lifecycle!Init
  BY DEF Init, NoRow, Lifecycle!Init
<1>2. TypeOK /\ TypeOK' /\ RowsPassChecks /\ RowsPassChecks' /\ AbsentUnused /\ [Next]_tableVars
        => [Lifecycle!Next]_(Lifecycle!vars)
  <2> SUFFICES ASSUME TypeOK, TypeOK', RowsPassChecks, RowsPassChecks', AbsentUnused,
                      [Next]_tableVars
               PROVE  Lifecycle!Next
    OBVIOUS
  <2>1. \A j \in Job : \/ Lifecycle!Enqueues(j) \/ Lifecycle!Moves(j) \/ Lifecycle!Releases(j)
                       \/ Lifecycle!Leaves(j)   \/ Lifecycle!Rests(j)
    BY StepsAreRowSteps, RowStepIsLifecycleStep
  <2>2. [j \in Job |-> job'[j].state] \in [Job -> Lifecycle!RowStates]
    BY DEF TypeOK, Row, States, Live, Terminal, Lifecycle!RowStates,
           Lifecycle!JobStates, Lifecycle!TerminalStates
  <2>3. [j \in Job |-> job'[j].attempt] \in [Job -> Nat]
    BY DEF TypeOK, Row
  <2>4. [j \in Job |-> job'[j].dead_reason] \in
          [Job -> {"none", "attempts_exhausted", "lease_expired", "non_retryable_error"}]
    BY DEF TypeOK, Row, Reasons
  <2>5. [j \in Job |-> job'[j].due] \in [Job -> BOOLEAN]
    BY DEF TypeOK, Row
  <2> QED
    BY <2>1, <2>2, <2>3, <2>4, <2>5 DEF Lifecycle!Next
<1> QED
  BY <1>1, <1>2, TypeCorrect, ChecksHold, AbsentStaysUnused, PTL
     DEF Spec, ImplementsLifecycle, Lifecycle!Spec
=============================================================================
