------------------------------ MODULE JobQueue ------------------------------
(***************************************************************************)
(* Worker processes on top of the job table.                               *)
(*                                                                         *)
(* A delivery is one claim of one job.  Its execution (worker/runner.ts)   *)
(* is a sequential program that awaits the handler and then one report     *)
(* statement after another, while a timer sends heartbeats beside it.      *)
(* Between two awaits anything may happen: other workers, the reaper,      *)
(* operators, a crash of the process, a graceful shutdown.  Every          *)
(* statement may also fail, before it is applied or after (the response is *)
(* lost).  worker/pool.ts keeps the executions of a process in two maps    *)
(* keyed by job id; they always have the same keys and are one variable.   *)
(***************************************************************************)
EXTENDS JobTable, Integers

CONSTANTS Concurrency,  \* slots of each pool
          MayCrash,     \* processes that may be killed
          MayStop       \* processes that may be asked to shut down

ASSUME QueueAssumptions ==
  /\ IsFiniteSet(Job)
  /\ Concurrency \in Nat \ {0}
  /\ MayCrash \subseteq Worker
  /\ MayStop \subseteq Worker

VARIABLES exec,    \* the execution of each delivery
          pool,    \* the state of each process
          active   \* WorkerPool.active / inFlight: deliveries, one per job id

workerVars == <<exec, pool, active>>
vars == <<job, paused, exec, pool, active>>

\* <<job id, replays before it, attempt number>>
Delivery == Job \X (0..MaxReplays) \X (1..MaxAttempts)

\* Where an execution stands: the handler runs, then the statement it is about
\* to send; "returning": the last one was applied and its response is awaited;
\* "done": run() has returned; "gone": it will never run another instruction.
Alive     == {"handler", "ackOk", "complete", "ackErr", "fail", "returning"}
Listening == {"handler", "ackOk", "complete"} \* run() will still read cancelRequested
Points    == Alive \cup {"idle", "done", "gone"}

Execution ==
  [ pc              : Points,
    worker          : Worker \cup {NoWorker},
    signal          : {"none", "timeout", "lost", "cancel"}, \* signal.reason
    cancelRequested : BOOLEAN,
    answers         : SUBSET {"cancel", "lost"}, \* heartbeat responses under way
    ret             : {"none", "resolved", "cancelled", "threw"}, \* how the handler ended
    nonRetryable    : BOOLEAN,
    released        : BOOLEAN,    \* stop() has tried to release it
    reaped          : BOOLEAN ]   \* history: its lease expired and was reaped

NoExecution == [ pc |-> "idle", worker |-> NoWorker, signal |-> "none",
                 cancelRequested |-> FALSE, answers |-> {}, ret |-> "none",
                 nonRetryable |-> FALSE, released |-> FALSE, reaped |-> FALSE ]

QueueTypeOK == /\ TypeOK
               /\ exec \in [Delivery -> Execution]
               /\ pool \in [Worker -> {"up", "draining", "down"}]
               /\ active \in [Worker -> SUBSET Delivery]

\* The delivery a row stands for: the latest one of its job.
Current(j) == <<j, job[j].round, job[j].attempt>>

\* The fence parameters an execution sends with every statement.
Owns(d) == Fence(d[1], exec[d].worker, d[3])

-----------------------------------------------------------------------------
(* The claim loop.                                                         *)

Started(w, lost) == [NoExecution EXCEPT !.pc = IF lost THEN "gone" ELSE "handler",
                                        !.worker = w]

\* Mutant: an entry that is there stays.
SetAbsent(ds, new) == ds \cup {d \in new : \A e \in ds : d[1] # e[1]}

\* Map.set by job id: a new entry replaces an older one of the same job.
SetEntries(ds, new) == {d \in ds : \A e \in new : d[1] # e[1]} \cup new
DeleteEntry(ds, j) == {d \in ds : d[1] # j}

Free(w) == Concurrency - Cardinality(active[w])

\* One claim and the spawn of what it returned.  "lost": the statement was
\* committed and its response never arrived, so nothing is spawned.
Claim(w, S, locked, lost) ==
  LET limit == IF Free(w) < ClaimBatchMax THEN Free(w) ELSE ClaimBatchMax
      new   == {<<j, job[j].round, job[j].attempt + 1>> : j \in S}
  IN  /\ pool[w] = "up"
      /\ Free(w) > 0
      /\ claimJobs(w, S, locked, limit)
      /\ exec' = [d \in Delivery |-> IF d \in new THEN Started(w, lost) ELSE exec[d]]
      /\ active' = IF lost THEN active
                   ELSE [active EXCEPT ![w] = SetEntries(@, new)]
      /\ UNCHANGED pool

-----------------------------------------------------------------------------
(* Runner.run.                                                             *)

At(e, p) == [e EXCEPT !.pc = p,
                      !.answers = IF p \in Listening THEN @ ELSE {},
                      !.cancelRequested = @ /\ p \in Listening]

Goto(d, p) == /\ exec' = [exec EXCEPT ![d] = At(@, p)]
              /\ UNCHANGED <<pool, active>>

\* The local variables of run() die with it.
Over(e, p, r) == [e EXCEPT !.pc = p, !.ret = r, !.signal = "none", !.answers = {},
                           !.cancelRequested = FALSE, !.nonRetryable = FALSE]

\* run() returns or throws; spawn's finally frees the slot by job id.
Finish(d, r) == /\ exec' = [exec EXCEPT ![d] = Over(@, "done", r)]
                /\ active' = [active EXCEPT ![exec[d].worker] = DeleteEntry(@, d[1])]
                /\ UNCHANGED <<job, paused, pool>>

\* The catch block: reportFailure, entered with the cancelRequested of now.
Caught(d) == Goto(d, IF exec[d].cancelRequested THEN "ackErr" ELSE "fail")

\* controller.abort: only the first reason counts.
Aborted(e, reason) == IF e.signal = "none" THEN reason ELSE e.signal

Awaiting(e, answer) == [e EXCEPT !.answers = @ \cup {answer}]
Told(e, answer) ==
  [e EXCEPT !.answers = @ \ {answer},
            !.cancelRequested = @ \/ answer = "cancel",
            !.signal = IF e.pc = "handler" THEN Aborted(e, answer) ELSE @]

\* The interval heartbeat, or one the handler asks for.  The timer runs until
\* run() returns, so also while a report is awaited.
HeartbeatSent(d) ==
  /\ exec[d].pc \in Alive
  /\ heartbeatJob(d[1], exec[d].worker, d[3])
  /\ exec' = IF job[d[1]].cancel /\ exec[d].pc \in Listening /\ ~exec[d].cancelRequested
             THEN [exec EXCEPT ![d] = Awaiting(@, "cancel")] ELSE exec
  /\ UNCHANGED <<pool, active>>

\* Only the handler takes note of a rejected heartbeat.
HeartbeatRejected(d) ==
  /\ exec[d].pc = "handler"
  /\ ~Owns(d)
  /\ exec' = [exec EXCEPT ![d] = Awaiting(@, "lost")]
  /\ UNCHANGED <<job, paused, pool, active>>

\* The response arrives later, or never.
HeartbeatAnswered(d, answer) ==
  /\ answer \in exec[d].answers
  /\ exec' = [exec EXCEPT ![d] = Told(@, answer)]
  /\ UNCHANGED <<job, paused, pool, active>>

\* The timeout only fires the AbortSignal: nothing stops the handler.
JobTimeout(d) ==
  /\ exec[d].pc = "handler"
  /\ exec[d].signal = "none"
  /\ exec' = [exec EXCEPT ![d] = [@ EXCEPT !.signal = "timeout"]]
  /\ UNCHANGED <<job, paused, pool, active>>

\* The handler settles; nothing reads the signal from then on.
Ended(e, p, r) == [e EXCEPT !.pc = p, !.ret = r, !.signal = "none",
                            !.answers = IF p \in Listening THEN @ \ {"lost"} ELSE {}]

\* Mutant: the success path does not look at cancelRequested.
ResolvedUnchecked(e) == Ended(e, "complete", IF e.cancelRequested THEN "cancelled" ELSE "resolved")

Resolved(e) == IF e.cancelRequested THEN Ended(e, "ackOk", "cancelled")
               ELSE Ended(e, "complete", "resolved")

HandlerResolves(d) ==
  /\ exec[d].pc = "handler"
  /\ exec' = [exec EXCEPT ![d] = Resolved(@)]
  /\ UNCHANGED <<job, paused, pool, active>>

\* Any error but OwnershipLostError.  "cancel": a JobCancelledError.
Threw(e, kind) ==
  [Ended(e, IF e.cancelRequested \/ kind = "cancel" THEN "ackErr" ELSE "fail", "threw")
      EXCEPT !.nonRetryable = (kind = "nonRetryable")]

HandlerThrows(d, kind) ==
  /\ exec[d].pc = "handler"
  /\ exec' = [exec EXCEPT ![d] = Threw(@, kind)]
  /\ UNCHANGED <<job, paused, pool, active>>

\* OwnershipLostError, from the signal or from a heartbeat the handler asked
\* for: reportFailure writes nothing.
HandlerGivesUp(d) ==
  /\ exec[d].pc = "handler"
  /\ exec[d].signal = "lost" \/ "lost" \in exec[d].answers
  /\ Finish(d, "threw")

HandlerEnds(d) == \/ HandlerResolves(d)
                  \/ \E kind \in {"retryable", "nonRetryable", "cancel"} : HandlerThrows(d, kind)
                  \/ HandlerGivesUp(d)

\* The handler resolved after a cancellation was seen.
AckAfterSuccess(d) ==
  /\ exec[d].pc = "ackOk"
  /\ \/ /\ acknowledgeCancellation(d[1], exec[d].worker, d[3])
        /\ Goto(d, "returning") \/ Caught(d)
     \/ /\ ~(Owns(d) /\ job[d[1]].cancel)
        /\ Goto(d, "complete") /\ UNCHANGED tableVars
     \/ Caught(d) /\ UNCHANGED tableVars

ReportComplete(d) ==
  /\ exec[d].pc = "complete"
  /\ \/ /\ completeJob(d[1], exec[d].worker, d[3])
        /\ Goto(d, "returning") \/ Caught(d)
     \/ ~Owns(d) /\ Goto(d, "returning") /\ UNCHANGED tableVars
     \/ Caught(d) /\ UNCHANGED tableVars

\* In reportFailure a database error leaves run() as an exception; spawn
\* contains it, and the job waits for its lease.
AckAfterFailure(d) ==
  /\ exec[d].pc = "ackErr"
  /\ \/ acknowledgeCancellation(d[1], exec[d].worker, d[3]) /\ Goto(d, "returning")
     \/ /\ ~(Owns(d) /\ job[d[1]].cancel)
        /\ Goto(d, "fail") /\ UNCHANGED tableVars
     \/ Goto(d, "returning") /\ UNCHANGED tableVars

ReportFail(d) ==
  /\ exec[d].pc = "fail"
  /\ \/ failJob(d[1], exec[d].worker, d[3], exec[d].nonRetryable)
     \/ UNCHANGED tableVars
  /\ Goto(d, "returning")

\* The response of the last statement arrives, an error included.
Return(d) == exec[d].pc = "returning" /\ Finish(d, exec[d].ret)

Report(d) == \/ AckAfterSuccess(d) \/ ReportComplete(d)
             \/ AckAfterFailure(d) \/ ReportFail(d) \/ Return(d)

-----------------------------------------------------------------------------
(* Processes.                                                              *)

\* Every execution of the process stops where it is.
Killed(w) == [d \in Delivery |->
                IF exec[d].worker = w /\ exec[d].pc \in Alive
                THEN Over(exec[d], "gone", exec[d].ret) ELSE exec[d]]

Down(w) == /\ pool' = [pool EXCEPT ![w] = "down"]
           /\ active' = [active EXCEPT ![w] = {}]
           /\ exec' = Killed(w)
           /\ UNCHANGED tableVars

Crash(w) == w \in MayCrash /\ pool[w] # "down" /\ Down(w)

Stop(w) == /\ w \in MayStop /\ pool[w] = "up"
           /\ pool' = [pool EXCEPT ![w] = "draining"]
           /\ UNCHANGED <<job, paused, exec, active>>

\* After the grace period: release what the active map still holds, one
\* statement at a time.  The handlers are not aborted.
Release(d) ==
  /\ pool[exec[d].worker] = "draining"
  /\ d \in active[exec[d].worker]
  /\ ~exec[d].released
  /\ exec' = [exec EXCEPT ![d] = [@ EXCEPT !.released = TRUE]]
  /\ \/ releaseJob(d[1], exec[d].worker, d[3])
     \/ UNCHANGED tableVars
  /\ UNCHANGED <<pool, active>>

Exit(w) == /\ pool[w] = "draining"
           /\ \A d \in active[w] : exec[d].released
           /\ Down(w)

\* The reaper, on any instance.  The history flag marks the delivery it ended.
Reap(S) ==
  /\ reapExpiredLeases(S)
  /\ exec' = [d \in Delivery |->
                IF d[1] \in S /\ d = Current(d[1])
                THEN [exec[d] EXCEPT !.reaped = TRUE] ELSE exec[d]]
  /\ UNCHANGED <<pool, active>>

-----------------------------------------------------------------------------
QueueInit == /\ Init
             /\ exec = [d \in Delivery |-> NoExecution]
             /\ pool = [w \in Worker |-> "up"]
             /\ active = [w \in Worker |-> {}]

QueueNext ==
  \/ AdminNext /\ UNCHANGED workerVars
  \/ \E S \in SUBSET Job : Reap(S)
  \/ \E w \in Worker, S, locked \in SUBSET Job, lost \in BOOLEAN : Claim(w, S, locked, lost)
  \/ \E d \in Delivery : \/ HeartbeatSent(d)
                         \/ HeartbeatRejected(d)
                         \/ \E answer \in {"cancel", "lost"} : HeartbeatAnswered(d, answer)
                         \/ JobTimeout(d)
                         \/ HandlerEnds(d)
                         \/ Report(d)
  \/ \E w \in Worker : Crash(w) \/ Stop(w) \/ Exit(w)
  \/ \E w \in Worker : \E d \in active[w] : Release(d)

QueueSpec == QueueInit /\ [][QueueNext]_vars

\* Scheduling the code guarantees.  Time passes: a run_at passes, and a lease
\* that no live owner renews lapses.  The reaper and the claim loop of a process
\* that stays up are loops that survive every error.  An execution that has
\* reached a report goes on, because a query settles.
Abandoned(j) == ~\E d \in Delivery : d[1] = j /\ exec[d].pc \in Alive /\ Owns(d)

LoopFairness ==
  /\ \A j \in Job : /\ WF_vars(RunAtPasses(j) /\ UNCHANGED workerVars)
                    /\ WF_vars(Abandoned(j) /\ LeaseLapses(j) /\ UNCHANGED workerVars)
                    /\ WF_vars(\E S \in SUBSET Job : j \in S /\ Reap(S))
  /\ \A w \in Worker \ (MayCrash \cup MayStop) :
        WF_vars(\E S \in SUBSET Job, lost \in BOOLEAN : Claim(w, S, {}, lost))
  /\ \A d \in Delivery : WF_vars(Report(d))

\* An assumption on the application, not on the queue: handlers settle.
HandlersSettle == \A d \in Delivery : WF_vars(HandlerEnds(d))

FairQueueSpec == QueueSpec /\ LoopFairness /\ HandlersSettle

-----------------------------------------------------------------------------
(* Properties.                                                             *)

\* Every claim is paid for: the deliveries of the current round are exactly
\* attempts 1 to "attempt" of the row, whatever became of them, none of a later
\* round exists, and a running row names the process that got the latest one.
AttemptsCountDeliveries ==
  \A d \in Delivery :
    /\ d[2] = job[d[1]].round => (exec[d].pc # "idle" <=> d[3] <= job[d[1]].attempt)
    /\ d[2] > job[d[1]].round => exec[d].pc = "idle"
    /\ (d = Current(d[1]) /\ job[d[1]].state = "running")
          => exec[d].worker = job[d[1]].worker_id

\* The ownership fence identifies one delivery: an execution that passes it is
\* the delivery the row stands for.  (report.sql.ts:20 claims it of worker_id and
\* attempt together.)
FenceIdentifiesDelivery ==
  \A d \in Delivery : exec[d].pc \in Alive /\ Owns(d) => d = Current(d[1])

\* An execution that was told it lost ownership never owns the job again, so
\* discarding its result (OwnershipLostError) strands nothing.
LostOwnershipStaysLost ==
  \A d \in Delivery : exec[d].signal = "lost" \/ "lost" \in exec[d].answers
                       => ~(exec[d].pc \in Alive /\ Owns(d))

\* A recorded outcome is that of the delivery the row stands for: it succeeded
\* only if that handler resolved with no cancellation seen before, it was dead-
\* lettered as non-retryable only if that handler threw, and as exhausted only
\* after that handler had ended.
OutcomeIsOfCurrentDelivery ==
  \A d \in Delivery : d = Current(d[1]) =>
    /\ job[d[1]].state = "succeeded" => exec[d].ret = "resolved"
    /\ job[d[1]].dead_reason = "non_retryable_error" => exec[d].ret = "threw"
    /\ job[d[1]].dead_reason = "attempts_exhausted" => exec[d].ret # "none"

\* Two handlers of one job run at once only if the queue took the job away from
\* the earlier one: its lease expired (the window delivery-guarantees.md:33
\* describes), or stop() released the job, which it does without aborting.
OverlapOnlyAfterLossOfOwnership ==
  \A d, e \in Delivery :
    /\ d[1] = e[1] /\ d # e
    /\ exec[d].pc = "handler" /\ exec[e].pc = "handler"
    => \E x \in {d, e} : exec[x].reaped \/ exec[x].released

\* The maps of a pool are keyed by job id, and their entries are its slots
\* (pool.ts:277, pool.ts:281): an execution that has ended holds none, and one
\* that goes on without its own lost it to another execution of the same job in
\* the same process, because it was reaped or has no statement left to send, or
\* because the other ended and took the entry along.
SlotsFollowDeliveries ==
  /\ \A w \in Worker : \A d \in active[w] : exec[d].worker = w /\ exec[d].pc \in Alive
  /\ \A d \in Delivery :
       exec[d].pc \in Alive /\ d \notin active[exec[d].worker]
         => \E e \in Delivery \ {d} :
              /\ e[1] = d[1] /\ exec[e].worker = exec[d].worker
              /\ exec[d].reaped \/ exec[d].pc = "returning" \/ exec[e].pc = "done"

\* What releaseJob promises (report.sql.ts:183, "immediately claimable"): a row
\* that waits to be claimed has an attempt left, so no claim that selects it
\* breaks job_attempt_bounded.
AvailableHasAttemptLeft ==
  \A j \in Job : job[j].state = "available" => job[j].attempt < MaxAttempts

\* Unless it stays paused, every job that is enqueued eventually reaches a
\* terminal state or is deleted: no delivery, crash, lost response, failed
\* report or cancellation leaves a job behind.
Settled(j) == job[j].state \in Terminal \cup {"deleted"}
EveryJobSettles ==
  <>[]~paused => \A j \in Job : job[j].state # "absent" ~> Settled(j)

=============================================================================
