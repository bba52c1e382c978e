--------------------------- MODULE JobQueueProofs ---------------------------
(***************************************************************************)
(* Theorems about workers, reports, crashes and the reaper together, for   *)
(* every number of jobs, workers, slots and attempts.                      *)
(***************************************************************************)
EXTENDS JobQueue, JobTableProofs, FiniteSetTheorems

(* What a step does to an execution.                                       *)

HearsLoss(e) == e.signal = "lost" \/ "lost" \in e.answers

\* It knows of a cancellation, or soon will, or ended because of one.
HearsCancel(e) == e.cancelRequested \/ "cancel" \in e.answers \/ e.ret = "cancelled"

\* It reports success although it saw a cancellation: nothing was there to
\* acknowledge.
Unacked(e) == e.pc = "complete" /\ e.ret = "cancelled"

\* How the handler ended is known from the moment it has, and decides which
\* statement the execution sends.
Consistent(e) ==
  /\ e.pc \in {"idle", "handler"} => e.ret = "none"
  /\ e.pc \in {"ackOk", "complete", "ackErr", "fail", "returning"} => e.ret # "none"
  /\ e.pc = "ackOk" => e.ret = "cancelled"
  /\ e.pc = "complete" => e.ret \in {"resolved", "cancelled"}
  /\ e.nonRetryable => e.ret = "threw"

\* Once begun an execution stays begun and keeps its worker, its release and its
\* mark; it never comes back to life, to its handler, to another statement once
\* the last one was sent, or to another outcome.
ExecStep(e, f) ==
  /\ f \in Execution
  /\ f.worker = e.worker
  /\ f.pc = "idle" <=> e.pc = "idle"
  /\ f.pc \in Alive => e.pc \in Alive
  /\ f.pc = "handler" => e.pc = "handler"
  /\ e.pc = "returning" => f.pc \in {"returning", "done", "gone"}
  /\ e.pc = "done" => f.pc = "done"
  /\ e.pc # "handler" => f.ret = e.ret
  /\ e.released => f.released
  /\ e.reaped => f.reaped
  /\ Consistent(e) => Consistent(f)

\* Such a step that brings the execution no news.
KeepsHearing(e, f) == /\ ExecStep(e, f)
                      /\ f.released => e.released
                      /\ HearsLoss(f) => HearsLoss(e)
                      /\ HearsCancel(f) => HearsCancel(e)
                      /\ Unacked(f) => Unacked(e)

\* The end of run() keeps the execution's identity.
LEMMA OverStep ==
  ASSUME NEW e \in Execution, e.pc \in Alive, NEW p \in {"done", "gone"},
         NEW r \in {"none", "resolved", "cancelled", "threw"},
         r = e.ret \/ (e.pc = "handler" /\ r = "threw")
  PROVE  KeepsHearing(e, Over(e, p, r))
<1> DEFINE f == Over(e, p, r)
<1>1. f \in Execution
  BY DEF Over, Execution, Points
<1>2. f.worker = e.worker /\ f.released = e.released /\ f.reaped = e.reaped
  BY DEF Over, Execution
<1>3. f.pc = p /\ f.ret = r
  BY DEF Over, Execution
<1>4. f.signal = "none" /\ f.cancelRequested = FALSE /\ f.nonRetryable = FALSE
  BY DEF Over, Execution
<1>5. f.answers = {}
  BY DEF Over, Execution
<1> HIDE DEF f
<1>6. Consistent(f)
  BY <1>3, <1>4 DEF Consistent
<1>7. ExecStep(e, f)
  BY <1>1, <1>2, <1>3, <1>6 DEF ExecStep, Alive
<1>8. ~HearsLoss(f) /\ ~Unacked(f) /\ (HearsCancel(f) => HearsCancel(e))
  BY <1>3, <1>4, <1>5 DEF HearsLoss, HearsCancel, Unacked
<1> QED
  BY <1>2, <1>7, <1>8 DEF KeepsHearing, f

\* Moving on to the next statement keeps it.
LEMMA AtStep ==
  ASSUME NEW e \in Execution, e.pc \in Alive \ {"handler", "returning"},
         NEW p \in {"returning", "ackErr", "fail", "complete"},
         p = "complete" => e.pc = "ackOk"
  PROVE  /\ ExecStep(e, At(e, p))
         /\ At(e, p).pc = p /\ At(e, p).released = e.released
         /\ HearsLoss(At(e, p)) => HearsLoss(e)
         /\ HearsCancel(At(e, p)) => HearsCancel(e)
         /\ Unacked(At(e, p)) => p = "complete" /\ e.ret = "cancelled"
<1> DEFINE f == At(e, p)
           c == e.cancelRequested /\ p \in Listening
           a == IF p \in Listening THEN e.answers ELSE {}
<1>1. c \in BOOLEAN /\ a \in SUBSET {"cancel", "lost"} /\ a \subseteq e.answers
  BY DEF Execution
<1>2. c => e.cancelRequested
  OBVIOUS
<1>3. f = [e EXCEPT !.pc = p, !.answers = a, !.cancelRequested = c]
  BY DEF At
<1> HIDE DEF f, a, c
<1>4. f \in Execution
  BY <1>1, <1>3 DEF Execution, Points, Alive
<1>5. /\ f.pc = p /\ f.worker = e.worker /\ f.ret = e.ret /\ f.released = e.released
      /\ f.reaped = e.reaped /\ f.nonRetryable = e.nonRetryable /\ f.signal = e.signal
      /\ f.answers = a /\ f.cancelRequested = c
  BY <1>3 DEF Execution
<1>6. Consistent(e) => Consistent(f)
  BY <1>5 DEF Consistent, Alive
<1>7. ExecStep(e, f)
  BY <1>4, <1>5, <1>6 DEF ExecStep, Alive
<1>8. (HearsLoss(f) => HearsLoss(e)) /\ (HearsCancel(f) => HearsCancel(e))
  BY <1>1, <1>2, <1>5 DEF HearsLoss, HearsCancel
<1>9. Unacked(f) => p = "complete" /\ e.ret = "cancelled"
  BY <1>5 DEF Unacked
<1> QED
  BY <1>5, <1>7, <1>8, <1>9 DEF f

\* So does the end of the handler.
LEMMA EndedStep ==
  ASSUME NEW e \in Execution, e.pc = "handler",
         NEW p \in {"ackOk", "complete", "ackErr", "fail"},
         NEW r \in {"resolved", "cancelled", "threw"}, NEW b \in BOOLEAN,
         p = "ackOk" => r = "cancelled", p = "complete" => r = "resolved",
         r = "cancelled" => e.cancelRequested,
         b => r = "threw" \/ e.nonRetryable
  PROVE  KeepsHearing(e, [Ended(e, p, r) EXCEPT !.nonRetryable = b])
<1> DEFINE f == [Ended(e, p, r) EXCEPT !.nonRetryable = b]
           a == IF p \in Listening THEN e.answers \ {"lost"} ELSE {}
<1>1. a \in SUBSET {"cancel", "lost"} /\ a \subseteq e.answers /\ "lost" \notin a
  BY DEF Execution
<1>2. Ended(e, p, r) = [e EXCEPT !.pc = p, !.ret = r, !.signal = "none", !.answers = a]
  BY DEF Ended
<1> HIDE DEF a
<1>3. /\ f \in Execution
      /\ f.pc = p /\ f.worker = e.worker /\ f.ret = r /\ f.released = e.released
      /\ f.reaped = e.reaped /\ f.nonRetryable = b /\ f.signal = "none"
      /\ f.answers = a /\ f.cancelRequested = e.cancelRequested
  BY <1>1, <1>2 DEF Execution, Points, Alive
<1> HIDE DEF f
<1>4. Consistent(e) => Consistent(f)
  BY <1>3 DEF Consistent
<1>5. ExecStep(e, f)
  BY <1>3, <1>4 DEF ExecStep, Alive
<1>6. ~HearsLoss(f) /\ (HearsCancel(f) => HearsCancel(e)) /\ ~Unacked(f)
  BY <1>1, <1>3 DEF HearsLoss, HearsCancel, Unacked
<1> QED
  BY <1>3, <1>5, <1>6 DEF KeepsHearing, f

\* The handler resolves or throws.
LEMMA SettledStep ==
  ASSUME NEW e \in Execution, e.pc = "handler"
  PROVE  /\ KeepsHearing(e, Resolved(e))
         /\ \A kind : KeepsHearing(e, Threw(e, kind))
<1>0. e.nonRetryable \in BOOLEAN /\ e.cancelRequested \in BOOLEAN
  BY DEF Execution
<1>1. KeepsHearing(e, Resolved(e))
  <2> DEFINE p == IF e.cancelRequested THEN "ackOk" ELSE "complete"
             r == IF e.cancelRequested THEN "cancelled" ELSE "resolved"
             b == e.nonRetryable
  <2>1. KeepsHearing(e, [Ended(e, p, r) EXCEPT !.nonRetryable = b])
    BY <1>0, EndedStep
  <2>2. Resolved(e) = Ended(e, p, r)
    BY DEF Resolved
  <2>3. Ended(e, p, r) = [Ended(e, p, r) EXCEPT !.nonRetryable = b]
    BY DEF Ended, Execution
  <2> QED
    BY <2>1, <2>2, <2>3
<1>2. ASSUME NEW kind PROVE KeepsHearing(e, Threw(e, kind))
  <2> DEFINE p == IF e.cancelRequested \/ kind = "cancel" THEN "ackErr" ELSE "fail"
             b == kind = "nonRetryable"
  <2>1. KeepsHearing(e, [Ended(e, p, "threw") EXCEPT !.nonRetryable = b])
    BY EndedStep
  <2> QED
    BY <2>1 DEF Threw
<1> QED
  BY <1>1, <1>2

\* What only touches signals, answers and flags is such a step.
LEMMA SameProgress ==
  ASSUME NEW e, NEW f \in Execution,
         f.pc = e.pc, f.worker = e.worker, f.ret = e.ret, f.nonRetryable = e.nonRetryable,
         e.released => f.released, e.reaped => f.reaped
  PROVE  ExecStep(e, f) /\ (Unacked(f) => Unacked(e))
<1>1. Consistent(e) => Consistent(f)
  BY DEF Consistent
<1> QED
  BY <1>1 DEF ExecStep, Unacked

\* A heartbeat and its answer.
LEMMA HeartbeatStep ==
  ASSUME NEW e \in Execution, NEW answer \in {"cancel", "lost"}
  PROVE  /\ ExecStep(e, Awaiting(e, answer))
         /\ Awaiting(e, answer).released = e.released
         /\ answer = "cancel" => (HearsLoss(Awaiting(e, answer)) => HearsLoss(e))
         /\ answer = "lost" => (HearsCancel(Awaiting(e, answer)) => HearsCancel(e))
         /\ Unacked(Awaiting(e, answer)) => Unacked(e)
         /\ answer \in e.answers => KeepsHearing(e, Told(e, answer))
<1> DEFINE a == e.answers \cup {answer}
           b == e.answers \ {answer}
           s == IF e.pc = "handler" THEN Aborted(e, answer) ELSE e.signal
           c == e.cancelRequested \/ answer = "cancel"
<1>1. /\ a \in SUBSET {"cancel", "lost"} /\ b \in SUBSET {"cancel", "lost"}
      /\ s \in {"none", "timeout", "lost", "cancel"} /\ c \in BOOLEAN
  BY DEF Aborted, Execution
<1>2. Awaiting(e, answer) = [e EXCEPT !.answers = a]
  BY DEF Awaiting
<1>3. Told(e, answer) = [e EXCEPT !.answers = b, !.cancelRequested = c, !.signal = s]
  BY DEF Told
<1>4. /\ s = "lost" => e.signal = "lost" \/ answer = "lost"
      /\ c => e.cancelRequested \/ answer = "cancel"
      /\ b \subseteq e.answers
      /\ \A x : x \in a => x \in e.answers \/ x = answer
  BY DEF Aborted
<1> HIDE DEF a, b, s, c
<1>5. ExecStep(e, Awaiting(e, answer)) /\ (Unacked(Awaiting(e, answer)) => Unacked(e))
  <2>1. Awaiting(e, answer) \in Execution
    BY <1>1, <1>2 DEF Execution
  <2> QED
    BY <1>2, <2>1, SameProgress DEF Execution
<1>6. /\ answer = "cancel" => (HearsLoss(Awaiting(e, answer)) => HearsLoss(e))
      /\ answer = "lost" => (HearsCancel(Awaiting(e, answer)) => HearsCancel(e))
  BY <1>2, <1>4 DEF Execution, HearsLoss, HearsCancel
<1>9. Awaiting(e, answer).released = e.released /\ Told(e, answer).released = e.released
  BY <1>2, <1>3 DEF Execution
<1>7. ExecStep(e, Told(e, answer)) /\ (Unacked(Told(e, answer)) => Unacked(e))
  <2>1. Told(e, answer) \in Execution
    BY <1>1, <1>3 DEF Execution
  <2> QED
    BY <1>3, <2>1, SameProgress DEF Execution
<1>8. ASSUME answer \in e.answers PROVE KeepsHearing(e, Told(e, answer))
  <2>1. HearsLoss(Told(e, answer)) => HearsLoss(e)
    BY <1>3, <1>4, <1>8 DEF Execution, HearsLoss
  <2>2. HearsCancel(Told(e, answer)) => HearsCancel(e)
    BY <1>3, <1>4, <1>8 DEF Execution, HearsCancel
  <2> QED
    BY <1>7, <1>9, <2>1, <2>2 DEF KeepsHearing
<1> QED
  BY <1>5, <1>6, <1>8, <1>9

\* Setting a flag, or nothing at all.
LEMMA FlagStep ==
  ASSUME NEW e \in Execution
  PROVE  /\ KeepsHearing(e, e)
         /\ KeepsHearing(e, [e EXCEPT !.reaped = TRUE])
         /\ KeepsHearing(e, [e EXCEPT !.signal = "timeout"])
<1>1. ASSUME NEW f \in {e, [e EXCEPT !.reaped = TRUE], [e EXCEPT !.signal = "timeout"]}
      PROVE  KeepsHearing(e, f)
  <2>1. f \in Execution
    BY <1>1 DEF Execution
  <2>2. /\ f.pc = e.pc /\ f.worker = e.worker /\ f.ret = e.ret /\ f.nonRetryable = e.nonRetryable
        /\ f.released = e.released
        /\ e.reaped => f.reaped
        /\ f.answers = e.answers /\ f.cancelRequested = e.cancelRequested
        /\ f.signal \in {e.signal, "timeout"}
    BY <1>1 DEF Execution
  <2>3. ExecStep(e, f) /\ (Unacked(f) => Unacked(e))
    BY <2>1, <2>2, SameProgress
  <2>4. (HearsLoss(f) => HearsLoss(e)) /\ (HearsCancel(f) => HearsCancel(e))
    BY <2>2 DEF HearsLoss, HearsCancel
  <2> QED
    BY <2>2, <2>3, <2>4 DEF KeepsHearing
<1> QED
  BY <1>1

\* Releasing it.
LEMMA ReleasedStep ==
  ASSUME NEW e \in Execution
  PROVE  LET f == [e EXCEPT !.released = TRUE]
         IN  /\ ExecStep(e, f)
             /\ HearsLoss(f) => HearsLoss(e)
             /\ HearsCancel(f) => HearsCancel(e)
             /\ Unacked(f) => Unacked(e)
<1> DEFINE f == [e EXCEPT !.released = TRUE]
<1>1. f \in Execution
  BY DEF Execution
<1>2. /\ f.pc = e.pc /\ f.worker = e.worker /\ f.ret = e.ret /\ f.nonRetryable = e.nonRetryable
      /\ f.released /\ f.reaped = e.reaped
      /\ f.answers = e.answers /\ f.cancelRequested = e.cancelRequested /\ f.signal = e.signal
  BY DEF Execution
<1> HIDE DEF f
<1>3. ExecStep(e, f) /\ (Unacked(f) => Unacked(e))
  BY <1>1, <1>2, SameProgress
<1>4. (HearsLoss(f) => HearsLoss(e)) /\ (HearsCancel(f) => HearsCancel(e))
  BY <1>2 DEF HearsLoss, HearsCancel
<1> QED
  BY <1>3, <1>4 DEF f

-----------------------------------------------------------------------------
(* What a step of the queue does to the table.                             *)

\* Every step but the claim.
QuietQueueNext ==
  \/ AdminNext /\ UNCHANGED workerVars
  \/ \E S \in SUBSET Job : Reap(S)
  \/ \E d \in Delivery : \/ HeartbeatSent(d)
                         \/ HeartbeatRejected(d)
                         \/ \E answer \in {"cancel", "lost"} : HeartbeatAnswered(d, answer)
                         \/ JobTimeout(d)
                         \/ HandlerEnds(d)
                         \/ Report(d)
  \/ \E w \in Worker : Crash(w) \/ Stop(w) \/ Exit(w)
  \/ \E w \in Worker : \E d \in active[w] : Release(d)

\* Only a real worker passes the fence.
LEMMA FenceOwner ==
  ASSUME TypeOK, RowsPassChecks, NEW j \in Job, NEW w, NEW a, Fence(j, w, a)
  PROVE  w \in Worker
BY DEF TypeOK, Row, RowsPassChecks, RowPassesChecks, Fence

\* A delivery names a job and an attempt number.
LEMMA DeliveryParts ==
  ASSUME NEW d \in Delivery
  PROVE  d[1] \in Job /\ d[2] \in 0..MaxReplays /\ d[3] \in 1..MaxAttempts /\ d = <<d[1], d[2], d[3]>>
BY DEF Delivery

\* A fenced statement that a delivery sends is a report of the table.
LEMMA ReportsAreReports ==
  ASSUME TypeOK, RowsPassChecks, NEW d \in Delivery, NEW w,
         \/ completeJob(d[1], w, d[3])
         \/ \E b \in BOOLEAN : failJob(d[1], w, d[3], b)
         \/ heartbeatJob(d[1], w, d[3])
         \/ acknowledgeCancellation(d[1], w, d[3])
         \/ releaseJob(d[1], w, d[3])
  PROVE  ReportNext
<1>1. d[1] \in Job /\ d[3] \in 1..MaxAttempts
  BY DeliveryParts
<1>2. Fence(d[1], w, d[3])
  BY DEF completeJob, failJob, heartbeatJob, acknowledgeCancellation, releaseJob
<1>3. w \in Worker
  BY <1>1, <1>2, FenceOwner
<1> QED
  BY <1>1, <1>3 DEF ReportNext

\* A step that is not a claim is an administrative statement, a report, a reap,
\* or leaves the table alone.
LEMMA QuietTable ==
  ASSUME QueueTypeOK, RowsPassChecks, QuietQueueNext
  PROVE  AdminNext \/ ReportNext \/ ReaperNext \/ UNCHANGED tableVars
<1> DEFINE Goal == AdminNext \/ ReportNext \/ ReaperNext \/ UNCHANGED tableVars
<1>0. TypeOK
  BY DEF QueueTypeOK
<1>1. ASSUME NEW S \in SUBSET Job, Reap(S) PROVE Goal
  BY <1>1 DEF Reap, ReaperNext
<1>2. ASSUME NEW d \in Delivery, HeartbeatSent(d) PROVE Goal
  BY <1>0, <1>2, ReportsAreReports DEF HeartbeatSent
<1>3. ASSUME NEW d \in Delivery,
             HeartbeatRejected(d) \/ JobTimeout(d) \/ HandlerEnds(d)
               \/ \E answer \in {"cancel", "lost"} : HeartbeatAnswered(d, answer)
      PROVE  Goal
  BY <1>3 DEF HeartbeatRejected, JobTimeout, HandlerEnds, HeartbeatAnswered,
              HandlerResolves, HandlerThrows, HandlerGivesUp, Finish, tableVars
<1>4. ASSUME NEW d \in Delivery, AckAfterSuccess(d) \/ ReportComplete(d) \/ AckAfterFailure(d)
      PROVE  Goal
  <2>1. ASSUME acknowledgeCancellation(d[1], exec[d].worker, d[3])
                 \/ completeJob(d[1], exec[d].worker, d[3])
        PROVE  ReportNext
    BY <1>0, <2>1, ReportsAreReports
  <2> QED
    BY <1>4, <2>1 DEF AckAfterSuccess, ReportComplete, AckAfterFailure
<1>5. ASSUME NEW d \in Delivery, ReportFail(d) PROVE Goal
  <2>1. exec[d].nonRetryable \in BOOLEAN
    BY DEF QueueTypeOK, Execution
  <2>2. ASSUME failJob(d[1], exec[d].worker, d[3], exec[d].nonRetryable)
        PROVE  ReportNext
    BY <1>0, <2>1, <2>2, ReportsAreReports
  <2> QED
    BY <1>5, <2>2 DEF ReportFail
<1>6. ASSUME NEW d \in Delivery, Return(d) PROVE Goal
  BY <1>6 DEF Return, Finish, tableVars
<1>7. ASSUME NEW w \in Worker, Crash(w) \/ Stop(w) \/ Exit(w) PROVE Goal
  BY <1>7 DEF Crash, Stop, Exit, Down, tableVars
<1>8. ASSUME NEW w \in Worker, NEW d \in active[w], Release(d) PROVE Goal
  <2>1. d \in Delivery
    BY DEF QueueTypeOK
  <2>2. ASSUME releaseJob(d[1], exec[d].worker, d[3]) PROVE ReportNext
    BY <1>0, <2>1, <2>2, ReportsAreReports
  <2> QED
    BY <1>8, <2>2 DEF Release
<1> HIDE DEF Goal
<1>9. ASSUME AdminNext PROVE Goal
  BY <1>9 DEF Goal
<1>10. Goal
  BY <1>1, <1>2, <1>3, <1>4, <1>5, <1>6, <1>7, <1>8, <1>9 DEF QuietQueueNext, Report
<1> QED
  BY <1>10 DEF Goal

-----------------------------------------------------------------------------
(* What a step that is not a claim does to the executions.                 *)

\* News is true.  A loss was heard while the fence did reject the execution, a
\* cancellation while one was requested, and there was nothing to acknowledge when
\* the acknowledgement changed no row.  Only a pool that drains releases.
News(d, e, f) ==
  /\ f.released => e.released \/ pool[e.worker] = "draining"
  /\ HearsLoss(f) => HearsLoss(e) \/ (e.pc # "idle" /\ ~Owns(d) /\ UNCHANGED job)
  /\ HearsCancel(f) => HearsCancel(e) \/ job'[d[1]].cancel
  /\ Unacked(f) => Unacked(e) \/ (/\ e.pc \in Alive /\ e.ret = "cancelled"
                                  /\ ~(Owns(d) /\ job[d[1]].cancel) /\ UNCHANGED job)

HearsTruth(d) == News(d, exec[d], exec'[d])

QuietExec(d) == ExecStep(exec[d], exec'[d]) /\ HearsTruth(d)

\* A step without news is one with true news only.
LEMMA NoNews ==
  ASSUME NEW d, NEW e, NEW f, KeepsHearing(e, f)
  PROVE  ExecStep(e, f) /\ News(d, e, f)
BY DEF KeepsHearing, News

\* A step that moves no execution.
LEMMA NoExec ==
  ASSUME QueueTypeOK, exec' = exec
  PROVE  exec' \in [Delivery -> Execution] /\ \A e \in Delivery : QuietExec(e)
<1>1. \A e \in Delivery : exec[e] \in Execution
  BY DEF QueueTypeOK
<1>2. \A e \in Delivery : KeepsHearing(exec[e], exec[e])
  BY <1>1, FlagStep
<1> QED
  BY <1>2, NoNews DEF QueueTypeOK, QuietExec, HearsTruth

\* A step that moves one execution.
LEMMA OneExec ==
  ASSUME QueueTypeOK, NEW d \in Delivery, NEW f, exec' = [exec EXCEPT ![d] = f],
         KeepsHearing(exec[d], f) \/ (ExecStep(exec[d], f) /\ News(d, exec[d], f))
  PROVE  exec' \in [Delivery -> Execution] /\ \A e \in Delivery : QuietExec(e)
<1>1. \A e \in Delivery : exec[e] \in Execution
  BY DEF QueueTypeOK
<1>2. \A e \in Delivery : KeepsHearing(exec[e], exec[e])
  BY <1>1, FlagStep
<1>3. ExecStep(exec[d], f) /\ News(d, exec[d], f) /\ f \in Execution
  BY NoNews DEF ExecStep
<1>4. exec' \in [Delivery -> Execution]
  BY <1>3 DEF QueueTypeOK
<1>5. exec'[d] = f /\ \A e \in Delivery \ {d} : exec'[e] = exec[e]
  BY DEF QueueTypeOK
<1>6. QuietExec(d)
  BY <1>3, <1>5 DEF QuietExec, HearsTruth
<1>7. ASSUME NEW e \in Delivery \ {d} PROVE QuietExec(e)
  BY <1>2, <1>5, NoNews DEF QuietExec, HearsTruth
<1> QED
  BY <1>4, <1>6, <1>7

\* A step that may move any of them.
LEMMA ManyExecs ==
  ASSUME QueueTypeOK, exec' = [d \in Delivery |-> exec'[d]],
         \A d \in Delivery : KeepsHearing(exec[d], exec'[d])
  PROVE  exec' \in [Delivery -> Execution] /\ \A e \in Delivery : QuietExec(e)
<1>1. \A d \in Delivery : exec'[d] \in Execution
  BY DEF KeepsHearing, ExecStep
<1>2. \A d \in Delivery : QuietExec(d)
  BY NoNews DEF QuietExec, HearsTruth
<1> QED
  BY <1>1, <1>2

\* An execution that goes on to another statement.
LEMMA GotoExec ==
  ASSUME QueueTypeOK, NEW d \in Delivery, exec[d].pc \in Alive \ {"handler", "returning"},
         NEW p \in {"returning", "ackErr", "fail", "complete"}, Goto(d, p),
         p = "complete" => /\ exec[d].pc = "ackOk"
                           /\ ~(Owns(d) /\ job[d[1]].cancel)
                           /\ UNCHANGED job
  PROVE  exec' \in [Delivery -> Execution] /\ \A e \in Delivery : QuietExec(e)
<1> DEFINE f == At(exec[d], p)
<1>1. exec[d] \in Execution
  BY DEF QueueTypeOK
<1>2. /\ ExecStep(exec[d], f)
      /\ HearsLoss(f) => HearsLoss(exec[d])
      /\ HearsCancel(f) => HearsCancel(exec[d])
      /\ Unacked(f) => p = "complete" /\ exec[d].ret = "cancelled"
      /\ f.released = exec[d].released
  BY <1>1, AtStep
<1>3. exec' = [exec EXCEPT ![d] = f]
  BY DEF Goto
<1> HIDE DEF f
<1>4. News(d, exec[d], f)
  BY <1>2 DEF News
<1> QED
  BY <1>2, <1>3, <1>4, OneExec

\* A process that goes down.
LEMMA DownExec ==
  ASSUME QueueTypeOK, NEW w \in Worker, Down(w)
  PROVE  exec' \in [Delivery -> Execution] /\ \A e \in Delivery : QuietExec(e)
<1>1. \A d \in Delivery : exec[d] \in Execution
  BY DEF QueueTypeOK
<1>2. \A d \in Delivery : exec[d].ret \in {"none", "resolved", "cancelled", "threw"}
  BY <1>1 DEF Execution
<1>3. exec' = [d \in Delivery |-> exec'[d]]
  BY DEF Down, Killed
<1>4. \A d \in Delivery :
        \/ exec'[d] = exec[d]
        \/ exec[d].pc \in Alive /\ exec'[d] = Over(exec[d], "gone", exec[d].ret)
  BY DEF Down, Killed
<1>5. ASSUME NEW d \in Delivery PROVE KeepsHearing(exec[d], exec'[d])
  <2>1. KeepsHearing(exec[d], exec[d])
    BY <1>1, FlagStep
  <2>2. ASSUME exec[d].pc \in Alive PROVE KeepsHearing(exec[d], Over(exec[d], "gone", exec[d].ret))
    BY <1>1, <1>2, <2>2, OverStep
  <2> QED
    BY <1>4, <2>1, <2>2
<1> QED
  BY <1>3, <1>5, ManyExecs

\* No step but the claim begins an execution or moves one to another process,
\* and none takes back that it was released; a lost lease is heard of only from
\* a heartbeat that the fence did reject.
LEMMA QuietExecs ==
  ASSUME QueueTypeOK, QuietQueueNext
  PROVE  exec' \in [Delivery -> Execution] /\ \A e \in Delivery : QuietExec(e)
<1> DEFINE Goal == exec' \in [Delivery -> Execution] /\ \A e \in Delivery : QuietExec(e)
<1>0. \A d \in Delivery : exec[d] \in Execution
  BY DEF QueueTypeOK
<1>1. ASSUME exec' = exec PROVE Goal
  BY <1>1, NoExec
<1>2. ASSUME NEW S \in SUBSET Job, Reap(S) PROVE Goal
  <2>1. exec' = [d \in Delivery |-> exec'[d]]
    BY <1>2 DEF Reap
  <2>2. ASSUME NEW d \in Delivery PROVE exec'[d] \in {exec[d], [exec[d] EXCEPT !.reaped = TRUE]}
    BY <1>2 DEF Reap
  <2>3. ASSUME NEW d \in Delivery PROVE KeepsHearing(exec[d], exec'[d])
    BY <1>0, <2>2, FlagStep
  <2> QED
    BY <2>1, <2>3, ManyExecs
<1>3. ASSUME NEW d \in Delivery, HeartbeatSent(d) PROVE Goal
  <2> DEFINE f == Awaiting(exec[d], "cancel")
  <2>1. /\ ExecStep(exec[d], f) /\ f.released = exec[d].released
        /\ (HearsLoss(f) => HearsLoss(exec[d])) /\ (Unacked(f) => Unacked(exec[d]))
    BY <1>0, HeartbeatStep
  <2>2. exec' = exec \/ exec' = [exec EXCEPT ![d] = Awaiting(exec[d], "cancel")]
    BY <1>3 DEF HeartbeatSent
  <2>3. ASSUME exec' # exec PROVE Goal
    <3>1. job[d[1]].cancel /\ exec' = [exec EXCEPT ![d] = f]
      BY <1>3, <2>3 DEF HeartbeatSent
    <3>2. job' = [job EXCEPT ![d[1]] = HeartBeaten(job[d[1]])]
      BY <1>3 DEF HeartbeatSent, heartbeatJob
    <3>3. job'[d[1]].cancel
      BY <3>1, <3>2, DeliveryParts DEF QueueTypeOK, TypeOK, Row, HeartBeaten
    <3> HIDE DEF f
    <3>4. News(d, exec[d], f)
      BY <2>1, <3>3 DEF News
    <3> QED
      BY <2>1, <3>1, <3>4, OneExec
  <2> QED
    BY <1>1, <2>2, <2>3
<1>4. ASSUME NEW d \in Delivery, HeartbeatRejected(d) PROVE Goal
  <2> DEFINE f == Awaiting(exec[d], "lost")
  <2>1. /\ ExecStep(exec[d], f) /\ f.released = exec[d].released
        /\ (HearsCancel(f) => HearsCancel(exec[d])) /\ (Unacked(f) => Unacked(exec[d]))
    BY <1>0, HeartbeatStep
  <2>2. exec[d].pc # "idle" /\ ~Owns(d) /\ UNCHANGED job
    BY <1>4 DEF HeartbeatRejected
  <2>3. exec' = [exec EXCEPT ![d] = f]
    BY <1>4 DEF HeartbeatRejected
  <2> HIDE DEF f
  <2>4. News(d, exec[d], f)
    BY <2>1, <2>2 DEF News
  <2> QED
    BY <2>1, <2>3, <2>4, OneExec
<1>5. ASSUME NEW d \in Delivery, NEW answer \in {"cancel", "lost"}, HeartbeatAnswered(d, answer)
      PROVE  Goal
  <2>1. KeepsHearing(exec[d], Told(exec[d], answer))
    BY <1>0, <1>5, HeartbeatStep DEF HeartbeatAnswered
  <2>2. exec' = [exec EXCEPT ![d] = Told(exec[d], answer)]
    BY <1>5 DEF HeartbeatAnswered
  <2> QED
    BY <2>1, <2>2, OneExec
<1>6. ASSUME NEW d \in Delivery, JobTimeout(d) PROVE Goal
  <2>1. KeepsHearing(exec[d], [exec[d] EXCEPT !.signal = "timeout"])
    BY <1>0, FlagStep
  <2>2. exec' = [exec EXCEPT ![d] = [exec[d] EXCEPT !.signal = "timeout"]]
    BY <1>6 DEF JobTimeout
  <2> QED
    BY <2>1, <2>2, OneExec
<1>7. ASSUME NEW d \in Delivery, HandlerResolves(d) PROVE Goal
  <2>1. KeepsHearing(exec[d], Resolved(exec[d]))
    BY <1>0, <1>7, SettledStep DEF HandlerResolves
  <2>2. exec' = [exec EXCEPT ![d] = Resolved(exec[d])]
    BY <1>7 DEF HandlerResolves
  <2> QED
    BY <2>1, <2>2, OneExec
<1>8. ASSUME NEW d \in Delivery, NEW kind, HandlerThrows(d, kind) PROVE Goal
  <2>1. KeepsHearing(exec[d], Threw(exec[d], kind))
    BY <1>0, <1>8, SettledStep DEF HandlerThrows
  <2>2. exec' = [exec EXCEPT ![d] = Threw(exec[d], kind)]
    BY <1>8 DEF HandlerThrows
  <2> QED
    BY <2>1, <2>2, OneExec
<1>9. ASSUME NEW d \in Delivery, NEW r \in {"none", "resolved", "cancelled", "threw"},
             exec[d].pc \in Alive, Finish(d, r),
             r = exec[d].ret \/ (exec[d].pc = "handler" /\ r = "threw")
      PROVE  Goal
  <2>1. KeepsHearing(exec[d], Over(exec[d], "done", r))
    BY <1>0, <1>9, OverStep
  <2>2. exec' = [exec EXCEPT ![d] = Over(exec[d], "done", r)]
    BY <1>9 DEF Finish
  <2> QED
    BY <2>1, <2>2, OneExec
<1>10. ASSUME NEW d \in Delivery, HandlerEnds(d) PROVE Goal
  <2>1. ASSUME HandlerGivesUp(d) PROVE Goal
    BY <1>9, <2>1 DEF HandlerGivesUp, Alive
  <2> QED
    BY <1>7, <1>8, <1>10, <2>1 DEF HandlerEnds
<1>11. ASSUME NEW d \in Delivery, Report(d) PROVE Goal
  <2>1. ASSUME Return(d) PROVE Goal
    <3>1. exec[d].ret \in {"none", "resolved", "cancelled", "threw"}
      BY <1>0 DEF Execution
    <3> QED
      BY <1>9, <2>1, <3>1 DEF Return, Alive
  <2>2. ASSUME AckAfterSuccess(d) \/ ReportComplete(d) \/ AckAfterFailure(d) \/ ReportFail(d)
        PROVE  /\ exec[d].pc \in Alive \ {"handler", "returning"}
               /\ \/ \E p \in {"returning", "ackErr", "fail"} : Goto(d, p)
                  \/ /\ Goto(d, "complete") /\ UNCHANGED job
                     /\ exec[d].pc = "ackOk" /\ ~(Owns(d) /\ job[d[1]].cancel)
    BY <2>2 DEF AckAfterSuccess, ReportComplete, AckAfterFailure, ReportFail, Caught, Alive, tableVars
  <2>3. ASSUME exec[d].pc \in Alive \ {"handler", "returning"},
               NEW p \in {"returning", "ackErr", "fail"}, Goto(d, p)
        PROVE  Goal
    BY <2>3, GotoExec
  <2>4. ASSUME exec[d].pc = "ackOk", Goto(d, "complete"), UNCHANGED job,
               ~(Owns(d) /\ job[d[1]].cancel)
        PROVE  Goal
    BY <2>4, GotoExec DEF Alive
  <2> HIDE DEF Goal
  <2> QED
    BY <1>11, <2>1, <2>2, <2>3, <2>4 DEF Report
<1>12. ASSUME NEW w \in Worker, Crash(w) \/ Stop(w) \/ Exit(w) PROVE Goal
  <2>1. ASSUME Down(w) PROVE Goal
    BY <2>1, DownExec
  <2>2. ASSUME Stop(w) PROVE Goal
    BY <1>1, <2>2 DEF Stop
  <2> QED
    BY <1>12, <2>1, <2>2 DEF Crash, Exit
<1>13. ASSUME NEW w \in Worker, NEW d \in active[w], Release(d) PROVE Goal
  <2>1. d \in Delivery
    BY DEF QueueTypeOK
  <2> DEFINE f == [exec[d] EXCEPT !.released = TRUE]
  <2>2. /\ ExecStep(exec[d], f) /\ (HearsLoss(f) => HearsLoss(exec[d]))
        /\ (HearsCancel(f) => HearsCancel(exec[d])) /\ (Unacked(f) => Unacked(exec[d]))
    BY <1>0, <2>1, ReleasedStep
  <2>3. exec' = [exec EXCEPT ![d] = f] /\ pool[exec[d].worker] = "draining"
    BY <1>13 DEF Release
  <2> HIDE DEF f
  <2>4. News(d, exec[d], f)
    BY <2>2, <2>3 DEF News
  <2> QED
    BY <2>1, <2>2, <2>3, <2>4, OneExec
<1>14. ASSUME UNCHANGED workerVars PROVE Goal
  BY <1>1, <1>14 DEF workerVars
<1> HIDE DEF Goal
<1>15. Goal
  BY <1>2, <1>3, <1>4, <1>5, <1>6, <1>10, <1>11, <1>12, <1>13, <1>14 DEF QuietQueueNext
<1> QED
  BY <1>15 DEF Goal

\* Only a claim adds to the active map, and no process starts again.
LEMMA QuietPools ==
  ASSUME QueueTypeOK, QuietQueueNext
  PROVE  /\ pool' \in [Worker -> {"up", "draining", "down"}]
         /\ active' \in [Worker -> SUBSET Delivery]
         /\ \A w \in Worker : pool'[w] = "up" => pool[w] = "up"
<1> DEFINE Goal == /\ pool' \in [Worker -> {"up", "draining", "down"}]
                   /\ active' \in [Worker -> SUBSET Delivery]
                   /\ \A w \in Worker : pool'[w] = "up" => pool[w] = "up"
<1>1. ASSUME UNCHANGED <<pool, active>> PROVE Goal
  BY <1>1 DEF QueueTypeOK
<1>2. ASSUME NEW d \in Delivery, NEW r, Finish(d, r) PROVE Goal
  BY <1>2 DEF Finish, DeleteEntry, QueueTypeOK
<1>3. ASSUME NEW w \in Worker, Crash(w) \/ Stop(w) \/ Exit(w) PROVE Goal
  BY <1>3 DEF Crash, Stop, Exit, Down, QueueTypeOK
<1> HIDE DEF Goal
<1>4. ASSUME NEW S \in SUBSET Job, Reap(S) PROVE Goal
  BY <1>1, <1>4 DEF Reap
<1>5. ASSUME NEW d \in Delivery,
             HeartbeatSent(d) \/ HeartbeatRejected(d) \/ JobTimeout(d)
               \/ \E answer \in {"cancel", "lost"} : HeartbeatAnswered(d, answer)
      PROVE  Goal
  BY <1>1, <1>5 DEF HeartbeatSent, HeartbeatRejected, JobTimeout, HeartbeatAnswered
<1>6. ASSUME NEW d \in Delivery, HandlerEnds(d) PROVE Goal
  BY <1>1, <1>2, <1>6 DEF HandlerEnds, HandlerResolves, HandlerThrows, HandlerGivesUp
<1>7. ASSUME NEW d \in Delivery, Report(d) PROVE Goal
  <2>1. ASSUME AckAfterSuccess(d) \/ ReportComplete(d) \/ AckAfterFailure(d) \/ ReportFail(d)
        PROVE  UNCHANGED <<pool, active>>
    BY <2>1 DEF AckAfterSuccess, ReportComplete, AckAfterFailure, ReportFail, Caught, Goto
  <2> QED
    BY <1>1, <1>2, <1>7, <2>1 DEF Report, Return
<1>8. ASSUME NEW w \in Worker, NEW d \in active[w], Release(d) PROVE Goal
  BY <1>1, <1>8 DEF Release
<1>9. ASSUME UNCHANGED workerVars PROVE Goal
  BY <1>1, <1>9 DEF workerVars
<1>10. Goal
  BY <1>3, <1>4, <1>5, <1>6, <1>7, <1>8, <1>9 DEF QuietQueueNext
<1> QED
  BY <1>10 DEF Goal

\* What a step that is not a claim does to the counters, the owner and the
\* cancellation request of a row.
RowKept(r, q) ==
  \/ /\ q.attempt = r.attempt
     /\ q.round = r.round
     /\ q.state = "running" => /\ r.state = "running" /\ q.worker_id = r.worker_id
                               /\ r.cancel => q.cancel
  \/ /\ r.state = "dead"
     /\ r.round < MaxReplays
     /\ q.round = r.round + 1
     /\ q.attempt = 0
     /\ q.state = "available"

LEMMA QuietStepKeeps ==
  ASSUME NEW r \in Row, NEW q, QuietStep(r, q)
  PROVE  RowKept(r, q)
<1>1. ASSUME NEW b \in BOOLEAN, q = Inserted(r, b) PROVE RowKept(r, q)
  BY <1>1 DEF Inserted, Row, RowKept
<1>2. ASSUME q \in {Completed(r), Acknowledged(r), Released(r), Cancelled(r)}
      PROVE  RowKept(r, q)
  BY <1>2 DEF Completed, Acknowledged, Released, Cancelled, Row, RowKept
<1>3. ASSUME q \in {HeartBeaten(r), CancelRequested(r), RetriedNow(r), Lapsed(r)}
      PROVE  RowKept(r, q)
  BY <1>3 DEF HeartBeaten, CancelRequested, RetriedNow, Lapsed, Row, RowKept
<1>4. ASSUME NEW b \in BOOLEAN, q = Failed(r, b) PROVE RowKept(r, q)
  <2>1. /\ Failed(r, b).attempt = r.attempt /\ Failed(r, b).round = r.round
        /\ Failed(r, b).state # "running"
    BY FailedRow
  <2> QED
    BY <1>4, <2>1 DEF RowKept
<1>5. ASSUME q = Reaped(r) PROVE RowKept(r, q)
  <2>1. Reaped(r).attempt = r.attempt /\ Reaped(r).round = r.round /\ Reaped(r).state # "running"
    BY ReapedRow
  <2> QED
    BY <1>5, <2>1 DEF RowKept
<1>6. ASSUME r.state = "dead", r.round < MaxReplays, q = Replayed(r) PROVE RowKept(r, q)
  <2>1. /\ Replayed(r).attempt = 0 /\ Replayed(r).round = r.round + 1
        /\ Replayed(r).state = "available"
    BY ReplayedRow
  <2> QED
    BY <1>6, <2>1 DEF RowKept
<1>7. ASSUME q = Deleted(r) PROVE RowKept(r, q)
  BY <1>7 DEF Deleted, NoRow, Row, RowKept
<1>8. ASSUME q = r PROVE RowKept(r, q)
  BY <1>8 DEF RowKept
<1> QED
  BY <1>1, <1>2, <1>3, <1>4, <1>5, <1>6, <1>7, <1>8 DEF QuietStep

-----------------------------------------------------------------------------
(* What a claim does.                                                      *)

RoundsBounded == \A j \in Job : job[j].round <= MaxReplays

QueueInv == QueueTypeOK /\ RowsPassChecks /\ RoundsBounded

\* There are finitely many deliveries, so a pool has a number of slots taken.
LEMMA DeliveriesFinite ==
  ASSUME NEW D \in SUBSET Delivery
  PROVE  IsFiniteSet(D) /\ Cardinality(D) \in Nat
<1>1. IsFiniteSet(0..MaxReplays) /\ IsFiniteSet(1..MaxAttempts)
  BY FS_Interval, TableAssumptions
<1>2. IsFiniteSet((0..MaxReplays) \X (1..MaxAttempts))
  BY <1>1, FS_Product
<1> DEFINE Nested == Job \X ((0..MaxReplays) \X (1..MaxAttempts))
           f == [x \in Nested |-> <<x[1], x[2][1], x[2][2]>>]
<1>3. IsFiniteSet(Nested)
  BY <1>2, FS_Product, QueueAssumptions
<1>4. f \in [Nested -> Delivery]
  BY DEF Delivery
<1>5. ASSUME NEW d \in Delivery PROVE \E x \in Nested : f[x] = d
  <2>1. <<d[1], <<d[2], d[3]>>>> \in Nested
    BY DEF Delivery
  <2>2. f[<<d[1], <<d[2], d[3]>>>>] = d
    BY <2>1 DEF Delivery
  <2> QED
    BY <2>1, <2>2
<1>6. f \in Surjection(Nested, Delivery)
  BY <1>4, <1>5 DEF Surjection
<1> HIDE DEF Nested, f
<1>7. IsFiniteSet(Delivery)
  BY <1>3, <1>6, FS_Surjection
<1> QED
  BY <1>7, FS_Subset, FS_CardinalityType

NewDeliveries(S) == {<<j, job[j].round, job[j].attempt + 1>> : j \in S}

\* The deliveries that a claim starts are the next attempts of its jobs.
LEMMA ClaimStarts ==
  ASSUME TypeOK, RoundsBounded, NEW S \in SUBSET Job, \A j \in S : job[j].attempt < MaxAttempts
  PROVE  /\ NewDeliveries(S) \subseteq Delivery
         /\ \A d \in Delivery : d \in NewDeliveries(S) <=>
              d[1] \in S /\ d[2] = job[d[1]].round /\ d[3] = job[d[1]].attempt + 1
<1>1. ASSUME NEW j \in S
      PROVE  job[j].round \in 0..MaxReplays /\ job[j].attempt + 1 \in 1..MaxAttempts
  <2>1. job[j].round \in Nat /\ job[j].attempt \in Nat /\ job[j].round <= MaxReplays
    BY DEF TypeOK, Row, RoundsBounded
  <2> QED
    BY <2>1, TableAssumptions
<1>2. \A j \in S : <<j, job[j].round, job[j].attempt + 1>> \in Delivery
  BY <1>1 DEF Delivery
<1>3. ASSUME NEW d \in Delivery
      PROVE  d \in NewDeliveries(S) <=>
               d[1] \in S /\ d[2] = job[d[1]].round /\ d[3] = job[d[1]].attempt + 1
  BY DeliveryParts DEF NewDeliveries
<1> QED
  BY <1>2, <1>3 DEF NewDeliveries

\* The claim of a pool is a claim of the table.
LEMMA ClaimIsClaim ==
  ASSUME QueueTypeOK, NEW w \in Worker, NEW S \in SUBSET Job, NEW locked \in SUBSET Job,
         NEW lost \in BOOLEAN, Claim(w, S, locked, lost)
  PROVE  ClaimNext
<1> DEFINE limit == IF Free(w) < ClaimBatchMax THEN Free(w) ELSE ClaimBatchMax
<1>1. Cardinality(active[w]) \in Nat
  BY DeliveriesFinite DEF QueueTypeOK
<1>2. Free(w) \in Int /\ Free(w) > 0
  BY <1>1, QueueAssumptions DEF Free, Claim
<1>3. limit \in 1..ClaimBatchMax
  BY <1>2, TableAssumptions
<1>4. claimJobs(w, S, locked, limit)
  BY DEF Claim
<1> HIDE DEF limit
<1> QED
  BY <1>3, <1>4 DEF ClaimNext

\* Every step of the processes is a step of the table, or leaves it alone.
LEMMA QueueStepIsTableStep ==
  ASSUME QueueTypeOK, RowsPassChecks, [QueueNext]_vars
  PROVE  [Next]_tableVars
<1>1. ASSUME QuietQueueNext PROVE [Next]_tableVars
  BY <1>1, QuietTable DEF Next
<1>2. ASSUME UNCHANGED vars PROVE [Next]_tableVars
  BY <1>2 DEF vars, tableVars
<1>3. ASSUME NEW w \in Worker, NEW S \in SUBSET Job, NEW locked \in SUBSET Job,
             NEW lost \in BOOLEAN, Claim(w, S, locked, lost)
      PROVE  [Next]_tableVars
  BY <1>3, ClaimIsClaim DEF Next
<1> QED
  BY <1>1, <1>2, <1>3 DEF QueueNext, QuietQueueNext

\* What a claim does to the rows.
LEMMA ClaimRows ==
  ASSUME NEW w \in Worker, NEW S \in SUBSET Job, NEW locked \in SUBSET Job,
         NEW lost \in BOOLEAN, Claim(w, S, locked, lost)
  PROVE  /\ \A j \in S : job[j].state = "available" /\ job[j].attempt < MaxAttempts
         /\ \A j \in Job : job'[j] = IF j \in S THEN Claimed(job[j], w) ELSE job[j]
<1> DEFINE limit == IF Free(w) < ClaimBatchMax THEN Free(w) ELSE ClaimBatchMax
<1>1. claimJobs(w, S, locked, limit)
  BY DEF Claim
<1> HIDE DEF limit
<1> QED
  BY <1>1 DEF claimJobs, Selected, Candidates

\* What it does to the executions and the pools.
LEMMA ClaimEffect ==
  ASSUME QueueTypeOK, RoundsBounded, NEW w \in Worker, NEW S \in SUBSET Job,
         NEW locked \in SUBSET Job, NEW lost \in BOOLEAN, Claim(w, S, locked, lost)
  PROVE  /\ NewDeliveries(S) \subseteq Delivery
         /\ \A d \in NewDeliveries(S) : exec'[d] = Started(w, lost)
         /\ \A d \in Delivery \ NewDeliveries(S) : exec'[d] = exec[d]
         /\ exec' \in [Delivery -> Execution]
         /\ pool' = pool
         /\ active' \in [Worker -> SUBSET Delivery]
<1>2. \A j \in S : job[j].attempt < MaxAttempts
  BY ClaimRows
<1>3. NewDeliveries(S) \subseteq Delivery
  BY <1>2, ClaimStarts DEF QueueTypeOK
<1>4. exec' = [d \in Delivery |-> IF d \in NewDeliveries(S) THEN Started(w, lost) ELSE exec[d]]
  BY DEF Claim, NewDeliveries
<1>5. /\ \A d \in NewDeliveries(S) : exec'[d] = Started(w, lost)
      /\ \A d \in Delivery \ NewDeliveries(S) : exec'[d] = exec[d]
  BY <1>3, <1>4
<1>6. Started(w, lost) \in Execution
  BY DEF Started, NoExecution, Execution, Points, Alive
<1>7. exec' \in [Delivery -> Execution]
  BY <1>4, <1>6 DEF QueueTypeOK
<1>8. active' = active \/ active' = [active EXCEPT ![w] = SetEntries(active[w], NewDeliveries(S))]
  BY DEF Claim, NewDeliveries
<1>9. SetEntries(active[w], NewDeliveries(S)) \subseteq Delivery
  BY <1>3 DEF SetEntries, QueueTypeOK
<1>10. active' \in [Worker -> SUBSET Delivery]
  BY <1>8, <1>9 DEF QueueTypeOK
<1>11. pool' = pool
  BY DEF Claim
<1> QED
  BY <1>3, <1>5, <1>7, <1>10, <1>11

\* A step that is not a claim keeps the counters of every row, or replays it.
LEMMA QuietRows ==
  ASSUME QueueTypeOK, RowsPassChecks, QuietQueueNext \/ UNCHANGED vars
  PROVE  \A j \in Job : RowKept(job[j], job'[j])
<1>1. AdminNext \/ ReportNext \/ ReaperNext \/ UNCHANGED tableVars
  BY QuietTable DEF vars, tableVars
<1>2. \A j \in Job : QuietStep(job[j], job'[j])
  BY <1>1, QuietSteps DEF QueueTypeOK
<1> QED
  BY <1>2, QuietStepKeeps DEF QueueTypeOK, TypeOK

\* The same of the executions, stuttering included.
LEMMA QuietExecutions ==
  ASSUME QueueTypeOK, QuietQueueNext \/ UNCHANGED vars
  PROVE  exec' \in [Delivery -> Execution] /\ \A e \in Delivery : QuietExec(e)
<1>1. ASSUME UNCHANGED vars
      PROVE  exec' \in [Delivery -> Execution] /\ \A e \in Delivery : QuietExec(e)
  BY <1>1, NoExec DEF vars
<1> QED
  BY <1>1, QuietExecs

\* The type invariant needs two more facts: a fence that admits a process names a
\* real one because of the CHECK constraints, and the rounds a claim writes into
\* a delivery are bounded.
LEMMA QueueInvStep ==
  ASSUME QueueInv, [QueueNext]_vars
  PROVE  QueueInv'
<1> USE DEF QueueInv
<1>1. [Next]_tableVars
  BY QueueStepIsTableStep
<1>2. \A j \in Job : RowStep(job[j], job'[j])
  BY <1>1, StepsAreRowSteps DEF QueueTypeOK
<1>3. TypeOK'
  <2>1. \A j \in Job : job'[j] \in Row
    BY <1>2, RowStepType DEF QueueTypeOK, TypeOK
  <2>2. job' = [k \in Job |-> job'[k]] /\ paused' \in BOOLEAN
    BY <1>1, StepsAreRowSteps DEF QueueTypeOK
  <2> QED
    BY <2>1, <2>2 DEF TypeOK
<1>4. RowsPassChecks'
  BY <1>2, RowStepChecks DEF RowsPassChecks, QueueTypeOK, TypeOK
<1> DEFINE Goal == QueueInv'
<1>5. ASSUME QuietQueueNext \/ UNCHANGED vars PROVE Goal
  <2>1. exec' \in [Delivery -> Execution]
    BY <1>5, QuietExecutions
  <2>2. /\ pool' \in [Worker -> {"up", "draining", "down"}]
        /\ active' \in [Worker -> SUBSET Delivery]
    BY <1>5, QuietPools DEF QueueTypeOK, vars
  <2>3. \A j \in Job : RowKept(job[j], job'[j])
    BY <1>5, QuietRows
  <2>4. \A j \in Job : job[j].round \in Nat
    BY DEF QueueTypeOK, TypeOK, Row
  <2>5. RoundsBounded'
    BY <2>3, <2>4, TableAssumptions DEF RoundsBounded, RowKept
  <2> QED
    BY <1>3, <1>4, <2>1, <2>2, <2>5 DEF QueueTypeOK
<1>6. ASSUME NEW w \in Worker, NEW S \in SUBSET Job, NEW locked \in SUBSET Job,
             NEW lost \in BOOLEAN, Claim(w, S, locked, lost)
      PROVE  Goal
  <2>1. /\ exec' \in [Delivery -> Execution] /\ pool' = pool
        /\ active' \in [Worker -> SUBSET Delivery]
    BY <1>6, ClaimEffect
  <2>2. \A j \in Job : job'[j] = IF j \in S THEN Claimed(job[j], w) ELSE job[j]
    BY <1>6, ClaimRows
  <2>3. \A j \in Job : Claimed(job[j], w).round = job[j].round
    BY ClaimedRow DEF QueueTypeOK, TypeOK
  <2>4. RoundsBounded'
    BY <2>2, <2>3 DEF RoundsBounded
  <2> QED
    BY <1>3, <1>4, <2>1, <2>4 DEF QueueTypeOK
<1> HIDE DEF Goal
<1>7. Goal
  BY <1>5, <1>6 DEF QueueNext, QuietQueueNext
<1> QED
  BY <1>7 DEF Goal

\* It holds when the queue starts.
LEMMA QueueInvInit == QueueInit => QueueInv
<1> SUFFICES ASSUME QueueInit PROVE QueueInv
  OBVIOUS
<1>1. NoRow \in Row /\ NoRow.round = 0
  <2> DEFINE z == 0
  <2>1. z \in Nat /\ z = 0
    OBVIOUS
  <2> HIDE DEF z
  <2> QED
    BY <2>1 DEF NoRow, Row, States, Reasons
<1>2. TypeOK /\ RoundsBounded
  <2>1. TypeOK
    BY <1>1 DEF QueueInit, Init, TypeOK
  <2>2. \A j \in Job : job[j].round = 0
    BY <1>1 DEF QueueInit, Init
  <2>3. RoundsBounded
    BY <2>2, TableAssumptions DEF RoundsBounded
  <2> QED
    BY <2>1, <2>3
<1>3. RowsPassChecks
  BY TableAssumptions DEF QueueInit, Init, RowsPassChecks, RowPassesChecks, NoRow, Terminal
<1>4. NoExecution \in Execution
  BY DEF NoExecution, Execution, Points
<1>5. QueueTypeOK
  BY <1>2, <1>4 DEF QueueInit, QueueTypeOK
<1> QED
  BY <1>2, <1>3, <1>5 DEF QueueInv

\* Types, CHECK constraints and rounds stay what they should be.
LEMMA QueueInvariant == QueueSpec => []QueueInv
BY QueueInvInit, QueueInvStep, PTL DEF QueueSpec

\* The type invariant of processes, executions and rows together.
THEOREM QueueTypeCorrect == QueueSpec => []QueueTypeOK
<1>1. QueueInv => QueueTypeOK
  BY DEF QueueInv
<1> QED
  BY <1>1, QueueInvariant, PTL

\* Whatever the processes do, crashes, lost responses and late reports included,
\* they use the table as its specification allows; so every theorem about the
\* table holds of the queue: the rows pass the CHECK constraints and follow the
\* state machine of engine/state-machine.ts.
THEOREM QueueImplementsTable ==
  QueueSpec => Spec /\ []RowsPassChecks /\ ImplementsLifecycle
<1>1. QueueInit => Init
  BY DEF QueueInit
<1>2. QueueInv /\ [QueueNext]_vars => [Next]_tableVars
  BY QueueStepIsTableStep DEF QueueInv
<1>3. QueueSpec => Spec
  BY <1>1, <1>2, QueueInvariant, PTL DEF QueueSpec, Spec
<1> QED
  BY <1>3, ChecksHold, TableImplementsLifecycle

-----------------------------------------------------------------------------
(* Every attempt is a delivery.                                            *)

\* What AttemptsCountDeliveries says of one delivery, its row and its execution.
Counted(d, r, e) ==
  /\ d[2] = r.round => (e.pc # "idle" <=> d[3] <= r.attempt)
  /\ d[2] > r.round => e.pc = "idle"
  /\ (d[2] = r.round /\ d[3] = r.attempt /\ r.state = "running") => e.worker = r.worker_id

LEMMA CountedIsCounted ==
  AttemptsCountDeliveries <=> \A d \in Delivery : Counted(d, job[d[1]], exec[d])
BY DeliveryParts DEF AttemptsCountDeliveries, Counted, Current

\* The step of a claim, for the jobs it selected.
LEMMA ClaimCounts ==
  ASSUME NEW d \in Delivery, NEW r \in Row, NEW w \in Worker, NEW lost \in BOOLEAN,
         NEW e, NEW f, Counted(d, r, e),
         f = IF d[2] = r.round /\ d[3] = r.attempt + 1 THEN Started(w, lost) ELSE e
  PROVE  Counted(d, Claimed(r, w), f)
<1>1. d[2] \in Nat /\ d[3] \in Nat /\ r.attempt \in Nat /\ r.round \in Nat
  BY DeliveryParts, TableAssumptions DEF Row
<1>2. /\ Claimed(r, w).attempt = r.attempt + 1 /\ Claimed(r, w).round = r.round
      /\ Claimed(r, w).worker_id = w
  BY ClaimedRow
<1>3. Started(w, lost).pc # "idle" /\ Started(w, lost).worker = w
  BY DEF Started, NoExecution
<1> QED
  BY <1>1, <1>2, <1>3 DEF Counted

\* The step of anything else.
LEMMA QuietCounts ==
  ASSUME NEW d \in Delivery, NEW r \in Row, NEW q, NEW e, NEW f,
         Counted(d, r, e), RowKept(r, q), ExecStep(e, f)
  PROVE  Counted(d, q, f)
<1>1. d[2] \in Nat /\ d[3] \in Nat /\ d[3] > 0 /\ r.attempt \in Nat /\ r.round \in Nat
  BY DeliveryParts, TableAssumptions DEF Row
<1> QED
  BY <1>1 DEF Counted, RowKept, ExecStep

\* The attempt counter of a row counts its deliveries, for every number of jobs,
\* processes and attempts: no crash, lost claim response, report, reap, release or
\* replay makes an attempt without a delivery or a delivery without an attempt.
THEOREM AttemptsCounted == QueueSpec => []AttemptsCountDeliveries
<1>1. QueueInit => AttemptsCountDeliveries
  <2> SUFFICES ASSUME QueueInit, NEW d \in Delivery PROVE Counted(d, job[d[1]], exec[d])
    BY CountedIsCounted
  <2>1. d[1] \in Job /\ d[3] \in Nat /\ d[3] > 0
    BY DeliveryParts, TableAssumptions
  <2>2. job[d[1]].attempt = 0 /\ job[d[1]].state = "absent"
    BY <2>1 DEF QueueInit, Init, NoRow
  <2>3. exec[d].pc = "idle"
    BY DEF QueueInit, NoExecution
  <2> QED
    BY <2>1, <2>2, <2>3 DEF Counted
<1>2. QueueInv /\ AttemptsCountDeliveries /\ [QueueNext]_vars => AttemptsCountDeliveries'
  <2> SUFFICES ASSUME QueueInv, AttemptsCountDeliveries, [QueueNext]_vars,
                      NEW d \in Delivery
               PROVE  Counted(d, job'[d[1]], exec'[d])
    BY DeliveryParts DEF AttemptsCountDeliveries, Counted, Current
  <2> DEFINE Goal == Counted(d, job'[d[1]], exec'[d])
  <2>1. Counted(d, job[d[1]], exec[d])
    BY CountedIsCounted
  <2>2. d[1] \in Job /\ job[d[1]] \in Row
    BY DeliveryParts DEF QueueInv, QueueTypeOK, TypeOK
  <2>3. ASSUME QuietQueueNext \/ UNCHANGED vars PROVE Goal
    <3>1. RowKept(job[d[1]], job'[d[1]])
      BY <2>2, <2>3, QuietRows DEF QueueInv
    <3>2. ExecStep(exec[d], exec'[d])
      BY <2>3, QuietExecutions DEF QueueInv, QuietExec
    <3> QED
      BY <2>1, <2>2, <3>1, <3>2, QuietCounts
  <2>4. ASSUME NEW w \in Worker, NEW S \in SUBSET Job, NEW locked \in SUBSET Job,
               NEW lost \in BOOLEAN, Claim(w, S, locked, lost)
        PROVE  Goal
    <3>0. QueueTypeOK /\ TypeOK /\ RoundsBounded
      BY DEF QueueInv, QueueTypeOK
    <3>1. \A j \in S : job[j].attempt < MaxAttempts
      BY <2>4, ClaimRows
    <3>2. d \in NewDeliveries(S) <=>
            d[1] \in S /\ d[2] = job[d[1]].round /\ d[3] = job[d[1]].attempt + 1
      BY <3>0, <3>1, ClaimStarts
    <3>3. exec'[d] = IF d \in NewDeliveries(S) THEN Started(w, lost) ELSE exec[d]
      BY <2>4, <3>0, ClaimEffect
    <3>4. job'[d[1]] = IF d[1] \in S THEN Claimed(job[d[1]], w) ELSE job[d[1]]
      BY <2>2, <2>4, ClaimRows
    <3>5. ASSUME d[1] \in S PROVE Goal
      <4>1. exec'[d] = IF d[2] = job[d[1]].round /\ d[3] = job[d[1]].attempt + 1
                       THEN Started(w, lost) ELSE exec[d]
        BY <3>2, <3>3, <3>5
      <4>2. Counted(d, Claimed(job[d[1]], w), exec'[d])
        BY <2>1, <2>2, <4>1, ClaimCounts
      <4> QED
        BY <3>4, <3>5, <4>2
    <3>6. ASSUME d[1] \notin S PROVE Goal
      BY <2>1, <3>2, <3>3, <3>4, <3>6
    <3> QED
      BY <3>5, <3>6
  <2> HIDE DEF Goal
  <2>5. Goal
    BY <2>3, <2>4 DEF QueueNext, QuietQueueNext
  <2> QED
    BY <2>5 DEF Goal
<1> QED
  BY <1>1, <1>2, QueueInvariant, PTL DEF QueueSpec

-----------------------------------------------------------------------------
(* Slots.                                                                  *)

\* What a pool holds in its map is alive and its own.
ActiveIsAlive ==
  \A w \in Worker : \A d \in active[w] : exec[d].pc \in Alive /\ exec[d].worker = w

\* A pool of one slot holds everything it has alive, which is at most one
\* execution.  With more slots the map loses executions: two of one job share an
\* entry.
OneSlot ==
  Concurrency = 1 =>
    /\ \A d \in Delivery :
         exec[d].pc \in Alive => exec[d].worker \in Worker /\ d \in active[exec[d].worker]
    /\ \A w \in Worker : \A d, e \in active[w] : d = e

Slots == ActiveIsAlive /\ OneSlot

\* No execution that is alive ends.
NoneEnds == active' = active /\ \A e \in Delivery : exec[e].pc \in Alive => exec'[e].pc \in Alive

\* A step that is not a claim ends no execution, one, or all those of a process.
LEMMA QuietSlots ==
  ASSUME QueueTypeOK, QuietQueueNext
  PROVE  \/ NoneEnds
         \/ \E d \in Delivery : exec[d].pc \in Alive /\ \E r : Finish(d, r)
         \/ \E w \in Worker : Down(w)
<1> DEFINE Goal == \/ NoneEnds
                   \/ \E d \in Delivery : exec[d].pc \in Alive /\ \E r : Finish(d, r)
                   \/ \E w \in Worker : Down(w)
<1>0. exec \in [Delivery -> Execution] /\ \A d \in Delivery : exec[d] \in Execution
  BY DEF QueueTypeOK
<1>1. ASSUME exec' = exec, active' = active PROVE Goal
  BY <1>1 DEF NoneEnds
<1>2. ASSUME active' = active, NEW d \in Delivery, NEW f,
             f.pc \in Alive \/ f.pc = exec[d].pc, exec' = [exec EXCEPT ![d] = f]
      PROVE  Goal
  BY <1>0, <1>2 DEF NoneEnds
<1>3. ASSUME NEW S \in SUBSET Job, Reap(S) PROVE Goal
  <2>1. \A e \in Delivery : exec'[e] \in {exec[e], [exec[e] EXCEPT !.reaped = TRUE]}
    BY <1>3 DEF Reap
  <2>2. \A e \in Delivery : [exec[e] EXCEPT !.reaped = TRUE].pc = exec[e].pc
    BY <1>0 DEF Execution
  <2>3. \A e \in Delivery : exec[e].pc \in Alive => exec'[e].pc \in Alive
    BY <2>1, <2>2
  <2> QED
    BY <1>3, <2>3 DEF Reap, NoneEnds
<1>4. ASSUME NEW d \in Delivery,
             HeartbeatSent(d) \/ HeartbeatRejected(d) \/ JobTimeout(d)
               \/ \E answer \in {"cancel", "lost"} : HeartbeatAnswered(d, answer)
      PROVE  Goal
  <2>1. \A answer : Awaiting(exec[d], answer).pc = exec[d].pc /\ Told(exec[d], answer).pc = exec[d].pc
    BY <1>0 DEF Awaiting, Told, Execution
  <2>2. [exec[d] EXCEPT !.signal = "timeout"].pc = exec[d].pc
    BY <1>0 DEF Execution
  <2>3. active' = active
    BY <1>4 DEF HeartbeatSent, HeartbeatRejected, JobTimeout, HeartbeatAnswered
  <2>4. exec' = exec \/ \E f : f.pc = exec[d].pc /\ exec' = [exec EXCEPT ![d] = f]
    BY <1>4, <2>1, <2>2 DEF HeartbeatSent, HeartbeatRejected, JobTimeout, HeartbeatAnswered
  <2> QED
    BY <1>1, <1>2, <2>3, <2>4
<1>5. ASSUME NEW d \in Delivery, HandlerResolves(d) \/ \E kind : HandlerThrows(d, kind) PROVE Goal
  <2>1. /\ Resolved(exec[d]).pc \in Alive
        /\ \A kind : Threw(exec[d], kind).pc \in Alive
    BY <1>0 DEF Resolved, Threw, Ended, Execution, Alive
  <2>2. active' = active /\ \E f : f.pc \in Alive /\ exec' = [exec EXCEPT ![d] = f]
    BY <1>5, <2>1 DEF HandlerResolves, HandlerThrows
  <2> QED
    BY <1>2, <2>2
<1>6. ASSUME NEW d \in Delivery, HandlerEnds(d) PROVE Goal
  BY <1>5, <1>6 DEF HandlerEnds, HandlerGivesUp, Alive
<1>7. ASSUME NEW d \in Delivery, Report(d) PROVE Goal
  <2>1. ASSUME Return(d) PROVE Goal
    BY <2>1 DEF Return, Alive
  <2>2. ASSUME AckAfterSuccess(d) \/ ReportComplete(d) \/ AckAfterFailure(d) \/ ReportFail(d)
        PROVE  \E p \in {"returning", "ackErr", "fail", "complete"} : Goto(d, p)
    BY <2>2 DEF AckAfterSuccess, ReportComplete, AckAfterFailure, ReportFail, Caught
  <2>3. ASSUME NEW p \in {"returning", "ackErr", "fail", "complete"}, Goto(d, p) PROVE Goal
    <3>1. At(exec[d], p).pc \in Alive
      BY <1>0 DEF At, Execution, Alive
    <3> QED
      BY <1>2, <2>3, <3>1 DEF Goto
  <2> HIDE DEF Goal
  <2> QED
    BY <1>7, <2>1, <2>2, <2>3 DEF Report
<1>8. ASSUME NEW w \in Worker, Crash(w) \/ Stop(w) \/ Exit(w) PROVE Goal
  BY <1>1, <1>8 DEF Crash, Stop, Exit
<1>9. ASSUME NEW w \in Worker, NEW d \in active[w], Release(d) PROVE Goal
  <2>1. d \in Delivery
    BY DEF QueueTypeOK
  <2>2. [exec[d] EXCEPT !.released = TRUE].pc = exec[d].pc
    BY <1>0, <2>1 DEF Execution
  <2> QED
    BY <1>2, <1>9, <2>1, <2>2 DEF Release
<1>10. ASSUME UNCHANGED workerVars PROVE Goal
  BY <1>1, <1>10 DEF workerVars
<1> HIDE DEF Goal
<1>11. Goal
  BY <1>3, <1>4, <1>6, <1>7, <1>8, <1>9, <1>10 DEF QuietQueueNext
<1> QED
  BY <1>11 DEF Goal

\* A claim whose response arrives puts what it started into the map.
LEMMA ClaimFills ==
  ASSUME NEW w, NEW S, NEW locked, NEW lost, Claim(w, S, locked, lost)
  PROVE  active' = IF lost THEN active
                   ELSE [active EXCEPT ![w] = SetEntries(@, NewDeliveries(S))]
BY DEF Claim, NewDeliveries

\* A claim of a pool of one slot finds its map empty, and starts one delivery.
LEMMA ClaimOfOne ==
  ASSUME QueueTypeOK, Concurrency = 1, NEW w \in Worker, NEW S \in SUBSET Job,
         NEW locked \in SUBSET Job, NEW lost \in BOOLEAN, Claim(w, S, locked, lost)
  PROVE  active[w] = {} /\ \A i, j \in S : i = j
<1> DEFINE limit == IF Free(w) < ClaimBatchMax THEN Free(w) ELSE ClaimBatchMax
<1>1. IsFiniteSet(active[w]) /\ Cardinality(active[w]) \in Nat
  BY DeliveriesFinite DEF QueueTypeOK
<1>2. Cardinality(active[w]) = 0 /\ Free(w) = 1
  BY <1>1 DEF Claim, Free
<1>3. active[w] = {}
  BY <1>1, <1>2, FS_EmptySet
<1>4. Cardinality(S) <= limit
  BY DEF Claim, claimJobs, Selected
<1>5. limit = 1
  BY <1>2, TableAssumptions
<1>6. IsFiniteSet(S) /\ Cardinality(S) \in Nat
  BY FS_Subset, FS_CardinalityType, QueueAssumptions
<1> HIDE DEF limit
<1>7. Cardinality(S) = 0 \/ Cardinality(S) = 1
  BY <1>4, <1>5, <1>6
<1>8. \A i, j \in S : i = j
  BY <1>6, <1>7, FS_EmptySet, FS_Singleton
<1> QED
  BY <1>3, <1>8

\* A delivery that a claim starts was not begun before.
LEMMA ClaimIsNews ==
  ASSUME TypeOK, RoundsBounded, AttemptsCountDeliveries, NEW S \in SUBSET Job,
         \A j \in S : job[j].attempt < MaxAttempts, NEW d \in NewDeliveries(S)
  PROVE  exec[d].pc = "idle"
<1>1. d \in Delivery
  BY ClaimStarts
<1>2. d[1] \in Job /\ d[2] = job[d[1]].round /\ d[3] = job[d[1]].attempt + 1
  BY <1>1, ClaimStarts, DeliveryParts
<1>3. job[d[1]].attempt \in Nat
  BY <1>2 DEF TypeOK, Row
<1>4. ~(d[3] <= job[d[1]].attempt)
  BY <1>2, <1>3
<1> QED
  BY <1>1, <1>2, <1>4 DEF AttemptsCountDeliveries

\* What a pool holds stays alive, and a pool of one slot loses nothing.
LEMMA SlotsStep ==
  ASSUME QueueInv, AttemptsCountDeliveries, Slots, [QueueNext]_vars
  PROVE  Slots'
<1> DEFINE Goal == Slots'
<1>0. QueueTypeOK /\ TypeOK /\ RoundsBounded
  BY DEF QueueInv, QueueTypeOK
<1>1. exec \in [Delivery -> Execution] /\ active \in [Worker -> SUBSET Delivery]
  BY <1>0 DEF QueueTypeOK
<1>2. ASSUME QuietQueueNext \/ UNCHANGED vars
      PROVE  \A e \in Delivery : /\ exec'[e].worker = exec[e].worker
                                 /\ exec'[e].pc \in Alive => exec[e].pc \in Alive
  BY <1>0, <1>2, QuietExecutions DEF QuietExec, ExecStep
<1>3. ASSUME NoneEnds, QuietQueueNext \/ UNCHANGED vars PROVE Goal
  <2>1. ActiveIsAlive'
    BY <1>1, <1>2, <1>3 DEF Slots, ActiveIsAlive, NoneEnds
  <2>2. OneSlot'
    BY <1>2, <1>3 DEF Slots, OneSlot, NoneEnds
  <2> QED
    BY <2>1, <2>2 DEF Slots
<1>4. ASSUME QuietQueueNext, NEW d \in Delivery, exec[d].pc \in Alive, NEW r, Finish(d, r)
      PROVE  Goal
  <2> DEFINE w == exec[d].worker
  <2>1. /\ \A v \in Worker : active'[v] = IF v = w THEN DeleteEntry(active[v], d[1]) ELSE active[v]
        /\ \A e \in Delivery \ {d} : exec'[e] = exec[e]
        /\ exec'[d].pc = "done"
    BY <1>1, <1>4 DEF Finish, Over, Execution
  <2>2. ActiveIsAlive'
    <3> SUFFICES ASSUME NEW v \in Worker, NEW e \in active'[v]
                 PROVE  exec'[e].pc \in Alive /\ exec'[e].worker = v
      BY DEF ActiveIsAlive
    <3>1. e \in active[v] /\ e \in Delivery
      BY <1>1, <2>1 DEF DeleteEntry
    <3>2. exec[e].pc \in Alive /\ exec[e].worker = v
      BY <3>1 DEF Slots, ActiveIsAlive
    <3>3. e # d
      BY <2>1, <3>2 DEF DeleteEntry
    <3> QED
      BY <2>1, <3>1, <3>2, <3>3
  <2>3. ASSUME Concurrency = 1 PROVE OneSlot'
    <3>1. \A v \in Worker : active'[v] \subseteq active[v]
      BY <2>1 DEF DeleteEntry
    <3>2. ASSUME NEW e \in Delivery, exec'[e].pc \in Alive
          PROVE  exec'[e].worker \in Worker /\ e \in active'[exec'[e].worker]
      <4>1. e # d /\ exec'[e] = exec[e]
        BY <2>1, <3>2 DEF Alive
      <4>2. exec[e].pc \in Alive /\ exec[e].worker \in Worker
        BY <2>3, <3>2, <4>1 DEF Slots, OneSlot
      <4>4. e \in active[exec[e].worker] /\ d \in active[w]
        BY <1>4, <2>3, <4>2 DEF Slots, OneSlot
      <4>5. exec[e].worker # w
        BY <2>3, <4>1, <4>2, <4>4 DEF Slots, OneSlot
      <4> QED
        BY <2>1, <4>1, <4>2, <4>4, <4>5
    <3> QED
      BY <3>1, <3>2 DEF Slots, OneSlot
  <2> QED
    BY <2>2, <2>3 DEF Slots, OneSlot
<1>5. ASSUME NEW w \in Worker, Down(w) PROVE Goal
  <2>1. \A v \in Worker : active'[v] = IF v = w THEN {} ELSE active[v]
    BY <1>1, <1>5 DEF Down
  <2>2. ASSUME NEW e \in Delivery
        PROVE  IF exec[e].worker = w /\ exec[e].pc \in Alive
               THEN exec'[e].pc = "gone" ELSE exec'[e] = exec[e]
    BY <1>1, <1>5 DEF Down, Killed, Over, Execution
  <2>3. ActiveIsAlive'
    BY <1>1, <2>1, <2>2 DEF Slots, ActiveIsAlive
  <2>4. OneSlot'
    BY <1>1, <2>1, <2>2 DEF Slots, OneSlot, Alive
  <2> QED
    BY <2>3, <2>4 DEF Slots
<1>6. ASSUME NEW w \in Worker, NEW S \in SUBSET Job, NEW locked \in SUBSET Job,
             NEW lost \in BOOLEAN, Claim(w, S, locked, lost)
      PROVE  Goal
  <2> DEFINE N == NewDeliveries(S)
             started == Started(w, lost)
  <2>1. \A j \in S : job[j].attempt < MaxAttempts
    BY <1>6, ClaimRows
  <2>2. N \subseteq Delivery
    BY <1>0, <1>6, ClaimEffect
  <2>3. ASSUME NEW d \in Delivery
        PROVE  exec'[d] = IF d \in N THEN started ELSE exec[d]
    BY <1>0, <1>6, ClaimEffect
  <2>4. ASSUME NEW d \in N PROVE exec[d].pc = "idle"
    BY <1>0, <2>1, ClaimIsNews
  <2>5. started.worker = w /\ started.pc = IF lost THEN "gone" ELSE "handler"
    BY DEF Started, NoExecution
  <2>6. active' = IF lost THEN active ELSE [active EXCEPT ![w] = SetEntries(@, N)]
    BY <1>6, ClaimFills
  <2>7. Concurrency = 1 => active[w] = {} /\ \A d, e \in N : d = e
    <3>1. ASSUME Concurrency = 1 PROVE active[w] = {} /\ \A i, j \in S : i = j
      BY <1>0, <1>6, <3>1, ClaimOfOne
    <3> QED
      BY <3>1 DEF NewDeliveries
  <2> HIDE DEF N, started
  <2>8. /\ \A v \in Worker : v # w => active'[v] = active[v]
        /\ lost => active' = active
        /\ ~lost => active'[w] = SetEntries(active[w], N)
    BY <1>1, <2>6
  <2>9. ActiveIsAlive'
    <3> SUFFICES ASSUME NEW v \in Worker, NEW e \in active'[v]
                 PROVE  exec'[e].pc \in Alive /\ exec'[e].worker = v
      BY DEF ActiveIsAlive
    <3>1. e \in active[v] \/ (~lost /\ v = w /\ e \in N)
      BY <2>8 DEF SetEntries
    <3>2. CASE e \in active[v]
      <4>1. exec[e].pc \in Alive /\ exec[e].worker = v /\ e \in Delivery
        BY <1>1, <3>2 DEF Slots, ActiveIsAlive
      <4>2. e \notin N
        BY <2>4, <4>1 DEF Alive
      <4> QED
        BY <2>3, <4>1, <4>2
    <3>3. CASE ~lost /\ v = w /\ e \in N
      BY <2>2, <2>3, <2>5, <3>3 DEF Alive
    <3> QED
      BY <3>1, <3>2, <3>3
  <2>10. ASSUME Concurrency = 1 PROVE OneSlot'
    <3>1. ~lost => active'[w] = N
      BY <2>7, <2>8, <2>10 DEF SetEntries
    <3>2. \A v \in Worker : \A d, e \in active'[v] : d = e
      BY <2>7, <2>8, <2>10, <3>1 DEF Slots, OneSlot
    <3>3. ASSUME NEW e \in Delivery, exec'[e].pc \in Alive
          PROVE  exec'[e].worker \in Worker /\ e \in active'[exec'[e].worker]
      <4>1. CASE e \in N
        BY <2>3, <2>5, <3>1, <3>3, <4>1 DEF Alive
      <4>2. CASE e \notin N
        <5>1. exec'[e] = exec[e]
          BY <2>3, <4>2
        <5>2. exec[e].worker \in Worker /\ e \in active[exec[e].worker]
          BY <2>10, <3>3, <5>1 DEF Slots, OneSlot
        <5>3. exec[e].worker # w
          BY <2>7, <2>10, <5>2
        <5> QED
          BY <2>8, <5>1, <5>2, <5>3
      <4> QED
        BY <4>1, <4>2
    <3> QED
      BY <3>2, <3>3 DEF OneSlot
  <2> QED
    BY <2>9, <2>10 DEF Slots, OneSlot
<1>7. ASSUME UNCHANGED vars PROVE NoneEnds
  BY <1>7 DEF vars, NoneEnds
<1> HIDE DEF Goal
<1>8. ASSUME QuietQueueNext PROVE Goal
  BY <1>0, <1>3, <1>4, <1>5, <1>8, QuietSlots
<1>9. Goal
  BY <1>3, <1>6, <1>7, <1>8 DEF QueueNext, QuietQueueNext
<1> QED
  BY <1>9 DEF Goal

\* The facts every later invariant rests on.
BaseInv == QueueInv /\ AttemptsCountDeliveries /\ Slots

LEMMA BaseInvariant == QueueSpec => []BaseInv
<1>1. QueueInit => Slots
  BY DEF QueueInit, Slots, ActiveIsAlive, OneSlot, NoExecution, Alive
<1>2. QueueInv /\ AttemptsCountDeliveries /\ Slots /\ [QueueNext]_vars => Slots'
  BY SlotsStep
<1>3. QueueInv /\ AttemptsCountDeliveries /\ Slots => BaseInv
  BY DEF BaseInv
<1> QED
  BY <1>1, <1>2, <1>3, QueueInvariant, AttemptsCounted, PTL DEF QueueSpec

-----------------------------------------------------------------------------
(* Who writes a row.                                                       *)

\* What a statement that reports no delivery does to a row: it records no outcome,
\* takes no row from its delivery, revives none that succeeded or was cancelled,
\* and puts none back into the queue with the attempts it has used.
Administered(r, q) ==
  /\ q.state = "succeeded" => r.state = "succeeded"
  /\ q.dead_reason \in {"non_retryable_error", "attempts_exhausted"} => q.dead_reason = r.dead_reason
  /\ r.state \in {"running", "deleted"} => q.state \in {"running", "deleted"}
  /\ r.state \in {"succeeded", "cancelled"} => q.state \in {r.state, "deleted"}
  /\ q.state = "available" => r.state \in {"absent", "available"} \/ q.attempt = 0
  /\ q.state = "absent" => r.state = "absent"

LEMMA AdministeredRow ==
  ASSUME NEW r \in Row, RowPassesChecks(r)
  PROVE  /\ Administered(r, r)
         /\ r.state = "absent" => \A b \in BOOLEAN : Administered(r, Inserted(r, b))
         /\ r.state = "available" => Administered(r, Cancelled(r)) /\ Administered(r, RetriedNow(r))
         /\ Administered(r, CancelRequested(r)) /\ Administered(r, HeartBeaten(r))
         /\ Administered(r, Lapsed(r)) /\ Administered(r, Deleted(r))
         /\ r.state = "dead" => Administered(r, Replayed(r))
<1> USE DEF Administered, Row
<1>1. Administered(r, r)
  OBVIOUS
<1>2. r.state = "absent" => \A b \in BOOLEAN : Administered(r, Inserted(r, b))
  BY DEF Inserted
<1>3. r.state = "available" => Administered(r, Cancelled(r)) /\ Administered(r, RetriedNow(r))
  BY DEF Cancelled, RetriedNow
<1>4. Administered(r, CancelRequested(r)) /\ Administered(r, HeartBeaten(r)) /\ Administered(r, Lapsed(r))
  BY DEF CancelRequested, HeartBeaten, Lapsed
<1>5. Administered(r, Deleted(r))
  BY DEF Deleted, NoRow
<1>6. r.state = "dead" => Administered(r, Replayed(r))
  <2>1. /\ Replayed(r).state = "available" /\ Replayed(r).attempt = 0
        /\ Replayed(r).dead_reason = "none"
    BY ReplayedRow
  <2> QED
    BY <2>1
<1> QED
  BY <1>1, <1>2, <1>3, <1>4, <1>5, <1>6

\* An administrative statement is that to every row.
LEMMA AdminAdministers ==
  ASSUME TypeOK, RowsPassChecks, AdminNext, NEW k \in Job
  PROVE  Administered(job[k], job'[k])
<1> DEFINE Goal == Administered(job[k], job'[k])
<1>1. job[k] \in Row /\ RowPassesChecks(job[k])
  BY DEF TypeOK, RowsPassChecks
<1>2. job \in [Job -> Row]
  BY DEF TypeOK
<1>3. Administered(job[k], job[k])
  BY <1>1, AdministeredRow
<1>4. ASSUME NEW j \in Job, insertJob(j) PROVE Goal
  <2>1. job[j].state = "absent" /\ \E b \in BOOLEAN : job' = [job EXCEPT ![j] = Inserted(job[j], b)]
    BY <1>4 DEF insertJob
  <2> QED
    BY <1>1, <1>2, <1>3, <2>1, AdministeredRow
<1>5. ASSUME NEW j \in Job, cancelAvailableJob(j) \/ retryJobNow(j) \/ RunAtPasses(j) PROVE Goal
  <2>1. /\ job[j].state = "available"
        /\ \E q \in {Cancelled(job[j]), RetriedNow(job[j])} : job' = [job EXCEPT ![j] = q]
    BY <1>2, <1>5 DEF cancelAvailableJob, retryJobNow, RunAtPasses, RetriedNow
  <2> QED
    BY <1>1, <1>2, <1>3, <2>1, AdministeredRow
<1>6. ASSUME NEW j \in Job, requestCancelRunningJob(j) \/ LeaseLapses(j) PROVE Goal
  <2>1. \E q \in {CancelRequested(job[j]), Lapsed(job[j])} : job' = [job EXCEPT ![j] = q]
    BY <1>2, <1>6 DEF requestCancelRunningJob, LeaseLapses, Lapsed
  <2> QED
    BY <1>1, <1>2, <1>3, <2>1, AdministeredRow
<1>7. ASSUME NEW S \in SUBSET Job, replayDeadJobs(S) PROVE Goal
  <2>1. /\ \A j \in S : job[j].state = "dead"
        /\ job'[k] = IF k \in S THEN Replayed(job[k]) ELSE job[k]
    BY <1>7 DEF replayDeadJobs
  <2> QED
    BY <1>1, <1>3, <2>1, AdministeredRow
<1>8. ASSUME NEW S \in SUBSET Job, purgeQueue(Live, S) \/ pruneTerminalJobs(S) PROVE Goal
  <2>1. job'[k] = IF k \in S THEN Deleted(job[k]) ELSE job[k]
    BY <1>8 DEF purgeQueue, pruneTerminalJobs
  <2> QED
    BY <1>1, <1>3, <2>1, AdministeredRow
<1>9. ASSUME NEW b \in BOOLEAN, setQueuePaused(b) PROVE Goal
  BY <1>3, <1>9 DEF setQueuePaused
<1> HIDE DEF Goal
<1>10. Goal
  BY <1>4, <1>5, <1>6, <1>7, <1>8, <1>9 DEF AdminNext
<1> QED
  BY <1>10 DEF Goal

\* What an execution that passes the fence writes.
Reported(x) ==
  LET r == job[x[1]]
      q == job'[x[1]]
  IN  \/ exec[x].pc = "complete" /\ q = Completed(r)
      \/ exec[x].pc \in {"ackOk", "ackErr"} /\ q = Acknowledged(r)
      \/ /\ exec[x].pc = "fail" /\ exec'[x].pc = "returning"
         /\ q = Failed(r, exec[x].nonRetryable)
      \/ /\ pool[exec[x].worker] = "draining" /\ exec'[x].released
         /\ q = Released(r)

\* A row is written by an administrative statement, by the reaper, which marks the
\* delivery it takes the job from, or by an execution that passes the fence.
Fate(j) ==
  \/ Administered(job[j], job'[j])
  \/ /\ job'[j] = Reaped(job[j])
     /\ \A d \in Delivery : d = Current(j) => exec'[d].reaped
  \/ \E x \in Delivery : x[1] = j /\ exec[x].pc \in Alive /\ Owns(x) /\ Reported(x)

LEMMA QuietFate ==
  ASSUME QueueInv, ActiveIsAlive, QuietQueueNext
  PROVE  \A j \in Job : Fate(j)
<1> DEFINE Goal == \A j \in Job : Fate(j)
<1>1. /\ job \in [Job -> Row] /\ exec \in [Delivery -> Execution]
      /\ TypeOK /\ RowsPassChecks /\ active \in [Worker -> SUBSET Delivery]
  BY DEF QueueInv, QueueTypeOK, TypeOK
<1>2. \A j \in Job : Administered(job[j], job[j])
  BY <1>1, AdministeredRow DEF RowsPassChecks
<1>3. ASSUME UNCHANGED job PROVE Goal
  BY <1>2, <1>3 DEF Fate
<1>4. ASSUME NEW x \in Delivery, exec[x].pc \in Alive, Owns(x), NEW q,
             job' = [job EXCEPT ![x[1]] = q], q = job'[x[1]] => Reported(x)
      PROVE  Goal
  <2>1. job'[x[1]] = q /\ \A j \in Job \ {x[1]} : job'[j] = job[j]
    BY <1>1, <1>4, DeliveryParts
  <2> QED
    BY <1>2, <1>4, <2>1 DEF Fate
<1>5. ASSUME AdminNext PROVE Goal
  BY <1>1, <1>5, AdminAdministers DEF Fate
<1>6. ASSUME NEW S \in SUBSET Job, Reap(S) PROVE Goal
  <2> SUFFICES ASSUME NEW j \in Job PROVE Fate(j)
    OBVIOUS
  <2>1. job'[j] = IF j \in S THEN Reaped(job[j]) ELSE job[j]
    BY <1>6 DEF Reap, reapExpiredLeases
  <2>2. ASSUME j \in S, NEW d \in Delivery, d = Current(j) PROVE exec'[d].reaped
    <3>1. d[1] = j
      BY <2>2 DEF Current
    <3>2. exec'[d] = [exec[d] EXCEPT !.reaped = TRUE]
      BY <1>6, <2>2, <3>1 DEF Reap
    <3> QED
      BY <1>1, <3>2 DEF Execution
  <2> QED
    BY <1>2, <2>1, <2>2 DEF Fate
<1>7. ASSUME NEW d \in Delivery, HeartbeatSent(d) PROVE Goal
  <2>1. job' = [job EXCEPT ![d[1]] = HeartBeaten(job[d[1]])]
    BY <1>7 DEF HeartbeatSent, heartbeatJob
  <2>2. Administered(job[d[1]], HeartBeaten(job[d[1]]))
    BY <1>1, AdministeredRow, DeliveryParts DEF RowsPassChecks
  <2> QED
    BY <1>1, <1>2, <2>1, <2>2, DeliveryParts DEF Fate
<1>8. ASSUME NEW d \in Delivery,
             HeartbeatRejected(d) \/ JobTimeout(d) \/ HandlerEnds(d)
               \/ \E answer \in {"cancel", "lost"} : HeartbeatAnswered(d, answer)
      PROVE  Goal
  BY <1>3, <1>8 DEF HeartbeatRejected, JobTimeout, HandlerEnds, HeartbeatAnswered,
                    HandlerResolves, HandlerThrows, HandlerGivesUp, Finish
<1>9. ASSUME NEW d \in Delivery, AckAfterSuccess(d) \/ AckAfterFailure(d) PROVE Goal
  <2>1. exec[d].pc \in {"ackOk", "ackErr"}
    BY <1>9 DEF AckAfterSuccess, AckAfterFailure
  <2>2. \/ UNCHANGED job
        \/ Owns(d) /\ job' = [job EXCEPT ![d[1]] = Acknowledged(job[d[1]])]
    BY <1>9 DEF AckAfterSuccess, AckAfterFailure, acknowledgeCancellation, Owns, tableVars
  <2> QED
    BY <1>3, <1>4, <2>1, <2>2 DEF Alive, Reported
<1>10. ASSUME NEW d \in Delivery, ReportComplete(d) PROVE Goal
  <2>1. exec[d].pc = "complete"
    BY <1>10 DEF ReportComplete
  <2>2. \/ UNCHANGED job
        \/ Owns(d) /\ job' = [job EXCEPT ![d[1]] = Completed(job[d[1]])]
    BY <1>10 DEF ReportComplete, completeJob, Owns, tableVars
  <2> QED
    BY <1>3, <1>4, <2>1, <2>2 DEF Alive, Reported
<1>11. ASSUME NEW d \in Delivery, ReportFail(d) PROVE Goal
  <2>1. exec[d].pc = "fail" /\ exec'[d].pc = "returning"
    <3>1. exec[d].pc = "fail" /\ exec' = [exec EXCEPT ![d] = At(exec[d], "returning")]
      BY <1>11 DEF ReportFail, Goto
    <3>2. At(exec[d], "returning").pc = "returning"
      BY <1>1, <3>1, AtStep DEF Alive
    <3> QED
      BY <1>1, <3>1, <3>2
  <2>2. \/ UNCHANGED job
        \/ Owns(d) /\ job' = [job EXCEPT ![d[1]] = Failed(job[d[1]], exec[d].nonRetryable)]
    BY <1>11 DEF ReportFail, failJob, Owns, tableVars
  <2> QED
    BY <1>3, <1>4, <2>1, <2>2 DEF Alive, Reported
<1>12. ASSUME NEW d \in Delivery, Return(d) PROVE Goal
  BY <1>3, <1>12 DEF Return, Finish
<1>13. ASSUME NEW w \in Worker, Crash(w) \/ Stop(w) \/ Exit(w) PROVE Goal
  BY <1>3, <1>13 DEF Crash, Stop, Exit, Down, tableVars
<1>14. ASSUME NEW w \in Worker, NEW d \in active[w], Release(d) PROVE Goal
  <2>1. d \in Delivery /\ exec[d].pc \in Alive
    BY <1>1 DEF ActiveIsAlive
  <2>2. exec'[d].released /\ pool[exec[d].worker] = "draining"
    <3>1. exec' = [exec EXCEPT ![d] = [exec[d] EXCEPT !.released = TRUE]]
      BY <1>14 DEF Release
    <3>2. exec'[d] = [exec[d] EXCEPT !.released = TRUE]
      BY <1>1, <2>1, <3>1
    <3> QED
      BY <1>1, <1>14, <2>1, <3>2 DEF Release, Execution
  <2>3. \/ UNCHANGED job
        \/ Owns(d) /\ job' = [job EXCEPT ![d[1]] = Released(job[d[1]])]
    BY <1>14 DEF Release, releaseJob, Owns, tableVars
  <2> QED
    BY <1>3, <1>4, <2>1, <2>2, <2>3 DEF Reported
<1> HIDE DEF Goal
<1>15. Goal
  BY <1>5, <1>6, <1>7, <1>8, <1>9, <1>10, <1>11, <1>12, <1>13, <1>14 DEF QuietQueueNext, Report
<1> QED
  BY <1>15 DEF Goal

-----------------------------------------------------------------------------
(* What a step does to one delivery.                                       *)

\* A step that is not a claim of its job.
QuietAt(d) == RowKept(job[d[1]], job'[d[1]]) /\ QuietExec(d) /\ Fate(d[1])

\* The claim of its job that starts it.
Begun(d, w, lost) ==
  /\ job[d[1]].state = "available"
  /\ d[2] = job[d[1]].round /\ d[3] = job[d[1]].attempt + 1
  /\ exec[d].pc = "idle"
  /\ job'[d[1]] = Claimed(job[d[1]], w) /\ exec'[d] = Started(w, lost)

\* A claim of its job that starts another: by a process that had nothing alive, if
\* it has one slot.
Superseded(d, w) ==
  /\ job[d[1]].state = "available"
  /\ ~(d[2] = job[d[1]].round /\ d[3] = job[d[1]].attempt + 1)
  /\ job'[d[1]] = Claimed(job[d[1]], w) /\ exec'[d] = exec[d]
  /\ Concurrency = 1 /\ exec[d].pc \in Alive => exec[d].worker # w

LEMMA DeliverySteps ==
  ASSUME BaseInv, [QueueNext]_vars, NEW d \in Delivery
  PROVE  \/ QuietAt(d)
         \/ \E w \in Worker, lost \in BOOLEAN : Begun(d, w, lost) \/ Superseded(d, w)
<1> DEFINE Goal == \/ QuietAt(d)
                   \/ \E w \in Worker, lost \in BOOLEAN : Begun(d, w, lost) \/ Superseded(d, w)
<1>0. QueueInv /\ QueueTypeOK /\ TypeOK /\ RowsPassChecks /\ RoundsBounded
      /\ AttemptsCountDeliveries /\ ActiveIsAlive /\ OneSlot
  BY DEF BaseInv, QueueInv, QueueTypeOK, Slots
<1>1. d[1] \in Job /\ job[d[1]] \in Row /\ RowPassesChecks(job[d[1]]) /\ exec[d] \in Execution
  BY <1>0, DeliveryParts DEF QueueTypeOK, TypeOK, RowsPassChecks
<1>2. ASSUME job'[d[1]] = job[d[1]] PROVE Fate(d[1])
  BY <1>1, <1>2, AdministeredRow DEF Fate
<1>3. ASSUME QuietQueueNext \/ UNCHANGED vars PROVE Goal
  <2>1. RowKept(job[d[1]], job'[d[1]])
    BY <1>0, <1>1, <1>3, QuietRows
  <2>2. QuietExec(d)
    BY <1>0, <1>3, QuietExecutions
  <2>3. ASSUME QuietQueueNext PROVE Fate(d[1])
    BY <1>0, <1>1, <2>3, QuietFate
  <2>4. ASSUME UNCHANGED vars PROVE Fate(d[1])
    BY <1>2, <2>4 DEF vars
  <2> QED
    BY <1>3, <2>1, <2>2, <2>3, <2>4 DEF QuietAt
<1>4. ASSUME NEW w \in Worker, NEW S \in SUBSET Job, NEW locked \in SUBSET Job,
             NEW lost \in BOOLEAN, Claim(w, S, locked, lost)
      PROVE  Goal
  <2>1. \A j \in S : job[j].state = "available" /\ job[j].attempt < MaxAttempts
    BY <1>4, ClaimRows
  <2>2. d \in NewDeliveries(S) <=>
          d[1] \in S /\ d[2] = job[d[1]].round /\ d[3] = job[d[1]].attempt + 1
    BY <1>0, <2>1, ClaimStarts
  <2>3. exec'[d] = IF d \in NewDeliveries(S) THEN Started(w, lost) ELSE exec[d]
    BY <1>0, <1>4, ClaimEffect
  <2>4. job'[d[1]] = IF d[1] \in S THEN Claimed(job[d[1]], w) ELSE job[d[1]]
    BY <1>1, <1>4, ClaimRows
  <2>5. ASSUME d[1] \notin S PROVE Goal
    <3>1. job'[d[1]] = job[d[1]] /\ exec'[d] = exec[d]
      BY <2>2, <2>3, <2>4, <2>5
    <3>2. RowKept(job[d[1]], job'[d[1]])
      BY <3>1 DEF RowKept
    <3>3. KeepsHearing(exec[d], exec'[d])
      BY <1>1, <3>1, FlagStep
    <3>4. QuietExec(d)
      BY <3>3, NoNews DEF QuietExec, HearsTruth
    <3> QED
      BY <1>2, <3>1, <3>2, <3>4 DEF QuietAt
  <2>6. ASSUME d[1] \in S, d \in NewDeliveries(S) PROVE Begun(d, w, lost)
    <3>1. exec[d].pc = "idle"
      BY <1>0, <2>1, <2>6, ClaimIsNews
    <3> QED
      BY <2>1, <2>2, <2>3, <2>4, <2>6, <3>1 DEF Begun
  <2>7. ASSUME d[1] \in S, d \notin NewDeliveries(S) PROVE Superseded(d, w)
    <3>1. ASSUME Concurrency = 1, exec[d].pc \in Alive PROVE exec[d].worker # w
      <4>1. active[w] = {}
        BY <1>0, <1>4, <3>1, ClaimOfOne
      <4>2. d \in active[exec[d].worker]
        BY <1>0, <3>1 DEF OneSlot
      <4> QED
        BY <4>1, <4>2
    <3> QED
      BY <2>1, <2>2, <2>3, <2>4, <2>7, <3>1 DEF Superseded
  <2> QED
    BY <2>5, <2>6, <2>7
<1> HIDE DEF Goal
<1>5. Goal
  BY <1>3, <1>4 DEF QueueNext, QuietQueueNext
<1> QED
  BY <1>5 DEF Goal

-----------------------------------------------------------------------------
(* The ownership fence.                                                    *)

\* The fence compares a process and an attempt number.  That tells deliveries
\* apart as long as the job was never replayed, which gives its attempt numbers
\* back, or each process has one slot, so that it never has two executions.
Sharp(j) == job[j].round = 0 \/ Concurrency = 1

Fenced(d) == exec[d].pc \in Alive /\ Owns(d) => d = Current(d[1])
FencedInv == \A d \in Delivery : Sharp(d[1]) => Fenced(d)

\* An execution that does not own its job cannot come to own it by a step that is
\* not a claim.
LEMMA QuietKeepsLoss ==
  ASSUME NEW d \in Delivery, RowKept(job[d[1]], job'[d[1]]), ExecStep(exec[d], exec'[d]), ~Owns(d)
  PROVE  ~Owns(d)'
BY DEF Owns, Fence, RowKept, ExecStep

\* A job that is sharp has always been.
LEMMA SharpWas ==
  ASSUME BaseInv, [QueueNext]_vars, NEW d \in Delivery,
         job'[d[1]].round = 0 \/ Concurrency = 1
  PROVE  Sharp(d[1])
<1>1. job[d[1]] \in Row /\ job[d[1]].round \in Nat
  BY DeliveryParts DEF BaseInv, QueueInv, QueueTypeOK, TypeOK, Row
<1>2. \A w \in Worker : Claimed(job[d[1]], w).round = job[d[1]].round
  BY <1>1, ClaimedRow
<1>3. CASE QuietAt(d)
  BY <1>1, <1>3 DEF QuietAt, RowKept, Sharp
<1>4. ASSUME NEW w \in Worker, NEW lost, Begun(d, w, lost) \/ Superseded(d, w) PROVE Sharp(d[1])
  BY <1>2, <1>4 DEF Begun, Superseded, Sharp
<1> QED
  BY <1>3, <1>4, DeliverySteps

\* A claim of its job leaves no execution that is alive with the fence.
LEMMA SupersededIsOut ==
  ASSUME BaseInv, NEW d \in Delivery, Sharp(d[1]), NEW w \in Worker, Superseded(d, w),
         exec[d].pc \in Alive
  PROVE  ~Owns(d)'
<1>1. d[1] \in Job /\ job[d[1]] \in Row /\ job[d[1]].round \in Nat /\ job[d[1]].attempt \in Nat
  BY DeliveryParts DEF BaseInv, QueueInv, QueueTypeOK, TypeOK, Row
<1>2. /\ Claimed(job[d[1]], w).worker_id = w
      /\ Claimed(job[d[1]], w).attempt = job[d[1]].attempt + 1
  BY <1>1, ClaimedRow
<1>3. CASE Concurrency = 1
  BY <1>2, <1>3 DEF Superseded, Owns, Fence
<1>4. CASE job[d[1]].round = 0
  <2>1. d[2] = job[d[1]].round
    <3>1. ~(d[2] > job[d[1]].round)
      BY DEF BaseInv, AttemptsCountDeliveries, Alive
    <3>2. d[2] \in Nat
      BY DeliveryParts, TableAssumptions
    <3> QED
      BY <1>4, <3>1, <3>2
  <2> QED
    BY <1>2, <2>1 DEF Superseded, Owns, Fence
<1> QED
  BY <1>3, <1>4 DEF Sharp

\* What it starts is the delivery the row stands for, which is running.
LEMMA BegunIsCurrent ==
  ASSUME BaseInv, NEW d \in Delivery, NEW w \in Worker, NEW lost, Begun(d, w, lost)
  PROVE  /\ d = <<d[1], job'[d[1]].round, job'[d[1]].attempt>>
         /\ job'[d[1]].state = "running" /\ job'[d[1]].dead_reason = job[d[1]].dead_reason
<1>1. job[d[1]] \in Row
  BY DeliveryParts DEF BaseInv, QueueInv, QueueTypeOK, TypeOK
<1> QED
  BY <1>1, ClaimedRow, DeliveryParts DEF Begun

LEMMA FencedStep ==
  ASSUME BaseInv, FencedInv, [QueueNext]_vars
  PROVE  FencedInv'
<1> SUFFICES ASSUME NEW d \in Delivery, job'[d[1]].round = 0 \/ Concurrency = 1,
                    exec'[d].pc \in Alive, Owns(d)'
             PROVE  d = <<d[1], job'[d[1]].round, job'[d[1]].attempt>>
  BY DEF FencedInv, Fenced, Sharp, Current
<1> DEFINE Goal == d = <<d[1], job'[d[1]].round, job'[d[1]].attempt>>
<1>1. Sharp(d[1])
  BY SharpWas
<1>2. CASE QuietAt(d)
  <2>1. exec[d].pc \in Alive /\ ExecStep(exec[d], exec'[d]) /\ RowKept(job[d[1]], job'[d[1]])
    BY <1>2 DEF QuietAt, QuietExec, ExecStep
  <2>2. Owns(d)
    BY <2>1, QuietKeepsLoss
  <2>3. d = Current(d[1])
    BY <1>1, <2>1, <2>2 DEF FencedInv, Fenced
  <2>4. job'[d[1]].state = "running"
    BY DEF Owns, Fence
  <2> QED
    BY <2>1, <2>3, <2>4 DEF RowKept, Current
<1>3. ASSUME NEW w \in Worker, NEW lost \in BOOLEAN, Begun(d, w, lost) PROVE Goal
  BY <1>3, BegunIsCurrent
<1>4. ASSUME NEW w \in Worker, Superseded(d, w) PROVE FALSE
  <2>1. exec[d].pc \in Alive
    BY <1>4 DEF Superseded
  <2> QED
    BY <1>1, <1>4, <2>1, SupersededIsOut
<1> QED
  BY <1>2, <1>3, <1>4, DeliverySteps

LEMMA FenceInvariant == QueueSpec => []FencedInv
<1>1. QueueInit => FencedInv
  BY DEF QueueInit, FencedInv, Fenced, NoExecution, Alive
<1> QED
  BY <1>1, FencedStep, BaseInvariant, PTL DEF QueueSpec

\* Without replays every job is sharp, and so it is with one slot.
LEMMA AllSharp ==
  ASSUME MaxReplays = 0 \/ Concurrency = 1, BaseInv, NEW d \in Delivery
  PROVE  Sharp(d[1])
<1>1. job[d[1]].round \in Nat /\ job[d[1]].round <= MaxReplays
  BY DeliveryParts DEF BaseInv, QueueInv, QueueTypeOK, TypeOK, Row, RoundsBounded
<1> QED
  BY <1>1 DEF Sharp

\* The ownership fence (worker_id and attempt, report.sql.ts:20) identifies one
\* delivery, whatever crashes, late reports and claims there are: an execution that
\* passes it is the one the row stands for.  That is so of every job that was never
\* replayed, and of every job if the pools have one slot.  It fails where a process
\* has two executions of one job with a replay between them.
THEOREM FenceIsSharp ==
  /\ QueueSpec => []FencedInv
  /\ (MaxReplays = 0 \/ Concurrency = 1) => (QueueSpec => []FenceIdentifiesDelivery)
<1>1. ASSUME MaxReplays = 0 \/ Concurrency = 1
      PROVE  BaseInv /\ FencedInv => FenceIdentifiesDelivery
  BY <1>1, AllSharp DEF FencedInv, Fenced, FenceIdentifiesDelivery
<1>2. ASSUME MaxReplays = 0 \/ Concurrency = 1
      PROVE  QueueSpec => []FenceIdentifiesDelivery
  BY <1>1, <1>2, FenceInvariant, BaseInvariant, PTL
<1> QED
  BY <1>2, FenceInvariant

-----------------------------------------------------------------------------
(* Lost ownership.                                                         *)

\* What heard of a lost lease and is still alive does not own its job.
LossIsReal ==
  \A d \in Delivery : Sharp(d[1]) /\ HearsLoss(exec[d]) => ~(exec[d].pc \in Alive /\ Owns(d))

LEMMA LossStep ==
  ASSUME BaseInv, LossIsReal, [QueueNext]_vars
  PROVE  LossIsReal'
<1> SUFFICES ASSUME NEW d \in Delivery, job'[d[1]].round = 0 \/ Concurrency = 1,
                    HearsLoss(exec'[d]), exec'[d].pc \in Alive
             PROVE  ~Owns(d)'
  BY DEF LossIsReal, Sharp, HearsLoss
<1>1. Sharp(d[1])
  BY SharpWas
<1>2. CASE QuietAt(d)
  <2>1. ExecStep(exec[d], exec'[d]) /\ RowKept(job[d[1]], job'[d[1]]) /\ HearsTruth(d)
    BY <1>2 DEF QuietAt, QuietExec
  <2>2. exec[d].pc \in Alive
    BY <2>1 DEF ExecStep
  <2>3. ~Owns(d)
    BY <1>1, <2>1, <2>2 DEF HearsTruth, News, LossIsReal
  <2> QED
    BY <2>1, <2>3, QuietKeepsLoss
<1>3. ASSUME NEW w \in Worker, NEW lost \in BOOLEAN, Begun(d, w, lost) PROVE FALSE
  <2>1. ~HearsLoss(Started(w, lost))
    BY DEF HearsLoss, Started, NoExecution
  <2> QED
    BY <1>3, <2>1 DEF Begun
<1>4. ASSUME NEW w \in Worker, Superseded(d, w) PROVE ~Owns(d)'
  <2>1. exec[d].pc \in Alive
    BY <1>4 DEF Superseded
  <2> QED
    BY <1>1, <1>4, <2>1, SupersededIsOut
<1> QED
  BY <1>2, <1>3, <1>4, DeliverySteps

\* An execution that was told that it lost its job never owns it again, however
\* late the heartbeat's response arrives: to discard its result strands nothing.
\* So it is of every job that was never replayed, or with pools of one slot.
THEOREM LossIsFinal ==
  /\ QueueSpec => []LossIsReal
  /\ (MaxReplays = 0 \/ Concurrency = 1) => (QueueSpec => []LostOwnershipStaysLost)
<1>1. QueueInit => LossIsReal
  BY DEF QueueInit, LossIsReal, NoExecution, Alive
<1>2. QueueSpec => []LossIsReal
  BY <1>1, LossStep, BaseInvariant, PTL DEF QueueSpec
<1>3. ASSUME MaxReplays = 0 \/ Concurrency = 1
      PROVE  BaseInv /\ LossIsReal => LostOwnershipStaysLost
  BY <1>3, AllSharp DEF LossIsReal, LostOwnershipStaysLost, HearsLoss
<1>4. ASSUME MaxReplays = 0 \/ Concurrency = 1
      PROVE  QueueSpec => []LostOwnershipStaysLost
  BY <1>2, <1>3, <1>4, BaseInvariant, PTL
<1> QED
  BY <1>2, <1>4

-----------------------------------------------------------------------------
(* Cancellation.                                                           *)

\* An execution knows only of a cancellation that was requested, unless it lost
\* the job since; and it reports success in spite of one only when it has lost it.
CancelIsReal ==
  \A d \in Delivery : Sharp(d[1]) /\ exec[d].pc \in Alive =>
    /\ HearsCancel(exec[d]) => job[d[1]].cancel \/ ~Owns(d)
    /\ Unacked(exec[d]) => ~Owns(d)

AllConsistent == \A d \in Delivery : Consistent(exec[d])

LEMMA CancelStep ==
  ASSUME BaseInv, CancelIsReal, [QueueNext]_vars
  PROVE  CancelIsReal'
<1> SUFFICES ASSUME NEW d \in Delivery, job'[d[1]].round = 0 \/ Concurrency = 1,
                    exec'[d].pc \in Alive
             PROVE  /\ HearsCancel(exec'[d]) => job'[d[1]].cancel \/ ~Owns(d)'
                    /\ Unacked(exec'[d]) => ~Owns(d)'
  BY DEF CancelIsReal, Sharp, HearsCancel, Unacked
<1> DEFINE Goal == /\ HearsCancel(exec'[d]) => job'[d[1]].cancel \/ ~Owns(d)'
                   /\ Unacked(exec'[d]) => ~Owns(d)'
<1>1. Sharp(d[1])
  BY SharpWas
<1>2. CASE QuietAt(d)
  <2>1. ExecStep(exec[d], exec'[d]) /\ RowKept(job[d[1]], job'[d[1]]) /\ HearsTruth(d)
    BY <1>2 DEF QuietAt, QuietExec
  <2>2. exec[d].pc \in Alive
    BY <2>1 DEF ExecStep
  <2>3. /\ HearsCancel(exec[d]) => job[d[1]].cancel \/ ~Owns(d)
        /\ Unacked(exec[d]) => ~Owns(d)
    BY <1>1, <2>2 DEF CancelIsReal
  <2>4. ~Owns(d) => ~Owns(d)'
    BY <2>1, QuietKeepsLoss
  <2>5. job[d[1]].cancel => job'[d[1]].cancel \/ ~Owns(d)'
    BY <2>1 DEF RowKept, Owns, Fence
  <2>6. HearsCancel(exec'[d]) => job'[d[1]].cancel \/ ~Owns(d)'
    BY <2>1, <2>3, <2>4, <2>5 DEF HearsTruth, News
  <2>7. ASSUME Unacked(exec'[d]) PROVE ~Owns(d)
    <3>1. CASE Unacked(exec[d])
      BY <2>3, <3>1
    <3>2. CASE ~Unacked(exec[d])
      <4>1. exec[d].ret = "cancelled" /\ ~(Owns(d) /\ job[d[1]].cancel)
        BY <2>1, <2>7, <3>2 DEF HearsTruth, News
      <4> QED
        BY <2>3, <4>1 DEF HearsCancel
    <3> QED
      BY <3>1, <3>2
  <2> QED
    BY <2>4, <2>6, <2>7
<1>3. ASSUME NEW w \in Worker, NEW lost \in BOOLEAN, Begun(d, w, lost) PROVE Goal
  <2>1. ~HearsCancel(Started(w, lost)) /\ ~Unacked(Started(w, lost))
    BY DEF HearsCancel, Unacked, Started, NoExecution
  <2> QED
    BY <1>3, <2>1 DEF Begun
<1>4. ASSUME NEW w \in Worker, Superseded(d, w) PROVE Goal
  <2>1. exec[d].pc \in Alive
    BY <1>4 DEF Superseded
  <2> QED
    BY <1>1, <1>4, <2>1, SupersededIsOut
<1> QED
  BY <1>2, <1>3, <1>4, DeliverySteps

LEMMA ConsistentStep ==
  ASSUME BaseInv, AllConsistent, [QueueNext]_vars
  PROVE  AllConsistent'
<1> SUFFICES ASSUME NEW d \in Delivery PROVE Consistent(exec'[d])
  BY DEF AllConsistent, Consistent
<1>1. Consistent(exec[d])
  BY DEF AllConsistent
<1>2. CASE QuietAt(d)
  BY <1>1, <1>2 DEF QuietAt, QuietExec, ExecStep
<1>3. ASSUME NEW w \in Worker, NEW lost \in BOOLEAN, Begun(d, w, lost) \/ Superseded(d, w)
      PROVE  Consistent(exec'[d])
  <2>1. Consistent(Started(w, lost))
    BY DEF Consistent, Started, NoExecution
  <2> QED
    BY <1>1, <1>3, <2>1 DEF Begun, Superseded
<1> QED
  BY <1>2, <1>3, DeliverySteps

\* Everything known of the executions that report.
ReportInv == BaseInv /\ FencedInv /\ CancelIsReal /\ AllConsistent

LEMMA ReportInvariant == QueueSpec => []ReportInv
<1>1. QueueInit => CancelIsReal /\ AllConsistent
  BY DEF QueueInit, CancelIsReal, AllConsistent, Consistent, NoExecution, Alive
<1>2. BaseInv /\ FencedInv /\ CancelIsReal /\ AllConsistent => ReportInv
  BY DEF ReportInv
<1> QED
  BY <1>1, <1>2, CancelStep, ConsistentStep, BaseInvariant, FenceInvariant, PTL DEF QueueSpec

-----------------------------------------------------------------------------
(* Outcomes.                                                               *)

\* What OutcomeIsOfCurrentDelivery says of a row and the execution it stands for.
Earned(r, e) ==
  /\ r.state = "succeeded" => e.ret = "resolved"
  /\ r.dead_reason = "non_retryable_error" => e.ret = "threw"
  /\ r.dead_reason = "attempts_exhausted" => e.ret # "none"

OutcomeInv == \A d \in Delivery : Sharp(d[1]) /\ d = Current(d[1]) => Earned(job[d[1]], exec[d])

\* A report writes what its execution has earned.
LEMMA ReportIsEarned ==
  ASSUME ReportInv, NEW d \in Delivery, Sharp(d[1]), exec[d].pc \in Alive, Owns(d), Reported(d),
         NEW f, ExecStep(exec[d], f)
  PROVE  Earned(job'[d[1]], f)
<1> DEFINE r == job[d[1]]
           q == job'[d[1]]
           e == exec[d]
<1>1. r \in Row /\ RowPassesChecks(r) /\ e \in Execution
  BY DeliveryParts DEF ReportInv, BaseInv, QueueInv, QueueTypeOK, TypeOK, RowsPassChecks
<1>2. r.state = "running" /\ r.dead_reason = "none"
  BY <1>1 DEF Owns, Fence, RowPassesChecks, Row
<1>3. Consistent(e) /\ (Unacked(e) => ~Owns(d)) /\ (e.pc # "handler" => f.ret = e.ret)
  BY DEF ReportInv, AllConsistent, CancelIsReal, ExecStep
<1>4. CASE e.pc = "complete" /\ q = Completed(r)
  <2>1. q.dead_reason = "none"
    BY <1>1, <1>2, <1>4 DEF Completed, Row
  <2>2. f.ret = "resolved"
    BY <1>3, <1>4 DEF Consistent, Unacked
  <2> QED
    BY <2>1, <2>2 DEF Earned
<1>5. CASE e.pc \in {"ackOk", "ackErr"} /\ q = Acknowledged(r)
  <2>1. q.dead_reason = "none" /\ q.state = "cancelled"
    BY <1>1, <1>5 DEF Acknowledged, Row
  <2> QED
    BY <2>1 DEF Earned
<1>6. CASE e.pc = "fail" /\ q = Failed(r, e.nonRetryable)
  <2>1. e.nonRetryable \in BOOLEAN
    BY <1>1 DEF Execution
  <2>2. /\ q.state # "succeeded"
        /\ q.dead_reason = "non_retryable_error" => e.nonRetryable
    BY <1>1, <1>6, <2>1, FailedRow
  <2>3. f.ret = e.ret /\ e.ret # "none" /\ (e.nonRetryable => e.ret = "threw")
    BY <1>3, <1>6 DEF Consistent
  <2> QED
    BY <2>2, <2>3 DEF Earned
<1>7. CASE q = Released(r)
  <2>1. q.dead_reason = "none" /\ q.state = "available"
    BY <1>1, <1>2, <1>7 DEF Released, Row
  <2> QED
    BY <2>1 DEF Earned
<1> QED
  BY <1>4, <1>5, <1>6, <1>7 DEF Reported

LEMMA OutcomeStep ==
  ASSUME ReportInv, BaseInv', OutcomeInv, [QueueNext]_vars
  PROVE  OutcomeInv'
<1> SUFFICES ASSUME NEW d \in Delivery, job'[d[1]].round = 0 \/ Concurrency = 1,
                    d = <<d[1], job'[d[1]].round, job'[d[1]].attempt>>
             PROVE  Earned(job'[d[1]], exec'[d])
  BY DEF OutcomeInv, Sharp, Current, Earned
<1> DEFINE r == job[d[1]]
           q == job'[d[1]]
<1>0. BaseInv
  BY DEF ReportInv
<1>1. Sharp(d[1])
  BY <1>0, SharpWas
<1>2. r \in Row /\ RowPassesChecks(r) /\ RowPassesChecks(q) /\ d[1] \in Job
  BY <1>0, DeliveryParts DEF BaseInv, QueueInv, QueueTypeOK, TypeOK, RowsPassChecks
<1>3. ASSUME QuietAt(d) PROVE Earned(q, exec'[d])
  <2>1. ExecStep(exec[d], exec'[d]) /\ RowKept(r, q) /\ Fate(d[1])
    BY <1>3 DEF QuietAt, QuietExec
  <2>2. CASE q.state = "available"
    BY <1>2, <2>2 DEF Earned, RowPassesChecks
  <2>3. CASE q.state # "available"
    <3>1. d = Current(d[1])
      BY <2>1, <2>3 DEF RowKept, Current
    <3>2. CASE Administered(r, q)
      <4>1. Earned(r, exec[d]) /\ Consistent(exec[d])
        BY <1>1, <3>1 DEF OutcomeInv, ReportInv, AllConsistent
      <4>2. exec[d].ret # "none" => exec'[d].ret = exec[d].ret
        BY <2>1, <4>1 DEF Consistent, ExecStep
      <4> QED
        BY <3>2, <4>1, <4>2 DEF Administered, Earned
    <3>3. CASE q = Reaped(r)
      <4>1. q.state # "succeeded" /\ q.dead_reason \in {"lease_expired", "none"}
        BY <1>2, <3>3, ReapedRow
      <4> QED
        BY <4>1 DEF Earned
    <3>4. ASSUME NEW x \in Delivery, x[1] = d[1], exec[x].pc \in Alive, Owns(x), Reported(x)
          PROVE  Earned(q, exec'[d])
      <4>1. x = d
        BY <1>1, <3>1, <3>4 DEF ReportInv, FencedInv, Fenced
      <4> QED
        BY <1>1, <2>1, <3>4, <4>1, ReportIsEarned
    <3> QED
      BY <2>1, <3>2, <3>3, <3>4 DEF Fate
  <2> QED
    BY <2>2, <2>3
<1>4. ASSUME NEW w \in Worker, NEW lost \in BOOLEAN, Begun(d, w, lost) PROVE Earned(q, exec'[d])
  <2>1. q.state = "running"
    BY <1>0, <1>4, BegunIsCurrent
  <2> QED
    BY <1>2, <2>1 DEF Earned, RowPassesChecks
<1>5. ASSUME NEW w \in Worker, Superseded(d, w) PROVE FALSE
  <2>1. q.round = r.round /\ q.attempt = r.attempt + 1
    BY <1>2, <1>5, ClaimedRow DEF Superseded
  <2> QED
    BY <1>5, <2>1 DEF Superseded
<1> QED
  BY <1>0, <1>3, <1>4, <1>5, DeliverySteps

\* A recorded outcome was earned by the delivery the row stands for, for every
\* number of processes, crashes and late reports: success only by a handler that
\* resolved with no cancellation seen, a dead letter only by one that ended so.
\* So it is of every job that was never replayed, or with pools of one slot.
THEOREM OutcomesAreEarned ==
  /\ QueueSpec => []OutcomeInv
  /\ (MaxReplays = 0 \/ Concurrency = 1) => (QueueSpec => []OutcomeIsOfCurrentDelivery)
<1>1. QueueInit => OutcomeInv
  <2> SUFFICES ASSUME QueueInit, NEW d \in Delivery PROVE Earned(job[d[1]], exec[d])
    BY DEF OutcomeInv
  <2>1. job[d[1]] = NoRow
    BY DeliveryParts DEF QueueInit, Init
  <2> QED
    BY <2>1 DEF Earned, NoRow
<1>2. QueueSpec => []OutcomeInv
  <2>1. ReportInv => BaseInv
    BY DEF ReportInv
  <2> QED
    BY <1>1, <2>1, OutcomeStep, ReportInvariant, PTL DEF QueueSpec
<1>3. ASSUME MaxReplays = 0 \/ Concurrency = 1
      PROVE  BaseInv /\ OutcomeInv => OutcomeIsOfCurrentDelivery
  BY <1>3, AllSharp DEF OutcomeInv, Earned, OutcomeIsOfCurrentDelivery
<1>4. ASSUME MaxReplays = 0 \/ Concurrency = 1
      PROVE  QueueSpec => []OutcomeIsOfCurrentDelivery
  BY <1>2, <1>3, <1>4, BaseInvariant, PTL
<1> QED
  BY <1>2, <1>4

-----------------------------------------------------------------------------
(* Overlapping handlers.                                                   *)

\* A handler from which the queue did not take the job.
Undisturbed(e) == e.pc = "handler" /\ ~e.reaped /\ ~e.released

\* Its row stands for it, until an operator deletes the row.
HeldInv ==
  \A d \in Delivery : Sharp(d[1]) /\ Undisturbed(exec[d]) =>
    d = Current(d[1]) /\ job[d[1]].state \in {"running", "deleted"}

LEMMA HeldStep ==
  ASSUME ReportInv, HeldInv, [QueueNext]_vars
  PROVE  HeldInv'
<1> SUFFICES ASSUME NEW d \in Delivery, job'[d[1]].round = 0 \/ Concurrency = 1,
                    Undisturbed(exec'[d])
             PROVE  /\ d = <<d[1], job'[d[1]].round, job'[d[1]].attempt>>
                    /\ job'[d[1]].state \in {"running", "deleted"}
  BY DEF HeldInv, Sharp, Current, Undisturbed
<1> DEFINE r == job[d[1]]
           q == job'[d[1]]
           Goal == /\ d = <<d[1], job'[d[1]].round, job'[d[1]].attempt>>
                   /\ job'[d[1]].state \in {"running", "deleted"}
<1>0. BaseInv
  BY DEF ReportInv
<1>1. Sharp(d[1])
  BY <1>0, SharpWas
<1>2. CASE QuietAt(d)
  <2>1. ExecStep(exec[d], exec'[d]) /\ RowKept(r, q) /\ Fate(d[1])
    BY <1>2 DEF QuietAt, QuietExec
  <2>2. Undisturbed(exec[d])
    <3>1. exec'[d] \in Execution /\ exec[d] \in Execution
      BY <1>0, <2>1 DEF BaseInv, QueueInv, QueueTypeOK, ExecStep
    <3> QED
      BY <2>1, <3>1 DEF ExecStep, Undisturbed, Execution
  <2>3. d = Current(d[1]) /\ r.state \in {"running", "deleted"}
    BY <1>1, <2>2 DEF HeldInv
  <2>4. q.round = r.round /\ q.attempt = r.attempt
    BY <2>1, <2>3 DEF RowKept
  <2>5. ASSUME NEW x \in Delivery, x[1] = d[1], exec[x].pc \in Alive, Owns(x), Reported(x)
        PROVE  FALSE
    <3>1. x = d
      BY <1>1, <2>3, <2>5 DEF ReportInv, FencedInv, Fenced
    <3> QED
      BY <2>2, <2>5, <3>1 DEF Reported, Undisturbed
  <2>6. ASSUME \A c \in Delivery : c = Current(d[1]) => exec'[c].reaped PROVE FALSE
    BY <2>3, <2>6 DEF Undisturbed
  <2>7. Administered(r, q)
    BY <2>1, <2>5, <2>6 DEF Fate
  <2> QED
    BY <2>3, <2>4, <2>7 DEF Administered, Current
<1>3. ASSUME NEW w \in Worker, NEW lost \in BOOLEAN, Begun(d, w, lost) PROVE Goal
  BY <1>0, <1>3, BegunIsCurrent
<1>4. ASSUME NEW w \in Worker, Superseded(d, w) PROVE FALSE
  <2>1. Undisturbed(exec[d]) /\ r.state = "available"
    BY <1>4 DEF Superseded
  <2> QED
    BY <1>1, <2>1 DEF HeldInv
<1> QED
  BY <1>0, <1>2, <1>3, <1>4, DeliverySteps

\* Two handlers of one job run at once only after the queue took the job away from
\* one of them, by reaping its lease or by releasing it at shutdown: no claim, late
\* report, crash or operator action overlaps handlers in any other way.
\* So it is of every job that was never replayed, or with pools of one slot.
THEOREM OverlapsAreExplained ==
  /\ QueueSpec => []HeldInv
  /\ (MaxReplays = 0 \/ Concurrency = 1) => (QueueSpec => []OverlapOnlyAfterLossOfOwnership)
<1>1. QueueInit => HeldInv
  BY DEF QueueInit, HeldInv, Undisturbed, NoExecution
<1>2. QueueSpec => []HeldInv
  BY <1>1, HeldStep, ReportInvariant, PTL DEF QueueSpec
<1>3. ASSUME MaxReplays = 0 \/ Concurrency = 1, BaseInv, HeldInv
      PROVE  OverlapOnlyAfterLossOfOwnership
  <2> SUFFICES ASSUME NEW d \in Delivery, NEW e \in Delivery, d[1] = e[1],
                      Undisturbed(exec[d]), Undisturbed(exec[e])
               PROVE  d = e
    BY DEF OverlapOnlyAfterLossOfOwnership, Undisturbed
  <2>1. d = Current(d[1]) /\ e = Current(e[1])
    BY <1>3, AllSharp DEF HeldInv
  <2> QED
    BY <2>1
<1>4. ASSUME MaxReplays = 0 \/ Concurrency = 1
      PROVE  QueueSpec => []OverlapOnlyAfterLossOfOwnership
  <2>1. BaseInv /\ HeldInv => OverlapOnlyAfterLossOfOwnership
    BY <1>3, <1>4
  <2> QED
    BY <1>2, <2>1, BaseInvariant, PTL
<1> QED
  BY <1>2, <1>4

-----------------------------------------------------------------------------
(* Executions and their slots.                                             *)

\* An execution that may still report and that the queue did not take the job from.
Keeps(e) == e.pc \in Alive \ {"returning"} /\ ~e.reaped /\ ~e.released

\* Its row stands for it and waits for no claim.
KeptStates == {"running", "succeeded", "cancelled", "deleted"}
KeptInv ==
  \A d \in Delivery : Sharp(d[1]) /\ Keeps(exec[d]) =>
    d = Current(d[1]) /\ job[d[1]].state \in KeptStates

LEMMA KeptStep ==
  ASSUME ReportInv, KeptInv, [QueueNext]_vars
  PROVE  KeptInv'
<1> SUFFICES ASSUME NEW d \in Delivery, job'[d[1]].round = 0 \/ Concurrency = 1,
                    Keeps(exec'[d])
             PROVE  /\ d = <<d[1], job'[d[1]].round, job'[d[1]].attempt>>
                    /\ job'[d[1]].state \in KeptStates
  BY DEF KeptInv, Sharp, Current, Keeps
<1> DEFINE r == job[d[1]]
           q == job'[d[1]]
           Goal == /\ d = <<d[1], job'[d[1]].round, job'[d[1]].attempt>>
                   /\ job'[d[1]].state \in KeptStates
<1>0. BaseInv
  BY DEF ReportInv
<1>1. Sharp(d[1])
  BY <1>0, SharpWas
<1>2. CASE QuietAt(d)
  <2>1. ExecStep(exec[d], exec'[d]) /\ RowKept(r, q) /\ Fate(d[1])
    BY <1>2 DEF QuietAt, QuietExec
  <2>2. Keeps(exec[d])
    <3>1. exec'[d] \in Execution /\ exec[d] \in Execution
      BY <1>0, <2>1 DEF BaseInv, QueueInv, QueueTypeOK, ExecStep
    <3> QED
      BY <2>1, <3>1 DEF ExecStep, Keeps, Execution, Alive
  <2>3. d = Current(d[1]) /\ r.state \in KeptStates
    BY <1>1, <2>2 DEF KeptInv
  <2>4. q.round = r.round /\ q.attempt = r.attempt
    BY <2>1, <2>3 DEF RowKept, KeptStates
  <2>5. ASSUME NEW x \in Delivery, x[1] = d[1], exec[x].pc \in Alive, Owns(x), Reported(x)
        PROVE  q.state \in KeptStates
    <3>1. x = d
      BY <1>1, <2>3, <2>5 DEF ReportInv, FencedInv, Fenced
    <3>2. exec'[d].pc # "returning" /\ ~exec'[d].released
      BY DEF Keeps
    <3>3. r \in Row
      BY <1>0, DeliveryParts DEF BaseInv, QueueInv, QueueTypeOK, TypeOK
    <3>4. Completed(r).state = "succeeded" /\ Acknowledged(r).state = "cancelled"
      BY <3>3 DEF Completed, Acknowledged, Row
    <3> QED
      BY <2>5, <3>1, <3>2, <3>4 DEF Reported, KeptStates
  <2>6. ASSUME \A c \in Delivery : c = Current(d[1]) => exec'[c].reaped PROVE FALSE
    BY <2>3, <2>6 DEF Keeps
  <2>7. Administered(r, q) => q.state \in KeptStates
    BY <2>3 DEF Administered, KeptStates
  <2> QED
    BY <2>1, <2>3, <2>4, <2>5, <2>6, <2>7 DEF Fate, Current
<1>3. ASSUME NEW w \in Worker, NEW lost \in BOOLEAN, Begun(d, w, lost) PROVE Goal
  BY <1>0, <1>3, BegunIsCurrent DEF KeptStates
<1>4. ASSUME NEW w \in Worker, Superseded(d, w) PROVE FALSE
  <2>1. Keeps(exec[d]) /\ r.state = "available"
    BY <1>4 DEF Superseded
  <2> QED
    BY <1>1, <2>1 DEF KeptInv, KeptStates
<1> QED
  BY <1>0, <1>2, <1>3, <1>4, DeliverySteps

\* A process that still claims has released nothing.
NoneReleased ==
  \A d \in Delivery, w \in Worker : exec[d].worker = w /\ pool[w] = "up" => ~exec[d].released

LEMMA NoneReleasedStep ==
  ASSUME BaseInv, NoneReleased, [QueueNext]_vars
  PROVE  NoneReleased'
<1> DEFINE Goal == NoneReleased'
<1>0. QueueTypeOK /\ RoundsBounded
  BY DEF BaseInv, QueueInv
<1>1. ASSUME QuietQueueNext PROVE Goal
  <2>1. \A d \in Delivery : QuietExec(d)
    BY <1>0, <1>1, QuietExecs
  <2>2. \A w \in Worker : pool'[w] = "up" => pool[w] = "up"
    BY <1>0, <1>1, QuietPools
  <2> QED
    BY <2>1, <2>2 DEF NoneReleased, QuietExec, ExecStep, HearsTruth, News
<1>2. ASSUME UNCHANGED vars PROVE Goal
  BY <1>2 DEF vars, NoneReleased
<1>3. ASSUME NEW w \in Worker, NEW S \in SUBSET Job, NEW locked \in SUBSET Job,
             NEW lost \in BOOLEAN, Claim(w, S, locked, lost)
      PROVE  Goal
  <2>1. Started(w, lost).released = FALSE
    BY DEF Started, NoExecution
  <2>2. ASSUME NEW d \in Delivery
        PROVE  exec'[d] = Started(w, lost) \/ exec'[d] = exec[d]
    <3>1. d \in NewDeliveries(S) => exec'[d] = Started(w, lost)
      BY <1>0, <1>3, ClaimEffect
    <3>2. d \notin NewDeliveries(S) => exec'[d] = exec[d]
      BY <1>0, <1>3, ClaimEffect
    <3> QED
      BY <3>1, <3>2
  <2>3. pool' = pool
    BY <1>0, <1>3, ClaimEffect
  <2> QED
    BY <2>1, <2>2, <2>3 DEF NoneReleased
<1> HIDE DEF Goal
<1>4. Goal
  BY <1>1, <1>2, <1>3 DEF QueueNext, QuietQueueNext
<1> QED
  BY <1>4 DEF Goal

\* Another execution of the job in the same process accounts for the lost entry.
Explains(e, d) ==
  /\ e # d /\ e[1] = d[1]
  /\ exec[e].worker = exec[d].worker /\ exec[e].pc # "idle"
  /\ exec[d].reaped \/ exec[d].pc = "returning" \/ exec[e].pc = "done"

SlotInv ==
  \A d \in Delivery :
    Sharp(d[1]) /\ exec[d].pc \in Alive /\ d \notin active[exec[d].worker]
      => \E e \in Delivery : Explains(e, d)

\* What explains it goes on to do so.
LEMMA ExplanationsStay ==
  ASSUME NEW d \in Delivery, NEW e \in Delivery, QuietExec(d), QuietExec(e), exec'[d].pc \in Alive,
         Explains(e, d)
  PROVE  Explains(e, d)'
BY DEF QuietExec, ExecStep, Explains, Alive

\* Nothing goes on in a process that is down.
LEMMA DownStops ==
  ASSUME exec \in [Delivery -> Execution], NEW w \in Worker, Down(w)
  PROVE  \A e \in Delivery : exec[e].worker = w /\ exec[e].pc \in Alive => exec'[e].pc = "gone"
BY DEF Down, Killed, Over, Execution, Alive

LEMMA SlotStep ==
  ASSUME BaseInv, KeptInv, NoneReleased, SlotInv, [QueueNext]_vars
  PROVE  SlotInv'
<1> SUFFICES ASSUME NEW d \in Delivery, job'[d[1]].round = 0 \/ Concurrency = 1,
                    exec'[d].pc \in Alive, d \notin active'[exec'[d].worker]
             PROVE  \E e \in Delivery : Explains(e, d)'
  BY DEF SlotInv, Sharp
<1> DEFINE Goal == \E e \in Delivery : Explains(e, d)'
<1>0. /\ QueueTypeOK /\ TypeOK /\ RoundsBounded /\ AttemptsCountDeliveries /\ ActiveIsAlive
      /\ exec \in [Delivery -> Execution] /\ active \in [Worker -> SUBSET Delivery]
  BY DEF BaseInv, QueueInv, QueueTypeOK, Slots
<1>1. Sharp(d[1])
  BY SharpWas
<1>2. ASSUME QuietQueueNext \/ UNCHANGED vars, exec[d].pc \in Alive => d \notin active[exec[d].worker]
      PROVE  Goal
  <2>1. \A e \in Delivery : QuietExec(e)
    BY <1>0, <1>2, QuietExecutions
  <2>2. exec[d].pc \in Alive
    BY <2>1 DEF QuietExec, ExecStep
  <2>3. PICK e \in Delivery : Explains(e, d)
    BY <1>1, <1>2, <2>2 DEF SlotInv
  <2> QED
    BY <2>1, <2>3, ExplanationsStay
<1>3. ASSUME QuietQueueNext \/ UNCHANGED vars PROVE exec'[d].worker = exec[d].worker
  BY <1>0, <1>3, QuietExecutions DEF QuietExec, ExecStep
<1>4. ASSUME QuietQueueNext \/ UNCHANGED vars, active' = active PROVE Goal
  BY <1>2, <1>3, <1>4
<1>5. ASSUME QuietQueueNext, NEW x \in Delivery, exec[x].pc \in Alive, NEW ret, Finish(x, ret)
      PROVE  Goal
  <2> SUFFICES ASSUME exec[d].pc \in Alive, d \in active[exec[d].worker] PROVE Goal
    BY <1>2, <1>5
  <2>1. /\ exec'[x].pc = "done" /\ exec'[x].worker = exec[x].worker
        /\ \A e \in Delivery \ {x} : exec'[e] = exec[e]
    BY <1>0, <1>5 DEF Finish, Over, Execution
  <2>2. d # x /\ exec'[d] = exec[d]
    BY <2>1 DEF Alive
  <2>3. active' = [active EXCEPT ![exec[x].worker] = DeleteEntry(active[exec[x].worker], x[1])]
    BY <1>5 DEF Finish
  <2>4. exec[d].worker = exec[x].worker /\ x[1] = d[1]
    <3>1. exec[x].worker # exec[d].worker => active'[exec[d].worker] = active[exec[d].worker]
      BY <1>0, <2>3
    <3>2. exec[x].worker = exec[d].worker
      BY <2>2, <3>1
    <3>3. exec[x].worker \in Worker => d \notin DeleteEntry(active[exec[x].worker], x[1])
      BY <1>0, <2>2, <2>3, <3>2
    <3>4. exec[x].worker \notin Worker => active' = active
      BY <1>0, <2>3
    <3> QED
      BY <2>2, <3>2, <3>3, <3>4 DEF DeleteEntry
  <2> QED
    BY <2>1, <2>2, <2>4 DEF Explains
<1>6. ASSUME QuietQueueNext, NEW w \in Worker, Down(w) PROVE Goal
  <2>1. exec[d].pc \in Alive
    BY <1>0, <1>6, QuietExecutions DEF QuietExec, ExecStep
  <2>2. exec'[d].worker = exec[d].worker
    BY <1>3, <1>6
  <2>3. exec[d].worker # w
    BY <1>0, <1>6, <2>1, DownStops DEF Alive
  <2>4. active'[exec[d].worker] = active[exec[d].worker]
    BY <1>0, <1>6, <2>3 DEF Down
  <2> QED
    BY <1>2, <1>6, <2>2, <2>4
<1>7. ASSUME NEW w \in Worker, NEW S \in SUBSET Job, NEW locked \in SUBSET Job,
             NEW lost \in BOOLEAN, Claim(w, S, locked, lost)
      PROVE  Goal
  <2> DEFINE N == NewDeliveries(S)
             started == Started(w, lost)
  <2>1. /\ \A j \in S : job[j].state = "available" /\ job[j].attempt < MaxAttempts
        /\ N \subseteq Delivery
    <3>1. \A j \in S : job[j].state = "available" /\ job[j].attempt < MaxAttempts
      BY <1>7, ClaimRows
    <3>2. N \subseteq Delivery
      BY <1>0, <3>1, ClaimStarts DEF QueueTypeOK
    <3> QED
      BY <3>1, <3>2
  <2>2. ASSUME NEW e \in Delivery
        PROVE  exec'[e] = IF e \in N THEN started ELSE exec[e]
    BY <1>0, <1>7, ClaimEffect
  <2>3. ASSUME NEW e \in N PROVE exec[e].pc = "idle" /\ e[1] \in S
    BY <1>0, <2>1, ClaimIsNews, ClaimStarts
  <2>4. started.worker = w /\ started.pc = IF lost THEN "gone" ELSE "handler"
    BY DEF Started, NoExecution
  <2>5. active' = IF lost THEN active ELSE [active EXCEPT ![w] = SetEntries(@, N)]
    BY <1>7, ClaimFills
  <2> HIDE DEF N, started
  <2>6. /\ \A v : v # w => active'[v] = active[v]
        /\ lost => active' = active
        /\ ~lost => active'[w] = SetEntries(active[w], N)
    BY <1>0, <2>5
  <2>7. d \notin N
    BY <2>2, <2>4, <2>6 DEF SetEntries, Alive
  <2>8. exec'[d] = exec[d]
    BY <2>2, <2>7
  <2>9. CASE d \notin active[exec[d].worker]
    <3>1. PICK e \in Delivery : Explains(e, d)
      BY <1>1, <2>8, <2>9 DEF SlotInv
    <3>2. e \notin N
      BY <2>3, <3>1 DEF Explains
    <3> QED
      BY <2>2, <2>8, <3>1, <3>2 DEF Explains
  <2>10. CASE d \in active[exec[d].worker]
    <3>1. ~lost /\ exec[d].worker = w
      BY <2>6, <2>8, <2>10
    <3>2. PICK n \in N : n[1] = d[1]
      BY <2>6, <2>8, <2>10, <3>1 DEF SetEntries
    <3>3. job[d[1]].state = "available"
      BY <2>1, <2>3, <3>2
    <3>4. ~Keeps(exec[d])
      BY <1>1, <3>3 DEF KeptInv, KeptStates
    <3>5. pool[w] = "up"
      BY <1>7 DEF Claim
    <3>6. exec[d].reaped \/ exec[d].pc = "returning"
      BY <2>8, <3>1, <3>4, <3>5 DEF Keeps, NoneReleased
    <3>7. n \in Delivery /\ exec'[n] = started
      BY <2>1, <2>2, <3>2
    <3> QED
      BY <2>4, <2>7, <2>8, <3>1, <3>2, <3>6, <3>7 DEF Explains
  <2> QED
    BY <2>9, <2>10
<1>8. ASSUME UNCHANGED vars PROVE active' = active
  BY <1>8 DEF vars
<1> HIDE DEF Goal
<1>9. ASSUME QuietQueueNext PROVE Goal
  BY <1>0, <1>4, <1>5, <1>6, <1>9, QuietSlots DEF NoneEnds
<1>10. Goal
  BY <1>4, <1>7, <1>8, <1>9 DEF QueueNext, QuietQueueNext
<1> QED
  BY <1>10 DEF Goal

\* No slot leaks, and an execution goes on without its slot only after the queue
\* gave the same job to the same process again: of jobs that were never replayed,
\* or with pools of one slot, where it does not happen at all.
THEOREM SlotsAreKept ==
  /\ QueueSpec => []SlotInv
  /\ (MaxReplays = 0 \/ Concurrency = 1) => (QueueSpec => []SlotsFollowDeliveries)
<1>1. QueueInit => KeptInv /\ NoneReleased /\ SlotInv
  BY DEF QueueInit, KeptInv, NoneReleased, SlotInv, Keeps, NoExecution, Alive
<1>2. QueueSpec => []KeptInv
  BY <1>1, KeptStep, ReportInvariant, PTL DEF QueueSpec
<1>3. QueueSpec => []NoneReleased
  BY <1>1, NoneReleasedStep, BaseInvariant, PTL DEF QueueSpec
<1>4. QueueSpec => []SlotInv
  BY <1>1, <1>2, <1>3, SlotStep, BaseInvariant, PTL DEF QueueSpec
<1>5. ASSUME MaxReplays = 0 \/ Concurrency = 1, BaseInv, SlotInv
      PROVE  SlotsFollowDeliveries
  <2>1. \A d \in Delivery : exec[d].pc \in Alive /\ d \notin active[exec[d].worker]
                              => \E e \in Delivery : Explains(e, d)
    BY <1>5, AllSharp DEF SlotInv
  <2>2. \A w \in Worker : \A d \in active[w] : exec[d].worker = w /\ exec[d].pc \in Alive
    BY <1>5 DEF BaseInv, Slots, ActiveIsAlive
  <2> QED
    BY <2>1, <2>2 DEF SlotsFollowDeliveries, Explains
<1>6. ASSUME MaxReplays = 0 \/ Concurrency = 1
      PROVE  QueueSpec => []SlotsFollowDeliveries
  <2>1. BaseInv /\ SlotInv => SlotsFollowDeliveries
    BY <1>5, <1>6
  <2> QED
    BY <1>4, <2>1, BaseInvariant, PTL
<1> QED
  BY <1>4, <1>6

-----------------------------------------------------------------------------
(* Attempts left.                                                          *)

\* A row that waits has an attempt left, and one that is not there has used none.
RowHasAttempts(r) == /\ r.state = "absent" => r.attempt = 0
                     /\ r.state = "available" => r.attempt < MaxAttempts

AttemptsInv == /\ \A j \in Job : RowHasAttempts(job[j])
               /\ \A w \in Worker : pool[w] # "draining"

\* Only a request to shut down drains a pool.
LEMMA NoneDrains ==
  ASSUME MayStop = {}, QueueTypeOK, \A w \in Worker : pool[w] # "draining", QueueNext
  PROVE  \A w \in Worker : pool'[w] # "draining"
<1> DEFINE Goal == \A w \in Worker : pool'[w] # "draining"
<1>1. ASSUME pool' = pool PROVE Goal
  BY <1>1
<1>2. ASSUME NEW w \in Worker, Crash(w) \/ Stop(w) \/ Exit(w) PROVE Goal
  BY <1>2 DEF Crash, Stop, Exit, Down, QueueTypeOK
<1>3. ASSUME NEW d \in Delivery,
             HeartbeatSent(d) \/ HeartbeatRejected(d) \/ JobTimeout(d) \/ HandlerEnds(d)
               \/ \E answer \in {"cancel", "lost"} : HeartbeatAnswered(d, answer)
      PROVE  pool' = pool
  BY <1>3 DEF HeartbeatSent, HeartbeatRejected, JobTimeout, HeartbeatAnswered, HandlerEnds,
              HandlerResolves, HandlerThrows, HandlerGivesUp, Finish
<1>4. ASSUME NEW d \in Delivery, Report(d) PROVE pool' = pool
  BY <1>4 DEF Report, AckAfterSuccess, ReportComplete, AckAfterFailure, ReportFail, Return,
              Caught, Goto, Finish
<1>5. ASSUME NEW w \in Worker, NEW S, NEW locked, NEW lost, Claim(w, S, locked, lost)
      PROVE  pool' = pool
  BY <1>5 DEF Claim
<1>6. ASSUME NEW S, Reap(S) PROVE pool' = pool
  BY <1>6 DEF Reap
<1>7. ASSUME NEW d, Release(d) PROVE pool' = pool
  BY <1>7 DEF Release
<1>8. ASSUME UNCHANGED workerVars PROVE pool' = pool
  BY <1>8 DEF workerVars
<1> HIDE DEF Goal
<1>9. Goal
  BY <1>1, <1>2, <1>3, <1>4, <1>5, <1>6, <1>7, <1>8 DEF QueueNext
<1> QED
  BY <1>9 DEF Goal

\* A report that is not a release keeps an attempt for a row that waits.
LEMMA ReportKeepsAttempts ==
  ASSUME NEW r \in Row, NEW b \in BOOLEAN
  PROVE  \A q \in {Completed(r), Acknowledged(r), Failed(r, b), Reaped(r)} : RowHasAttempts(q)
<1>1. r.attempt \in Nat
  BY DEF Row
<1>2. RowHasAttempts(Completed(r)) /\ RowHasAttempts(Acknowledged(r))
  BY DEF Completed, Acknowledged, Row, RowHasAttempts
<1>3. RowHasAttempts(Failed(r, b)) /\ RowHasAttempts(Reaped(r))
  BY <1>1, FailedRow, ReapedRow, TableAssumptions DEF RowHasAttempts
<1> QED
  BY <1>2, <1>3

LEMMA AttemptsStep ==
  ASSUME MayStop = {}, BaseInv, AttemptsInv, [QueueNext]_vars
  PROVE  AttemptsInv'
<1> DEFINE Goal == AttemptsInv'
<1>0. QueueTypeOK /\ QueueInv /\ ActiveIsAlive
  BY DEF BaseInv, QueueInv, Slots
<1>1. \A w \in Worker : pool'[w] # "draining"
  BY <1>0, NoneDrains DEF AttemptsInv, vars
<1>2. ASSUME NEW j \in Job
      PROVE  job[j] \in Row /\ job[j].attempt \in Nat /\ RowHasAttempts(job[j])
  BY <1>0 DEF QueueTypeOK, TypeOK, Row, AttemptsInv
<1>3. ASSUME QuietQueueNext, NEW j \in Job PROVE RowHasAttempts(job'[j])
  <2>1. RowKept(job[j], job'[j]) /\ Fate(j)
    BY <1>0, <1>3, QuietRows, QuietFate DEF QueueInv
  <2>2. CASE Administered(job[j], job'[j])
    BY <1>2, <2>1, <2>2, TableAssumptions DEF Administered, RowKept, RowHasAttempts
  <2>3. CASE job'[j] = Reaped(job[j])
    BY <1>2, <2>3, ReportKeepsAttempts
  <2>4. ASSUME NEW x \in Delivery, x[1] = j, exec[x].pc \in Alive, Owns(x), Reported(x)
        PROVE  RowHasAttempts(job'[j])
    <3>1. exec[x].nonRetryable \in BOOLEAN
      BY <1>0 DEF QueueTypeOK, Execution
    <3>2. exec[x].worker \in Worker
      <4>1. Fence(x[1], exec[x].worker, x[3])
        BY <2>4 DEF Owns
      <4> QED
        BY <1>0, <4>1, FenceOwner, DeliveryParts DEF QueueTypeOK, QueueInv
    <3>3. pool[exec[x].worker] # "draining"
      BY <3>2 DEF AttemptsInv
    <3> QED
      BY <1>2, <2>4, <3>1, <3>3, ReportKeepsAttempts DEF Reported
  <2> QED
    BY <2>1, <2>2, <2>3, <2>4 DEF Fate
<1>4. ASSUME NEW w \in Worker, NEW S \in SUBSET Job, NEW locked \in SUBSET Job,
             NEW lost \in BOOLEAN, Claim(w, S, locked, lost), NEW j \in Job
      PROVE  RowHasAttempts(job'[j])
  <2>1. job'[j] = IF j \in S THEN Claimed(job[j], w) ELSE job[j]
    BY <1>4, ClaimRows
  <2>2. Claimed(job[j], w).state = "running"
    BY <1>2, ClaimedRow
  <2> QED
    BY <1>2, <2>1, <2>2 DEF RowHasAttempts
<1>5. ASSUME UNCHANGED vars PROVE \A j \in Job : RowHasAttempts(job'[j])
  BY <1>2, <1>5 DEF vars
<1>6. \A j \in Job : RowHasAttempts(job'[j])
  BY <1>3, <1>4, <1>5 DEF QueueNext, QuietQueueNext
<1> QED
  BY <1>1, <1>6 DEF AttemptsInv, RowHasAttempts

\* Were it not for the release at shutdown, a row that waits to be claimed would
\* always have an attempt left, as report.sql.ts:183 promises: every other way back
\* into the queue (failure, reaped lease, replay) looks at the attempts used.
THEOREM OnlyReleaseExhausts ==
  MayStop = {} => (QueueSpec => []AvailableHasAttemptLeft)
<1> SUFFICES ASSUME MayStop = {} PROVE QueueSpec => []AvailableHasAttemptLeft
  OBVIOUS
<1>1. QueueInit => AttemptsInv
  BY TableAssumptions DEF QueueInit, Init, AttemptsInv, RowHasAttempts, NoRow
<1>2. BaseInv /\ AttemptsInv /\ [QueueNext]_vars => AttemptsInv'
  BY AttemptsStep
<1>3. AttemptsInv => AvailableHasAttemptLeft
  BY DEF AttemptsInv, RowHasAttempts, AvailableHasAttemptLeft
<1> QED
  BY <1>1, <1>2, <1>3, BaseInvariant, PTL DEF QueueSpec
=============================================================================
