----------------------------- MODULE WorkerPool -----------------------------
(***************************************************************************)
(* The waiting of one worker pool: its claim loop, the notification        *)
(* listener that wakes it, and stop().                                     *)
(*                                                                         *)
(* The three are JavaScript functions on one thread: each runs from one    *)
(* await to the next without interruption, and a step here is one such     *)
(* stretch.  What a delivery does to its row is JobQueue's business; here  *)
(* a row is only waiting to be claimed, held by this pool, or settled.     *)
(*                                                                         *)
(* Nothing tells the loop that a job became ready except a NOTIFY, which   *)
(* may be lost: the session may be down, may not have LISTENed to the      *)
(* channel yet, or the loop may not be waiting.  Errors of the database    *)
(* and of the connection are bounded by MaxFaults.                         *)
(***************************************************************************)
EXTENDS Naturals, Sequences, FiniteSets

CONSTANTS Job,
          Queues,        \* opts.queues, in order
          QueueOf,       \* the queue of each job
          Concurrency,   \* opts.concurrency
          ClaimBatchMax, \* opts.claimBatchMax
          MayHang,       \* jobs whose handler may never settle
          MaxFaults      \* bound: database and connection errors

ASSUME PoolAssumptions ==
  /\ IsFiniteSet(Job)
  /\ Queues \in Seq(STRING) /\ Queues # <<>>
  /\ QueueOf \in [Job -> {Queues[i] : i \in 1..Len(Queues)}]
  /\ Concurrency \in Nat \ {0}
  /\ ClaimBatchMax \in Nat \ {0}
  /\ MayHang \subseteq Job
  /\ MaxFaults \in Nat

VARIABLES row,        \* the job rows as this pool can tell them apart
          left,       \* held rows that wait for their lease to expire
          running,    \* this.running
          loop,       \* where claimLoop awaits
          staggered,  \* a wake has set the staggered timer of the current wait
          cached,     \* queues with a config row younger than 5 s
          inFlight,   \* this.inFlight and this.active: the same keys
          listener,   \* where Listener.loop awaits
          stopped,    \* Listener.stopped
          notes,      \* notifications under way to the session
          stopping,   \* where stop() awaits
          pending,    \* active entries the release loop has not visited
          faults      \* errors left

poolVars == <<row, left, running, loop, staggered, cached, inFlight,
              listener, stopped, notes, stopping, pending, faults>>
loopVars     == <<running, loop, staggered, cached>>
listenerVars == <<listener, stopped, notes>>
stopVars     == <<stopping, pending>>

LoopPoints     == {"off", "config", "claim", "answer", "busy", "idle", "backoff", "ended"}
ListenerPoints == {"off", "connecting", "subscribing", "listening", "sleeping", "ended"}
StopPoints     == {"none", "loop", "grace", "release", "listener", "done"}

PoolTypeOK ==
  /\ row \in [Job -> {"absent", "ready", "held", "settled"}]
  /\ left \in SUBSET Job
  /\ running \in BOOLEAN
  /\ loop \in [at : LoopPoints, queue : 1..Len(Queues), limit : Nat,
               claimedAny : BOOLEAN, got : SUBSET Job]
  /\ staggered \in BOOLEAN
  /\ cached \in SUBSET {Queues[i] : i \in 1..Len(Queues)}
  /\ inFlight \in SUBSET Job
  /\ listener \in [at : ListenerPoints, channels : 0..Len(Queues)]
  /\ stopped \in BOOLEAN
  /\ notes \in SUBSET {Queues[i] : i \in 1..Len(Queues)}
  /\ stopping \in StopPoints
  /\ pending \in SUBSET Job
  /\ faults \in 0..MaxFaults

Free(busy) == Concurrency - Cardinality(busy)

-----------------------------------------------------------------------------
(* The claim loop: the await it reaches next.                              *)

Rest(p) == [at |-> p, queue |-> 1, limit |-> 0, claimedAny |-> FALSE, got |-> {}]

\* Mutant: the capacity computed before the first claim is used for every queue.
LimitOfFirstQueue(busy) == IF Concurrency < ClaimBatchMax THEN Concurrency ELSE ClaimBatchMax

Limit(busy) == IF Free(busy) < ClaimBatchMax THEN Free(busy) ELSE ClaimBatchMax

\* claim(): a fresh config row needs no query.
Ask(i, any, busy) == [at         |-> IF Queues[i] \in cached THEN "claim" ELSE "config",
                      queue      |-> i,
                      limit      |-> Limit(busy),
                      claimedAny |-> any,
                      got        |-> {}]

Full(busy) == Cardinality(busy) >= Concurrency

Top(busy) == CASE ~running                -> Rest("ended")
               [] running /\ Full(busy)  -> Rest("busy")
               [] running /\ ~Full(busy) -> Ask(1, FALSE, busy)

\* The for loop goes on to queue i, or is left.
NextQueue(i, any, busy) ==
  IF i <= Len(Queues) /\ running /\ ~Full(busy) THEN Ask(i, any, busy)
  ELSE IF any THEN Top(busy) ELSE Rest("idle")

ToTop == /\ loop' = Top(inFlight)
         /\ staggered' = FALSE
         /\ UNCHANGED <<row, left, running, cached, inFlight, listenerVars, stopVars, faults>>

Start ==
  /\ loop.at = "off"
  /\ running' = TRUE
  /\ loop' = Ask(1, FALSE, inFlight)
  /\ listener' = [at |-> "connecting", channels |-> 0]
  /\ UNCHANGED <<row, left, staggered, cached, inFlight, stopped, notes, stopVars, faults>>

\* configFor: a missing row is cached like any other.
ConfigRead ==
  /\ loop.at = "config"
  /\ cached' = cached \cup {Queues[loop.queue]}
  /\ loop' = [loop EXCEPT !.at = "claim"]
  /\ UNCHANGED <<row, left, running, staggered, inFlight, listenerVars, stopVars, faults>>

ConfigExpires(q) ==
  /\ q \in cached
  /\ cached' = cached \ {q}
  /\ UNCHANGED <<row, left, running, loop, staggered, inFlight, listenerVars, stopVars, faults>>

Ready(q) == {j \in Job : row[j] = "ready" /\ QueueOf[j] = q}

ClaimApplied(S) ==
  /\ loop.at = "claim"
  /\ S \subseteq Ready(Queues[loop.queue])
  /\ \/ Cardinality(S) = loop.limit
     \/ S = Ready(Queues[loop.queue]) /\ Cardinality(S) < loop.limit
  /\ row' = [j \in Job |-> IF j \in S THEN "held" ELSE row[j]]
  /\ loop' = [loop EXCEPT !.at = "answer", !.got = S]
  /\ UNCHANGED <<left, running, staggered, cached, inFlight, listenerVars, stopVars, faults>>

\* The rows are spawned, whether or not stop() was called meanwhile.
ClaimAnswered ==
  /\ loop.at = "answer"
  /\ inFlight' = inFlight \cup loop.got
  /\ loop' = NextQueue(loop.queue + 1, loop.claimedAny \/ loop.got # {}, inFlight')
  /\ UNCHANGED <<row, left, running, staggered, cached, listenerVars, stopVars, faults>>

\* The catch block.  Rows of a claim whose answer was lost are nobody's.
LoopFails ==
  /\ loop.at \in {"config", "claim", "answer"}
  /\ faults > 0
  /\ faults' = faults - 1
  /\ left' = left \cup loop.got
  /\ loop' = Rest("backoff")
  /\ UNCHANGED <<row, running, staggered, cached, inFlight, listenerVars, stopVars>>

BackoffEnds == loop.at = "backoff" /\ ToTop

\* Promise.race over the handlers in flight: no timer is part of it.
SlotFreed == loop.at = "busy" /\ ~Full(inFlight) /\ ToTop

\* Mutant: only a wake ends the wait.
PollNever == FALSE /\ ToTop

\* idleWait: the poll timer, or the staggered one that a wake has set.
PollFires == loop.at = "idle" /\ ToTop
StaggerFires == loop.at = "idle" /\ staggered /\ ToTop

\* signalWake: without a pending wait there is no this.wake to call.
Woken == loop.at = "idle"

-----------------------------------------------------------------------------
(* Rows and handlers.                                                      *)

\* The trigger notifies; only a session that LISTENs to the channel is told.
Listens(q) == /\ listener.at \in {"subscribing", "listening"}
              /\ \E i \in 1..listener.channels : Queues[i] = q

Enqueue(j) ==
  /\ row[j] = "absent"
  /\ row' = [row EXCEPT ![j] = "ready"]
  /\ notes' = IF Listens(QueueOf[j]) THEN notes \cup {QueueOf[j]} ELSE notes
  /\ UNCHANGED <<left, loopVars, inFlight, listener, stopped, stopVars, faults>>

OtherWorker(j) ==
  /\ row[j] = "ready"
  /\ row' = [row EXCEPT ![j] = "settled"]
  /\ UNCHANGED <<left, loopVars, inFlight, listenerVars, stopVars, faults>>

\* The reaper; no NOTIFY is sent for an update.
LeaseExpires(j) ==
  /\ j \in left /\ row[j] = "held"
  /\ row' = [row EXCEPT ![j] = "ready"]
  /\ left' = left \ {j}
  /\ UNCHANGED <<loopVars, inFlight, listenerVars, stopVars, faults>>

\* run() returns and the finally of spawn frees the slot; a report of a row that
\* is no longer held fails its fence.
Settle(j) ==
  /\ j \in inFlight
  /\ inFlight' = inFlight \ {j}
  /\ row' = IF row[j] = "held" THEN [row EXCEPT ![j] = "settled"] ELSE row
  /\ left' = left \ {j}
  /\ UNCHANGED <<loopVars, listenerVars, stopVars, faults>>

\* run() throws: the slot is freed and the row left for its lease.
RunnerThrows(j) ==
  /\ j \in inFlight
  /\ faults > 0
  /\ faults' = faults - 1
  /\ inFlight' = inFlight \ {j}
  /\ left' = IF row[j] = "held" THEN left \cup {j} ELSE left
  /\ UNCHANGED <<row, loopVars, listenerVars, stopVars>>

-----------------------------------------------------------------------------
(* Listener.                                                               *)

ListenerStep(at, n) == /\ listener' = [at |-> at, channels |-> n]
                       /\ UNCHANGED <<row, left, loopVars, inFlight, stopped, stopVars>>

Connected == /\ listener.at = "connecting" /\ ~stopped
             /\ ListenerStep("subscribing", 0) /\ UNCHANGED <<notes, faults>>

\* LISTEN, one channel after the other; the last one resets the attempt counter.
Listen == /\ listener.at = "subscribing" /\ ~stopped
          /\ ListenerStep(IF listener.channels + 1 = Len(Queues) THEN "listening" ELSE "subscribing",
                          listener.channels + 1)
          /\ UNCHANGED <<notes, faults>>

\* An error is slept off; a session that ends cleanly is replaced at once.
\* What was on its way over the connection is lost with it.
ConnectionLost(clean) ==
  /\ listener.at \in {"connecting", "subscribing", "listening"} /\ ~stopped
  /\ clean => listener.at = "listening"
  /\ faults > 0
  /\ faults' = faults - 1
  /\ ListenerStep(IF clean THEN "connecting" ELSE "sleeping", 0)
  /\ notes' = {}

Reconnect == /\ listener.at = "sleeping"
             /\ ListenerStep(IF stopped THEN "ended" ELSE "connecting", 0)
             /\ UNCHANGED <<notes, faults>>

\* client.end() of Listener.stop ends the session, or breaks off the connect.
SessionEnds == /\ listener.at \in {"connecting", "subscribing", "listening"} /\ stopped
               /\ ListenerStep("ended", 0)
               /\ notes' = {} /\ UNCHANGED faults

Notified(q) ==
  /\ q \in notes
  /\ notes' = notes \ {q}
  /\ staggered' = Woken
  /\ UNCHANGED <<row, left, running, loop, cached, inFlight, listener, stopped, stopVars, faults>>

-----------------------------------------------------------------------------
(* WorkerPool.stop.                                                        *)

Stop ==
  /\ running
  /\ running' = FALSE
  /\ staggered' = Woken
  /\ stopping' = "loop"
  /\ UNCHANGED <<row, left, loop, cached, inFlight, listenerVars, pending, faults>>

StopAt(p, todo) == /\ stopping' = p /\ pending' = todo
                   /\ stopped' = (p = "listener")
                   /\ UNCHANGED <<row, left, loopVars, inFlight, listener, notes, faults>>

\* Mutant: stop() does not wait for the loop.
LoopAwaitedNever == /\ stopping = "loop"
                    /\ StopAt(IF inFlight = {} THEN "listener" ELSE "grace", {})

LoopAwaited == /\ stopping = "loop" /\ loop.at = "ended"
               /\ StopAt(IF inFlight = {} THEN "listener" ELSE "grace", {})

AllSettled == stopping = "grace" /\ inFlight = {} /\ StopAt("listener", {})

\* Mutant: wait for the handlers however long they take.
GraceEndless == stopping = "grace" /\ inFlight = {} /\ StopAt("listener", {})

GraceElapses == stopping = "grace" /\ StopAt("release", inFlight)

\* The iteration skips entries that were deleted while it awaited.
Release(j) ==
  /\ stopping = "release" /\ j \in pending \cap inFlight
  /\ pending' = pending \ {j}
  /\ \/ row[j] = "held" /\ row' = [row EXCEPT ![j] = "ready"] /\ UNCHANGED <<left, faults>>
     \/ row[j] # "held" /\ UNCHANGED <<row, left, faults>>
     \/ /\ faults > 0 /\ faults' = faults - 1
        /\ left' = left \cup {j} /\ UNCHANGED row
  /\ UNCHANGED <<loopVars, inFlight, listenerVars, stopping>>

Released == stopping = "release" /\ pending \cap inFlight = {} /\ StopAt("listener", {})

Stopped == /\ stopping = "listener" /\ listener.at = "ended"
           /\ stopping' = "done"
           /\ UNCHANGED <<row, left, loopVars, inFlight, listenerVars, pending, faults>>

-----------------------------------------------------------------------------
PoolInit ==
  /\ row = [j \in Job |-> "absent"]
  /\ left = {}
  /\ running = FALSE
  /\ loop = Rest("off")
  /\ staggered = FALSE
  /\ cached = {}
  /\ inFlight = {}
  /\ listener = [at |-> "off", channels |-> 0]
  /\ stopped = FALSE
  /\ notes = {}
  /\ stopping = "none"
  /\ pending = {}
  /\ faults = MaxFaults

Claims == \E S \in SUBSET Job : ClaimApplied(S)
LoopNext == \/ ConfigRead \/ Claims \/ ClaimAnswered \/ LoopFails
            \/ BackoffEnds \/ SlotFreed \/ PollFires \/ StaggerFires
ListenerNext == \/ Connected \/ Listen \/ Reconnect \/ SessionEnds
                \/ \E clean \in BOOLEAN : ConnectionLost(clean)
StopNext == \/ LoopAwaited \/ AllSettled \/ GraceElapses \/ Released \/ Stopped
            \/ \E j \in Job : Release(j)
RowNext == \E j \in Job : \/ Enqueue(j) \/ OtherWorker(j) \/ LeaseExpires(j)
                          \/ Settle(j) \/ RunnerThrows(j)

PoolNext == \/ Start \/ Stop \/ LoopNext \/ ListenerNext \/ StopNext \/ RowNext
            \/ \E i \in 1..Len(Queues) : ConfigExpires(Queues[i]) \/ Notified(Queues[i])

PoolSpec == PoolInit /\ [][PoolNext]_poolVars

\* Timers fire and queries settle; a handler that may not hang settles.  No
\* fairness for enqueues, notifications, other workers or the reaper.
PoolFairness ==
  /\ WF_poolVars(LoopNext)
  /\ WF_poolVars(Connected \/ Listen \/ Reconnect \/ SessionEnds)
  /\ WF_poolVars(StopNext)
  /\ \A j \in Job \ MayHang : WF_poolVars(Settle(j))

FairPoolSpec == PoolSpec /\ PoolFairness

-----------------------------------------------------------------------------
(* Properties.                                                             *)

\* The loop never has more handlers in flight, or on their way from a claim,
\* than it has slots (pool.ts:143 computes the capacity anew for every queue,
\* because each claim is an await at which slots are freed and taken).
PoolWithinConcurrency ==
  Cardinality(inFlight \cup (IF loop.at = "answer" THEN loop.got ELSE {})) <= Concurrency

\* When stop() has returned, every row this pool still holds was left to its
\* lease on purpose: its claim, report or release failed.  A claim that is under
\* way when stop() is called is spawned, waited for and released like the others
\* (pool.ts:302-336).
NothingStranded ==
  stopping = "done" => \A j \in Job : row[j] = "held" => j \in left

\* A job that is ready is claimed by someone as long as the pool runs, whatever
\* happened to its notification ("polling as the guarantee",
\* engineering-decisions.md:152), with fewer handlers hanging than there are
\* slots.
ReadyJobIsClaimed ==
  \A j \in Job : row[j] = "ready" ~> (row[j] # "ready" \/ ~running)

\* stop() returns (pool.ts:286-342), with fewer handlers hanging than there are
\* slots: the grace period bounds the wait for handlers, the poll timer that of
\* an idle loop, and the listener leaves its reconnect sleep.
DrainEnds == stopping = "loop" ~> stopping = "done"

=============================================================================
