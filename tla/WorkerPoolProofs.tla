-------------------------- MODULE WorkerPoolProofs --------------------------
(***************************************************************************)
(* Proofs about WorkerPool for all jobs, queues, slots and batch sizes.    *)
(***************************************************************************)
EXTENDS WorkerPool, FiniteSetTheorems, TLAPS

QueueNames == {Queues[i] : i \in 1..Len(Queues)}
LoopType == [at : LoopPoints, queue : 1..Len(Queues), limit : Nat,
             claimedAny : BOOLEAN, got : SUBSET Job]

-----------------------------------------------------------------------------
(* The inductive invariant.                                                *)

\* A claim that is being sent leaves room for what it may return, and one that has
\* been executed fits into the slots.
WithinSlots(l, busy) ==
  /\ Cardinality(busy) <= Concurrency
  /\ l.at \in {"config", "claim"} => l.limit + Cardinality(busy) <= Concurrency
  /\ l.at = "answer" => Cardinality(busy \cup l.got) <= Concurrency

\* Somebody knows of every row that is held: a handler, the loop, or its lease.
HeldIsKnown ==
  \A j \in Job : row[j] = "held" =>
    j \in left \/ j \in inFlight \/ (loop.at = "answer" /\ j \in loop.got)

\* How far stop() has come.
Drained ==
  /\ loop.at = "off" => ~running /\ inFlight = {} /\ stopping = "none"
  /\ stopping # "none" => ~running
  /\ stopping \in {"grace", "release", "listener", "done"} => loop.at = "ended"
  /\ stopping = "release" =>
       \A j \in Job : row[j] = "held" => j \in left \/ j \in pending \cap inFlight
  /\ stopping \in {"listener", "done"} => \A j \in Job : row[j] = "held" => j \in left

Subscribing == listener.at = "subscribing" => listener.channels < Len(Queues)

PoolInv == /\ PoolTypeOK /\ Subscribing
           /\ WithinSlots(loop, inFlight) /\ HeldIsKnown /\ Drained

-----------------------------------------------------------------------------
(* Facts about the parts.                                                  *)

LEMMA ConstantFacts ==
  /\ Len(Queues) \in Nat /\ 1 \in 1..Len(Queues)
  /\ Concurrency \in Nat /\ Concurrency >= 1 /\ ClaimBatchMax \in Nat /\ MaxFaults \in Nat
  BY PoolAssumptions

LEMMA SlotFacts ==
  ASSUME NEW busy \in SUBSET Job
  PROVE  IsFiniteSet(busy) /\ Cardinality(busy) \in Nat
  BY PoolAssumptions, FS_Subset, FS_CardinalityType

LEMMA Shrinks ==
  ASSUME NEW busy \in SUBSET Job, NEW less \in SUBSET busy
  PROVE  Cardinality(less) <= Cardinality(busy)
  BY SlotFacts, FS_Subset

\* What the loop waits for next, with busy in flight.
IsNextWait(l, busy) ==
  /\ l \in LoopType /\ WithinSlots(l, busy)
  /\ l.at \notin {"off", "answer"}

LEMMA RestFacts ==
  ASSUME NEW busy \in SUBSET Job, Cardinality(busy) <= Concurrency,
         NEW p \in LoopPoints \ {"off", "config", "claim", "answer"}
  PROVE  IsNextWait(Rest(p), busy)
  BY ConstantFacts DEF IsNextWait, Rest, LoopType, WithinSlots, LoopPoints

LEMMA AskFacts ==
  ASSUME NEW busy \in SUBSET Job, ~Full(busy), NEW i \in 1..Len(Queues), NEW any \in BOOLEAN
  PROVE  IsNextWait(Ask(i, any, busy), busy)
<1>1. Cardinality(busy) \in Nat /\ Cardinality(busy) < Concurrency
  BY SlotFacts, ConstantFacts DEF Full
<1>2. Limit(busy) \in Nat /\ Limit(busy) + Cardinality(busy) <= Concurrency
  BY <1>1, ConstantFacts DEF Limit, Free
<1> HIDE DEF Limit
<1> QED BY <1>1, <1>2, ConstantFacts DEF Ask, IsNextWait, LoopType, WithinSlots, LoopPoints

LEMMA TopFacts ==
  ASSUME NEW busy \in SUBSET Job, Cardinality(busy) <= Concurrency, running \in BOOLEAN
  PROVE  IsNextWait(Top(busy), busy)
<1>1. CASE ~running
  BY <1>1, RestFacts DEF Top, LoopPoints
<1>2. CASE running /\ Full(busy)
  BY <1>2, RestFacts DEF Top, LoopPoints
<1>3. CASE running /\ ~Full(busy)
  BY <1>3, AskFacts, ConstantFacts DEF Top
<1> QED BY <1>1, <1>2, <1>3

LEMMA NextQueueFacts ==
  ASSUME NEW busy \in SUBSET Job, Cardinality(busy) <= Concurrency, running \in BOOLEAN,
         NEW i \in Nat \ {0}, NEW any \in BOOLEAN
  PROVE  IsNextWait(NextQueue(i, any, busy), busy)
<1>1. CASE i <= Len(Queues) /\ running /\ ~Full(busy)
  <2>1. i \in 1..Len(Queues)
    BY <1>1, ConstantFacts
  <2> QED BY <1>1, <2>1, AskFacts DEF NextQueue
<1>2. CASE ~(i <= Len(Queues) /\ running /\ ~Full(busy)) /\ any
  BY <1>2, TopFacts DEF NextQueue
<1>3. CASE ~(i <= Len(Queues) /\ running /\ ~Full(busy)) /\ ~any
  <2>1. NextQueue(i, any, busy) = Rest("idle")
    BY <1>3 DEF NextQueue
  <2> QED BY <2>1, RestFacts DEF LoopPoints
<1> QED BY <1>1, <1>2, <1>3

\* What the steps have in common.
RowsOf == <<row, left, loop, inFlight, running, stopping, pending>>

LEMMA QuietKeeps ==
  ASSUME PoolInv, UNCHANGED RowsOf
  PROVE  WithinSlots(loop, inFlight)' /\ HeldIsKnown' /\ Drained'
  BY DEF PoolInv, RowsOf, WithinSlots, HeldIsKnown, Drained

\* The loop goes to its next wait while the rest stays.
LEMMA LoopMoves ==
  ASSUME PoolInv, loop.at \notin {"off", "answer", "ended"}, IsNextWait(loop', inFlight),
         UNCHANGED <<row, left, inFlight, running, stopping, pending>>
  PROVE  WithinSlots(loop, inFlight)' /\ HeldIsKnown' /\ Drained'
<1>1. WithinSlots(loop, inFlight)'
  BY DEF IsNextWait, WithinSlots
<1>2. HeldIsKnown' /\ Drained'
  BY DEF PoolInv, HeldIsKnown, Drained, IsNextWait
<1> QED BY <1>1, <1>2

\* Handlers end and rows are given up; nothing is claimed.
LEMMA RowsEase ==
  ASSUME PoolInv, inFlight' \in SUBSET inFlight, UNCHANGED <<loop, running, stopping>>,
         \A j \in Job : row'[j] = "held" =>
           /\ row[j] = "held"
           /\ j \in left => j \in left'
           /\ j \in inFlight => j \in inFlight' \/ j \in left'
           /\ j \in pending => j \in pending' \/ j \in left'
  PROVE  WithinSlots(loop, inFlight)' /\ HeldIsKnown' /\ Drained'
<1>1. inFlight \in SUBSET Job /\ loop \in LoopType
  BY DEF PoolInv, PoolTypeOK, LoopType
<1>2. Cardinality(inFlight') <= Cardinality(inFlight)
  BY <1>1, Shrinks
<1>3. inFlight \cup loop.got \in SUBSET Job /\ inFlight' \cup loop.got \in SUBSET (inFlight \cup loop.got)
  BY <1>1 DEF LoopType
<1>4. Cardinality(inFlight' \cup loop.got) <= Cardinality(inFlight \cup loop.got)
  BY <1>3, Shrinks
<1>5. /\ Cardinality(inFlight) \in Nat /\ Cardinality(inFlight') \in Nat
      /\ Cardinality(inFlight \cup loop.got) \in Nat /\ Cardinality(inFlight' \cup loop.got) \in Nat
      /\ loop.limit \in Nat
  BY <1>1, <1>3, SlotFacts DEF LoopType
<1>6. WithinSlots(loop, inFlight)'
  BY <1>2, <1>4, <1>5, ConstantFacts DEF PoolInv, WithinSlots
<1>7. HeldIsKnown' /\ Drained'
  BY DEF PoolInv, HeldIsKnown, Drained
<1> QED BY <1>6, <1>7

-----------------------------------------------------------------------------
(* The steps.                                                              *)

LEMMA InitHolds == PoolInit => PoolInv
<1> SUFFICES ASSUME PoolInit PROVE PoolInv
  OBVIOUS
<1>1. Rest("off") \in LoopType
  BY ConstantFacts DEF Rest, LoopType, LoopPoints
<1>2. PoolTypeOK
  <2>1. listener \in [at : ListenerPoints, channels : 0..Len(Queues)]
    BY ConstantFacts DEF PoolInit, ListenerPoints
  <2>2. loop \in LoopType
    BY <1>1 DEF PoolInit
  <2>3. faults \in 0..MaxFaults /\ row \in [Job -> {"absent", "ready", "held", "settled"}]
    BY ConstantFacts DEF PoolInit
  <2> QED BY <2>1, <2>2, <2>3 DEF PoolInit, PoolTypeOK, LoopType, StopPoints
<1>3. WithinSlots(loop, inFlight)
  BY ConstantFacts, FS_EmptySet DEF PoolInit, Rest, WithinSlots
<1> QED BY <1>2, <1>3 DEF PoolInit, PoolInv, Rest, HeldIsKnown, Drained, Subscribing

\* Where the parts of the invariant go together again.
LEMMA Reassemble ==
  ASSUME PoolTypeOK', Subscribing', WithinSlots(loop, inFlight)' /\ HeldIsKnown' /\ Drained'
  PROVE  PoolInv'
  BY DEF PoolInv

LEMMA LoopKeeps ==
  ASSUME PoolInv, Start \/ LoopNext
  PROVE  PoolInv'
<1> USE ConstantFacts
<1>0. PoolTypeOK /\ loop \in LoopType /\ Cardinality(inFlight) <= Concurrency /\ Subscribing
  BY DEF PoolInv, PoolTypeOK, LoopType, WithinSlots
<1>1. CASE Start
  <2>1. inFlight = {} /\ stopping = "none"
    BY <1>1 DEF PoolInv, Drained, Start
  <2>2. IsNextWait(loop', inFlight)
    <3>1. ~Full({})
      BY FS_EmptySet DEF Full
    <3> QED BY <1>1, <2>1, <3>1, AskFacts DEF Start
  <2>3. PoolTypeOK' /\ Subscribing'
    <3>1. listener' \in [at : ListenerPoints, channels : 0..Len(Queues)] /\ Subscribing'
      BY <1>1 DEF Start, ListenerPoints, Subscribing
    <3>2. loop' \in LoopType
      BY <2>2 DEF IsNextWait
    <3> QED BY <1>0, <1>1, <3>1, <3>2 DEF Start, PoolTypeOK, LoopType, stopVars
  <2>4. WithinSlots(loop, inFlight)'
    BY <1>1, <2>2 DEF Start, IsNextWait, WithinSlots
  <2>5. HeldIsKnown' /\ Drained'
    BY <1>1, <2>1, <2>2 DEF Start, IsNextWait, PoolInv, HeldIsKnown, Drained, stopVars
  <2> QED BY <2>3, <2>4, <2>5 DEF PoolInv
<1>2. CASE ConfigRead
  <2>1. IsNextWait(loop', inFlight)
    BY <1>0, <1>2 DEF ConfigRead, IsNextWait, PoolInv, WithinSlots, LoopType, LoopPoints
  <2>2. PoolTypeOK' /\ Subscribing'
    BY <1>0, <1>2, <2>1 DEF ConfigRead, PoolTypeOK, IsNextWait, LoopType, listenerVars, stopVars, Subscribing
  <2> QED BY <1>2, <2>1, <2>2, LoopMoves, Reassemble DEF ConfigRead, stopVars
<1>3. ASSUME NEW S \in SUBSET Job, ClaimApplied(S)
      PROVE  PoolInv'
  <2>1. loop' = [loop EXCEPT !.at = "answer", !.got = S] /\ loop' \in LoopType
    BY <1>0, <1>3 DEF ClaimApplied, LoopType, LoopPoints
  <2>2. PoolTypeOK' /\ Subscribing'
    BY <1>0, <1>3, <2>1 DEF ClaimApplied, PoolTypeOK, LoopType, listenerVars, stopVars, Subscribing
  <2>3. WithinSlots(loop, inFlight)'
    <3>1. inFlight \in SUBSET Job
      BY <1>0 DEF PoolTypeOK
    <3>2. /\ IsFiniteSet(inFlight) /\ IsFiniteSet(S) /\ Cardinality(S) \in Nat
          /\ Cardinality(inFlight) \in Nat
      BY <3>1, SlotFacts
    <3>3. /\ Cardinality(inFlight \cup S) \in Nat
          /\ Cardinality(inFlight \cup S) = Cardinality(inFlight) + Cardinality(S) - Cardinality(inFlight \cap S)
          /\ Cardinality(inFlight \cap S) \in Nat
      BY <3>2, FS_Union, FS_Intersection, FS_CardinalityType
    <3>4. Cardinality(S) <= loop.limit /\ loop.limit \in Nat /\ loop.limit + Cardinality(inFlight) <= Concurrency
      BY <1>0, <1>3, <3>2 DEF ClaimApplied, PoolInv, WithinSlots, LoopType
    <3>5. Cardinality(inFlight \cup S) <= Concurrency
      BY <3>2, <3>3, <3>4
    <3>6. loop'.at = "answer" /\ loop'.got = S /\ inFlight' = inFlight
      BY <1>0, <1>3 DEF ClaimApplied, LoopType
    <3> QED BY <1>0, <3>5, <3>6 DEF WithinSlots
  <2>4. loop'.at = "answer" /\ loop'.got = S /\ loop.at = "claim"
    BY <1>0, <1>3 DEF ClaimApplied, LoopType
  <2>5. HeldIsKnown' /\ Drained'
    BY <1>0, <1>3, <2>4 DEF ClaimApplied, PoolInv, PoolTypeOK, HeldIsKnown, Drained, stopVars
  <2> QED BY <2>2, <2>3, <2>5 DEF PoolInv
<1>4. CASE ClaimAnswered
  <2>1. /\ inFlight' = inFlight \cup loop.got /\ inFlight' \in SUBSET Job
        /\ Cardinality(inFlight') <= Concurrency
    BY <1>0, <1>4 DEF ClaimAnswered, PoolTypeOK, LoopType, PoolInv, WithinSlots
  <2>2. IsNextWait(loop', inFlight')
    <3>1. /\ loop.queue + 1 \in Nat \ {0} /\ (loop.claimedAny \/ loop.got # {}) \in BOOLEAN
          /\ running \in BOOLEAN
      BY <1>0 DEF LoopType, PoolTypeOK
    <3> QED BY <1>4, <2>1, <3>1, NextQueueFacts DEF ClaimAnswered
  <2>3. PoolTypeOK' /\ Subscribing'
    BY <1>0, <1>4, <2>1, <2>2 DEF ClaimAnswered, PoolTypeOK, IsNextWait, LoopType, listenerVars, stopVars, Subscribing
  <2>4. WithinSlots(loop, inFlight)'
    BY <2>2 DEF IsNextWait, WithinSlots
  <2>5. HeldIsKnown' /\ Drained'
    BY <1>4, <2>1, <2>2 DEF ClaimAnswered, IsNextWait, PoolInv, HeldIsKnown, Drained, stopVars
  <2> QED BY <2>3, <2>4, <2>5 DEF PoolInv
<1>5. CASE LoopFails
  <2>1. IsNextWait(loop', inFlight)
    BY <1>0, <1>5, RestFacts DEF LoopFails, PoolTypeOK, LoopPoints
  <2>2. PoolTypeOK' /\ Subscribing'
    BY <1>0, <1>5, <2>1 DEF LoopFails, PoolTypeOK, IsNextWait, LoopType, listenerVars, stopVars, Subscribing
  <2>3. WithinSlots(loop, inFlight)'
    BY <1>5, <2>1 DEF LoopFails, IsNextWait, WithinSlots
  <2>4. HeldIsKnown' /\ Drained'
    BY <1>5, <2>1 DEF LoopFails, IsNextWait, PoolInv, HeldIsKnown, Drained, stopVars
  <2> QED BY <2>2, <2>3, <2>4 DEF PoolInv
<1>6. CASE BackoffEnds \/ SlotFreed \/ PollFires \/ StaggerFires
  <2>1. ToTop /\ loop.at \in {"backoff", "busy", "idle"}
    BY <1>6 DEF BackoffEnds, SlotFreed, PollFires, StaggerFires
  <2>2. IsNextWait(loop', inFlight)
    BY <1>0, <2>1, TopFacts DEF ToTop, PoolTypeOK
  <2>3. PoolTypeOK' /\ Subscribing'
    BY <1>0, <2>1, <2>2 DEF ToTop, PoolTypeOK, IsNextWait, LoopType, listenerVars, stopVars, Subscribing
  <2> QED BY <2>1, <2>2, <2>3, LoopMoves, Reassemble DEF ToTop, stopVars
<1> QED BY <1>1, <1>2, <1>3, <1>4, <1>5, <1>6 DEF LoopNext, Claims

LEMMA RowsKeep ==
  ASSUME PoolInv, RowNext
  PROVE  PoolInv'
<1> USE ConstantFacts
<1>0. PoolTypeOK /\ Subscribing
  BY DEF PoolInv
<1> SUFFICES ASSUME NEW j \in Job,
                    Enqueue(j) \/ OtherWorker(j) \/ LeaseExpires(j) \/ Settle(j) \/ RunnerThrows(j)
             PROVE  PoolInv'
  BY DEF RowNext
<1>1. CASE Enqueue(j)
  <2>1. PoolTypeOK' /\ Subscribing'
    BY <1>0, <1>1, PoolAssumptions DEF Enqueue, PoolTypeOK, loopVars, stopVars, Subscribing
  <2>2. WithinSlots(loop, inFlight)' /\ HeldIsKnown' /\ Drained'
    BY <1>0, <1>1, RowsEase DEF Enqueue, PoolTypeOK, loopVars, stopVars
  <2> QED BY <2>1, <2>2, Reassemble
<1>2. CASE OtherWorker(j)
  <2>1. PoolTypeOK' /\ Subscribing'
    BY <1>0, <1>2 DEF OtherWorker, PoolTypeOK, loopVars, listenerVars, stopVars, Subscribing
  <2>2. WithinSlots(loop, inFlight)' /\ HeldIsKnown' /\ Drained'
    BY <1>0, <1>2, RowsEase DEF OtherWorker, PoolTypeOK, loopVars, stopVars
  <2> QED BY <2>1, <2>2, Reassemble
<1>3. CASE LeaseExpires(j)
  <2>1. PoolTypeOK' /\ Subscribing'
    BY <1>0, <1>3 DEF LeaseExpires, PoolTypeOK, loopVars, listenerVars, stopVars, Subscribing
  <2>2. WithinSlots(loop, inFlight)' /\ HeldIsKnown' /\ Drained'
    BY <1>0, <1>3, RowsEase DEF LeaseExpires, PoolTypeOK, loopVars, stopVars
  <2> QED BY <2>1, <2>2, Reassemble
<1>4. CASE Settle(j)
  <2>1. PoolTypeOK' /\ Subscribing'
    BY <1>0, <1>4 DEF Settle, PoolTypeOK, loopVars, listenerVars, stopVars, Subscribing
  <2>2. WithinSlots(loop, inFlight)' /\ HeldIsKnown' /\ Drained'
    BY <1>0, <1>4, RowsEase DEF Settle, PoolTypeOK, loopVars, stopVars
  <2> QED BY <2>1, <2>2, Reassemble
<1>5. CASE RunnerThrows(j)
  <2>1. PoolTypeOK' /\ Subscribing'
    BY <1>0, <1>5 DEF RunnerThrows, PoolTypeOK, loopVars, listenerVars, stopVars, Subscribing
  <2>2. WithinSlots(loop, inFlight)' /\ HeldIsKnown' /\ Drained'
    BY <1>0, <1>5, RowsEase DEF RunnerThrows, PoolTypeOK, loopVars, stopVars
  <2> QED BY <2>1, <2>2, Reassemble
<1> QED BY <1>1, <1>2, <1>3, <1>4, <1>5

LEMMA ListenerKeeps ==
  ASSUME PoolInv, ListenerNext
  PROVE  PoolInv'
<1> USE ConstantFacts
<1>0. PoolTypeOK /\ Subscribing
  BY DEF PoolInv
<1>1. \E at \in ListenerPoints, n \in 0..Len(Queues) :
        ListenerStep(at, n) /\ (at = "subscribing" => n < Len(Queues))
  <2>1. CASE Connected
    BY <2>1, PoolAssumptions DEF Connected, ListenerPoints
  <2>2. CASE Listen
    BY <1>0, <2>2 DEF Listen, ListenerPoints, Subscribing, PoolTypeOK
  <2>3. CASE Reconnect \/ SessionEnds
    BY <2>3 DEF Reconnect, SessionEnds, ListenerPoints
  <2>4. CASE \E clean \in BOOLEAN : ConnectionLost(clean)
    BY <2>4 DEF ConnectionLost, ListenerPoints
  <2> QED BY <2>1, <2>2, <2>3, <2>4 DEF ListenerNext
<1>2. notes' \in SUBSET notes /\ faults' \in 0..MaxFaults
  BY <1>0 DEF ListenerNext, Connected, Listen, Reconnect, SessionEnds, ConnectionLost, PoolTypeOK
<1>3. PoolTypeOK' /\ Subscribing'
  BY <1>0, <1>1, <1>2 DEF ListenerStep, PoolTypeOK, loopVars, stopVars, Subscribing
<1> QED BY <1>1, <1>3, QuietKeeps, Reassemble DEF ListenerStep, RowsOf, loopVars, stopVars

LEMMA StopKeeps ==
  ASSUME PoolInv, Stop \/ StopNext
  PROVE  PoolInv'
<1> USE ConstantFacts
<1>0. PoolTypeOK /\ Subscribing
  BY DEF PoolInv
<1>1. CASE Stop
  <2>1. PoolTypeOK' /\ Subscribing'
    BY <1>0, <1>1 DEF Stop, Woken, PoolTypeOK, listenerVars, Subscribing, StopPoints
  <2>2. WithinSlots(loop, inFlight)' /\ HeldIsKnown' /\ Drained'
    BY <1>1 DEF Stop, PoolInv, WithinSlots, HeldIsKnown, Drained
  <2> QED BY <2>1, <2>2, Reassemble
<1>2. ASSUME NEW p \in {"grace", "release", "listener"}, NEW todo \in SUBSET inFlight, StopAt(p, todo)
      PROVE  /\ PoolTypeOK' /\ Subscribing' /\ WithinSlots(loop, inFlight)' /\ HeldIsKnown'
             /\ UNCHANGED <<row, left, loop, inFlight, running>> /\ stopping' = p /\ pending' = todo
  <2>1. PoolTypeOK' /\ Subscribing'
    BY <1>0, <1>2 DEF StopAt, PoolTypeOK, loopVars, Subscribing, StopPoints
  <2> QED BY <1>2, <2>1 DEF StopAt, PoolInv, WithinSlots, HeldIsKnown, loopVars
<1>3. CASE LoopAwaited \/ AllSettled \/ GraceElapses \/ Released
  <2>1. PICK p \in {"grace", "release", "listener"}, todo \in SUBSET inFlight :
          /\ StopAt(p, todo)
          /\ stopping # "none" /\ loop.at = "ended"
          /\ p = "release" => todo = inFlight
          /\ p = "listener" => inFlight = {} \/ (stopping = "release" /\ pending \cap inFlight = {})
    BY <1>3 DEF LoopAwaited, AllSettled, GraceElapses, Released, PoolInv, Drained
  <2>2. Drained'
    BY <1>2, <2>1 DEF PoolInv, HeldIsKnown, Drained
  <2> QED BY <1>2, <2>1, <2>2, Reassemble
<1>4. ASSUME NEW j \in Job, Release(j)
      PROVE  PoolInv'
  <2>1. PoolTypeOK' /\ Subscribing'
    BY <1>0, <1>4 DEF Release, PoolTypeOK, loopVars, listenerVars, Subscribing
  <2>2. WithinSlots(loop, inFlight)' /\ HeldIsKnown' /\ Drained'
    BY <1>0, <1>4, RowsEase DEF Release, PoolTypeOK, loopVars
  <2> QED BY <2>1, <2>2, Reassemble
<1>5. CASE Stopped
  <2>1. PoolTypeOK' /\ Subscribing'
    BY <1>0, <1>5 DEF Stopped, PoolTypeOK, loopVars, listenerVars, Subscribing, StopPoints
  <2>2. WithinSlots(loop, inFlight)' /\ HeldIsKnown' /\ Drained'
    BY <1>5 DEF Stopped, PoolInv, WithinSlots, HeldIsKnown, Drained, loopVars
  <2> QED BY <2>1, <2>2, Reassemble
<1> QED BY <1>1, <1>3, <1>4, <1>5 DEF StopNext

LEMMA StepKeeps ==
  ASSUME PoolInv, [PoolNext]_poolVars
  PROVE  PoolInv'
<1>0. PoolTypeOK /\ Subscribing
  BY DEF PoolInv
<1>1. ASSUME NEW i \in 1..Len(Queues), ConfigExpires(Queues[i]) \/ Notified(Queues[i])
      PROVE  PoolInv'
  <2>1. PoolTypeOK' /\ Subscribing'
    BY <1>0, <1>1 DEF ConfigExpires, Notified, Woken, PoolTypeOK, listenerVars, stopVars, Subscribing
  <2>2. UNCHANGED RowsOf
    BY <1>1 DEF ConfigExpires, Notified, RowsOf, stopVars
  <2> QED BY <2>1, <2>2, QuietKeeps, Reassemble
<1>2. CASE UNCHANGED poolVars
  BY <1>2 DEF poolVars, PoolInv, PoolTypeOK, Subscribing, WithinSlots, HeldIsKnown, Drained
<1> QED BY <1>1, <1>2, LoopKeeps, RowsKeep, ListenerKeeps, StopKeeps DEF PoolNext

LEMMA InvHolds == PoolSpec => []PoolInv
  BY InitHolds, StepKeeps, PTL DEF PoolSpec

-----------------------------------------------------------------------------
(* Theorems.                                                               *)

\* The fields of the pool and the listener have their types; in particular the
\* limit of a claim is never negative.
THEOREM PoolTypeCorrect == PoolSpec => []PoolTypeOK
<1>1. PoolInv => PoolTypeOK
  BY DEF PoolInv
<1> QED BY <1>1, InvHolds, PTL

\* However claims, handlers and stop() are interleaved, the pool has no more jobs in
\* flight or on their way from a claim than it has slots.
THEOREM SlotsSuffice == PoolSpec => []PoolWithinConcurrency
<1>1. PoolInv => PoolWithinConcurrency
  <2> SUFFICES ASSUME PoolInv PROVE PoolWithinConcurrency
    OBVIOUS
  <2>1. CASE loop.at = "answer"
    BY <2>1 DEF PoolInv, WithinSlots, PoolWithinConcurrency
  <2>2. CASE loop.at # "answer"
    <3>1. inFlight \cup {} = inFlight
      OBVIOUS
    <3> QED BY <2>2, <3>1 DEF PoolInv, WithinSlots, PoolWithinConcurrency
  <2> QED BY <2>1, <2>2
<1> QED BY <1>1, InvHolds, PTL

\* When stop() has returned, no row is held that is not left to its lease because a
\* statement about it failed.
THEOREM DrainStrandsNothing == PoolSpec => []NothingStranded
<1>1. PoolInv => NothingStranded
  BY DEF PoolInv, Drained, NothingStranded
<1> QED BY <1>1, InvHolds, PTL

=============================================================================
