--------------------------- MODULE RetentionProofs --------------------------
(***************************************************************************)
(* Proofs about Retention for all jobs, windows, clocks and batch sizes.   *)
(***************************************************************************)
EXTENDS Retention, FiniteSetTheorems, TLAPS

-----------------------------------------------------------------------------
(* The inductive invariants.                                               *)

OneRowEach == \A a, b \in archive : a.job = b.job => a = b

RemovedIsArchived ==
  Archive => \A j \in Job : (job[j].state = "removed") <=> (\E a \in archive : a.job = j)

RetentionInv == RetentionTypeOK /\ OneRowEach /\ RemovedIsArchived

\* What the pass of i has created by now, and how long it has lasted.
Prepared(i) ==
  Archive =>
    /\ pass[i].at \in {"next", "prune"} => Month(pass[i].begun + Skew[i]) \in partitions
    /\ pass[i].at = "prune" => Month(pass[i].begun + Skew[i]) + 1 \in partitions
OnTime(i) == Busy(i) => pass[i].begun <= now /\ now <= pass[i].begun + PassMax

PartitionInv == RetentionTypeOK /\ \A i \in Instance : Prepared(i) /\ OnTime(i)

-----------------------------------------------------------------------------
(* Facts about the parts.                                                  *)

LEMMA MonthType ==
  ASSUME NEW t \in Int
  PROVE  Month(t) \in Int
  BY RetentionAssumptions DEF Month

LEMMA VictimFacts ==
  ASSUME NEW j \in Victims
  PROVE  j \in Job /\ job[j].state \in Finished
  BY DEF Victims

LEMMA CopyFacts ==
  ASSUME NEW S, S \subseteq Victims
  PROVE  Copies(S) \subseteq Archived
<1> SUFFICES ASSUME NEW j \in S
             PROVE  [job |-> j, state |-> job[j].state] \in Archived
  BY DEF Copies
<1> QED BY VictimFacts DEF Archived

\* What pruneOnce needs to preserve the invariant: that its rows are victims.
LEMMA PruneKeeps ==
  ASSUME RetentionInv, NEW S, S \subseteq Victims, pruneOnce(S)
  PROVE  /\ job' \in [Job -> Row]
         /\ archive' \in SUBSET Archived
         /\ OneRowEach' /\ RemovedIsArchived'
<1> USE DEF RetentionInv
<1>1. job' = Removed(S)
  BY DEF pruneOnce, pruneTerminalJobs, archiveTerminalJobs
<1>2. NoRow \in Row
  BY DEF NoRow, Row
<1>3. job' \in [Job -> Row]
  BY <1>1, <1>2 DEF Removed, RetentionTypeOK
<1>4. \A j \in Job : job'[j].state = "removed" <=> (j \in S \/ job[j].state = "removed")
  BY <1>1 DEF Removed, NoRow
<1>5. \A j \in S : j \in Job /\ job[j].state # "removed"
  BY VictimFacts DEF Finished
<1>6. CASE ~Archive
  BY <1>3, <1>6 DEF pruneOnce, pruneTerminalJobs, RetentionTypeOK, OneRowEach, RemovedIsArchived
<1>7. CASE Archive
  <2>1. archive' = archive \cup Copies(S)
    BY <1>7 DEF pruneOnce, archiveTerminalJobs
  <2>2. archive' \in SUBSET Archived
    BY <2>1, CopyFacts DEF RetentionTypeOK
  <2>3. \A a \in Copies(S) : /\ a.job \in S
                             /\ a = [job |-> a.job, state |-> job[a.job].state]
    BY DEF Copies
  <2>4. \A a \in archive, c \in Copies(S) : a.job # c.job
    BY <2>3, <1>5, <1>7 DEF RemovedIsArchived
  <2>5. \A a, b \in Copies(S) : a.job = b.job => a = b
    BY <2>3
  <2>6. OneRowEach'
    BY <2>1, <2>4, <2>5 DEF OneRowEach
  <2>7. \A j \in S : \E a \in Copies(S) : a.job = j
    <3> SUFFICES ASSUME NEW j \in S PROVE \E a \in Copies(S) : a.job = j
      OBVIOUS
    <3> DEFINE c == [job |-> j, state |-> job[j].state]
    <3>1. c \in Copies(S)
      BY DEF Copies
    <3>2. c.job = j
      OBVIOUS
    <3> QED BY <3>1, <3>2
  <2>8. RemovedIsArchived'
    BY <1>4, <1>7, <2>1, <2>3, <2>7 DEF RemovedIsArchived
  <2> QED BY <1>3, <2>2, <2>6, <2>8
<1> QED BY <1>6, <1>7

\* The steps that move a row between live and finished.
LEMMA RowMoves ==
  ASSUME RetentionInv, NEW j \in Job, NEW r \in Row, job[j].state # "removed", r.state # "removed",
         job' = [job EXCEPT ![j] = r], UNCHANGED archive
  PROVE  /\ job' \in [Job -> Row]
         /\ OneRowEach' /\ RemovedIsArchived'
<1>1. job' \in [Job -> Row]
  BY DEF RetentionInv, RetentionTypeOK
<1>2. \A k \in Job : (job'[k].state = "removed") <=> (job[k].state = "removed")
  BY DEF RetentionInv, RetentionTypeOK
<1>3. OneRowEach' /\ RemovedIsArchived'
  BY <1>2 DEF RetentionInv, OneRowEach, RemovedIsArchived
<1> QED BY <1>1, <1>3

LEMMA QuietKeeps ==
  ASSUME RetentionInv, UNCHANGED <<job, archive>>
  PROVE  /\ job' \in [Job -> Row] /\ archive' \in SUBSET Archived
         /\ OneRowEach' /\ RemovedIsArchived'
  BY DEF RetentionInv, RetentionTypeOK, OneRowEach, RemovedIsArchived

LEMMA GotoKeeps ==
  ASSUME RetentionTypeOK, NEW i \in Instance, NEW at \in Awaits, Goto(i, at)
  PROVE  pass' \in [Instance -> Pass]
  BY DEF RetentionTypeOK, Goto, Pass

LEMMA PartitionKeeps ==
  ASSUME RetentionTypeOK, NEW i \in Instance, NEW offset \in {0, 1}, createArchivePartition(i, offset)
  PROVE  partitions' \in SUBSET Int
<1>1. pass[i].begun \in Nat /\ Skew[i] \in Int
  BY RetentionAssumptions DEF RetentionTypeOK, Pass
<1>2. pass[i].begun + Skew[i] \in Int
  BY <1>1
<1>3. Month(pass[i].begun + Skew[i]) \in Int
  BY <1>2, MonthType
<1>4. Month(pass[i].begun + Skew[i]) + offset \in Int
  BY <1>3
<1> HIDE DEF Month
<1> QED BY <1>4 DEF RetentionTypeOK, createArchivePartition

-----------------------------------------------------------------------------
(* The steps.                                                              *)

LEMMA InitHolds == RetentionInit => RetentionInv
  BY DEF RetentionInit, RetentionInv, RetentionTypeOK, OneRowEach, RemovedIsArchived,
         Row, Pass, Awaits, Finished

LEMMA StepKeeps ==
  ASSUME RetentionInv, RetentionNext
  PROVE  RetentionInv'
<1>0. RetentionTypeOK
  BY DEF RetentionInv
<1>1. ASSUME NEW i \in Instance, Begin(i)
      PROVE  RetentionInv'
  <2>1. pass' \in [Instance -> Pass]
    BY <1>0, <1>1 DEF RetentionTypeOK, Begin, Pass, Awaits
  <2> QED BY <1>0, <1>1, <2>1, QuietKeeps DEF Begin, RetentionInv, RetentionTypeOK
<1>2. ASSUME NEW i \in Instance, ensurePartitions(i)
      PROVE  RetentionInv'
  <2>1. partitions' \in SUBSET Int
    BY <1>0, <1>2, PartitionKeeps DEF ensurePartitions
  <2>2. pass' \in [Instance -> Pass]
    BY <1>0, <1>2, GotoKeeps DEF ensurePartitions, Awaits
  <2> QED BY <1>0, <1>2, <2>1, <2>2, QuietKeeps DEF ensurePartitions, RetentionInv, RetentionTypeOK
<1>3. ASSUME NEW i \in Instance, NEW S \in SUBSET Job, Prune(i, S)
      PROVE  RetentionInv'
  <2>1. S \subseteq Victims /\ pruneOnce(S)
    BY <1>3 DEF Prune, Batch
  <2>2. pass' \in [Instance -> Pass]
    BY <1>0, <1>3, GotoKeeps DEF Prune, Awaits
  <2>3. UNCHANGED <<partitions, now>>
    BY <1>3 DEF Prune
  <2> QED BY <1>0, <2>1, <2>2, <2>3, PruneKeeps DEF RetentionInv, RetentionTypeOK
<1>4. ASSUME NEW i \in Instance, reportHealth(i)
      PROVE  RetentionInv'
  <2>1. pass' \in [Instance -> Pass]
    BY <1>0, <1>4, GotoKeeps DEF reportHealth, Awaits
  <2> QED BY <1>0, <1>4, <2>1, QuietKeeps DEF reportHealth, RetentionInv, RetentionTypeOK
<1>5. ASSUME NEW i \in Instance, Fail(i)
      PROVE  RetentionInv'
  <2>1. pass' \in [Instance -> Pass]
    BY <1>0, <1>5, GotoKeeps DEF Fail, Awaits
  <2>2. UNCHANGED <<partitions, now>>
    BY <1>5 DEF Fail
  <2>3. CASE UNCHANGED <<job, archive>>
    BY <1>0, <2>1, <2>2, <2>3, QuietKeeps DEF RetentionInv, RetentionTypeOK
  <2>4. CASE \E S \in SUBSET Victims : Batch(S, {}) /\ pruneOnce(S)
    <3>1. PICK S \in SUBSET Victims : pruneOnce(S)
      BY <2>4
    <3> QED BY <1>0, <2>1, <2>2, <3>1, PruneKeeps DEF RetentionInv, RetentionTypeOK
  <2> QED BY <1>5, <2>3, <2>4 DEF Fail
<1>6. ASSUME NEW i \in Instance, Stop(i)
      PROVE  RetentionInv'
  <2>1. pass' \in [Instance -> Pass]
    BY <1>0, <1>6 DEF RetentionTypeOK, Stop, Pass
  <2> QED BY <1>0, <1>6, <2>1, QuietKeeps DEF Stop, RetentionInv, RetentionTypeOK
<1>7. ASSUME NEW j \in Job, NEW state \in Finished, Finish(j, state)
      PROVE  RetentionInv'
  <2>1. [state |-> state, finished_at |-> now] \in Row
    BY <1>0 DEF RetentionTypeOK, Row
  <2>2. job[j].state # "removed" /\ state # "removed"
    BY <1>7 DEF Finish, Finished
  <2> QED BY <1>0, <1>7, <2>1, <2>2, RowMoves DEF Finish, RetentionInv, RetentionTypeOK
<1>8. ASSUME NEW j \in Job, replayDeadJob(j)
      PROVE  RetentionInv'
  <2>1. [state |-> "live", finished_at |-> 0] \in Row
    BY DEF Row
  <2> QED BY <1>0, <1>8, <2>1, RowMoves DEF replayDeadJob, RetentionInv, RetentionTypeOK
<1>9. CASE Elapse
  BY <1>0, <1>9, QuietKeeps DEF Elapse, RetentionInv, RetentionTypeOK
<1> QED BY <1>1, <1>2, <1>3, <1>4, <1>5, <1>6, <1>7, <1>8, <1>9 DEF RetentionNext, LoopStep

LEMMA InvHolds == RetentionSpec => []RetentionInv
<1>1. RetentionInv /\ UNCHANGED retentionVars => RetentionInv'
  BY DEF RetentionInv, retentionVars, RetentionTypeOK, OneRowEach, RemovedIsArchived
<1> QED BY <1>1, InitHolds, StepKeeps, PTL DEF RetentionSpec

\* Two moments less than a month apart are in the same month or in adjacent ones.
LEMMA AdjacentMonths ==
  ASSUME NEW s \in Int, NEW t \in Int, s <= t, t - s <= MonthLength
  PROVE  Month(t) = Month(s) \/ Month(t) = Month(s) + 1
  BY RetentionAssumptions DEF Month

-----------------------------------------------------------------------------
(* Theorems.                                                               *)

\* Rows, archive rows and passes have the types of their columns and fields; in
\* particular only finished jobs are archived.
THEOREM RetentionTypeCorrect == RetentionSpec => []RetentionTypeOK
<1>1. RetentionInv => RetentionTypeOK
  BY DEF RetentionInv
<1> QED BY <1>1, InvHolds, PTL

\* However many instances archive, and whichever responses are lost, a removed job
\* has exactly one row in the archive and a job in the table has none
\* (archiveTerminalJobs is one statement).
THEOREM HistoryIsKept == RetentionSpec => []ArchivedExactlyOnce
<1>1. ASSUME RetentionInv, NEW j \in Job
      PROVE  Cardinality({a \in archive : a.job = j}) <= 1
  <2> DEFINE A == {a \in archive : a.job = j}
  <2>1. \A a, b \in A : a = b
    BY <1>1 DEF RetentionInv, OneRowEach
  <2>2. CASE A = {}
    BY <2>2, FS_EmptySet
  <2>3. CASE A # {}
    <3>1. PICK a \in A : TRUE
      BY <2>3
    <3>2. A = {a}
      BY <2>1, <3>1
    <3> QED BY <3>2, FS_Singleton
  <2> QED BY <2>2, <2>3
<1>2. RetentionInv => ArchivedExactlyOnce
  BY <1>1 DEF RetentionInv, RemovedIsArchived, ArchivedExactlyOnce
<1> QED BY <1>2, InvHolds, PTL

\* No archival statement fails for want of a partition when its month ends under the
\* pass, if a pass that begins on a clock that lags ends within a month of that clock.
THEOREM PartitionsInTime ==
  (\A i \in Instance : Skew[i] <= 0 => PassMax - Skew[i] <= MonthLength) =>
    (RetentionSpec => []PartitionAtHand)
<1> SUFFICES ASSUME \A i \in Instance : Skew[i] <= 0 => PassMax - Skew[i] <= MonthLength
             PROVE  RetentionSpec => []PartitionAtHand
  OBVIOUS
<1>1. RetentionInit => PartitionInv
  BY InitHolds DEF RetentionInit, RetentionInv, PartitionInv, Prepared, OnTime, Busy
<1>2. RetentionTypeOK /\ RetentionTypeOK' /\ PartitionInv /\ [RetentionNext]_retentionVars => PartitionInv'
  <2> SUFFICES ASSUME RetentionTypeOK, RetentionTypeOK', PartitionInv, [RetentionNext]_retentionVars,
                      NEW i \in Instance
               PROVE  Prepared(i)' /\ OnTime(i)'
    BY DEF PartitionInv
  <2>0. /\ pass[i] \in Pass /\ pass'[i] \in Pass /\ now \in Nat /\ PassMax \in Nat
        /\ Prepared(i) /\ OnTime(i)
    BY RetentionAssumptions DEF RetentionTypeOK, PartitionInv
  <2>1. CASE /\ partitions \subseteq partitions' /\ now' = now
             /\ pass'[i].at = pass[i].at /\ pass'[i].begun = pass[i].begun
    BY <2>0, <2>1 DEF Prepared, OnTime, Busy
  <2>2. CASE now' = now /\ ~Busy(i)'
    BY <2>2 DEF Prepared, OnTime, Busy
  <2>3. CASE Begin(i)
    BY <2>0, <2>3 DEF Begin, RetentionTypeOK, Prepared, OnTime, Busy, Pass
  <2>4. CASE ensurePartitions(i)
    <3> DEFINE month == Month(pass[i].begun + Skew[i])
    <3>1. /\ pass'[i].at \in {"next", "prune", "health"} /\ now' = now
          /\ partitions \subseteq partitions'
      BY <2>4 DEF ensurePartitions, createArchivePartition, Goto, RetentionTypeOK
    <3>2. CASE pass'[i].at = "health"
      BY <2>2, <3>1, <3>2 DEF Busy
    <3>3. CASE pass'[i].at \in {"next", "prune"}
      <4>1. pass'[i].begun = pass[i].begun /\ Busy(i)
        BY <2>4, <3>3 DEF ensurePartitions, Goto, RetentionTypeOK, Busy
      <4>2. OnTime(i)'
        BY <2>0, <3>1, <4>1 DEF OnTime
      <4>3. CASE pass[i].at = "current"
        <5>1. month + 0 \in partitions' /\ pass'[i].at = "next"
          BY <2>4, <4>3 DEF ensurePartitions, createArchivePartition, Goto, RetentionTypeOK
        <5>2. month \in Int
          BY RetentionAssumptions, MonthType, <2>0 DEF Pass
        <5> HIDE DEF month
        <5>3. month \in partitions'
          BY <5>1, <5>2
        <5> QED BY <4>1, <4>2, <5>1, <5>3 DEF Prepared, month
      <4>4. CASE pass[i].at = "next"
        <5>1. Archive => month \in partitions /\ month + 1 \in partitions'
          BY <2>0, <2>4, <4>4 DEF Prepared, ensurePartitions, createArchivePartition
        <5> QED BY <3>1, <4>1, <4>2, <5>1 DEF Prepared
      <4> QED BY <2>4, <4>3, <4>4 DEF ensurePartitions
    <3> QED BY <3>1, <3>2, <3>3
  <2>5. CASE Elapse
    BY <2>0, <2>5 DEF Elapse, Prepared, OnTime, Busy, Pass
  <2>6. ASSUME NEW k \in Instance, k # i, LoopStep(k) \/ Stop(k)
        PROVE  Prepared(i)' /\ OnTime(i)'
    <3>1. now' = now /\ partitions \subseteq partitions' /\ pass'[i] = pass[i]
      BY <2>6 DEF LoopStep, Begin, ensurePartitions, createArchivePartition, Goto, Prune, reportHealth,
                  Fail, Stop, RetentionTypeOK
    <3> QED BY <2>1, <3>1
  <2>7. CASE Stop(i)
    <3>1. pass'[i].at = pass[i].at /\ pass'[i].begun = pass[i].begun
      BY <2>0, <2>7 DEF Stop, RetentionTypeOK, Pass
    <3> QED BY <2>1, <2>7, <3>1 DEF Stop
  <2>8. CASE reportHealth(i) \/ Fail(i)
    BY <2>2, <2>8 DEF reportHealth, Fail, Goto, RetentionTypeOK, Busy
  <2>9. ASSUME NEW S \in SUBSET Job, Prune(i, S)
        PROVE  Prepared(i)' /\ OnTime(i)'
    <3>1. CASE pass'[i].at = "prune"
      BY <2>1, <2>9, <3>1 DEF Prune, Goto, RetentionTypeOK
    <3>2. CASE pass'[i].at = "health"
      BY <2>2, <2>9, <3>2 DEF Prune, Busy
    <3> QED BY <2>9, <3>1, <3>2 DEF Prune, Goto, RetentionTypeOK
  <2>10. CASE \/ \E j \in Job, state \in Finished : Finish(j, state)
              \/ \E j \in Job : replayDeadJob(j)
              \/ UNCHANGED retentionVars
    BY <2>1, <2>10 DEF Finish, replayDeadJob, retentionVars
  <2> QED BY <2>3, <2>4, <2>5, <2>6, <2>7, <2>8, <2>9, <2>10 DEF RetentionNext, LoopStep
<1>3. PartitionInv => PartitionAtHand
  <2> SUFFICES ASSUME PartitionInv, NEW i \in Instance, pass[i].at = "prune", Archive, Skew[i] <= 0
               PROVE  Month(now) \in partitions
    BY DEF PartitionAtHand
  <2> DEFINE start == pass[i].begun + Skew[i]
  <2>1. /\ pass[i].begun \in Nat /\ Skew[i] \in Int /\ now \in Nat /\ PassMax \in Nat
        /\ MonthLength \in Nat
    BY RetentionAssumptions DEF PartitionInv, RetentionTypeOK, Pass
  <2>2. pass[i].begun <= now /\ now <= pass[i].begun + PassMax
    BY DEF PartitionInv, OnTime, Busy
  <2>3. start \in Int /\ start <= now /\ now - start <= MonthLength
    BY <2>1, <2>2
  <2>4. Month(start) \in partitions /\ Month(start) + 1 \in partitions
    BY DEF PartitionInv, Prepared
  <2> HIDE DEF start
  <2>5. Month(now) = Month(start) \/ Month(now) = Month(start) + 1
    BY <2>1, <2>3, AdjacentMonths
  <2> QED BY <2>4, <2>5
<1>4. RetentionSpec => []RetentionTypeOK
  BY RetentionTypeCorrect
<1> QED BY <1>1, <1>2, <1>3, <1>4, PTL DEF RetentionSpec

=============================================================================
