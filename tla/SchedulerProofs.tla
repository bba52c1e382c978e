--------------------------- MODULE SchedulerProofs --------------------------
(***************************************************************************)
(* Proofs about Scheduler for all schedules, instances, cron expressions   *)
(* and clocks that lag by at most an hour.                                 *)
(***************************************************************************)
EXTENDS Scheduler, TLAPS

-----------------------------------------------------------------------------
(* The inductive invariant.                                                *)

\* A value that next_run_at may have: an occurrence, or the made-up time of a
\* deferral, an hour before which the expression had run out already.
Planned(s, t) == t \in Occurrences[s] \/ NoneAfter(s, t - Hour)

\* The tick of i still has to process o.
InHand(i, o) == o \in tick[i].due \/ (tick[i].at # "loop" /\ tick[i].row = o)

RowsPlanned ==
  \A s \in Schedule :
    IF schedule[s].state = "live"
    THEN schedule[s].next_run_at >= 1 /\ Planned(s, schedule[s].next_run_at)
    ELSE schedule[s].next_run_at = 0

TickPlanned(i) ==
  /\ \A o \in Occurrence : InHand(i, o) => o[2] <= now /\ Planned(o[1], o[2])
  /\ tick[i].at # "loop" => /\ tick[i].row \in Occurrence
                            /\ tick[i].nextRunAt >= 1
                            /\ Planned(tick[i].row[1], tick[i].nextRunAt)
  /\ tick[i].at = "insert" => tick[i].row[2] \in Occurrences[tick[i].row[1]]

TicksPlanned == \A i \in Instance : TickPlanned(i)

\* An occurrence whose job row is gone can never be claimed again: its schedule has
\* moved on, and no write that is under way moves it back.
Past(o) ==
  /\ now > o[2] + Hour
  /\ \/ schedule[o[1]].state = "deleted"
     \/ schedule[o[1]].state = "live" /\ schedule[o[1]].next_run_at > o[2]
  /\ \A i \in Instance :
       /\ ~InHand(i, o)
       /\ tick[i].at # "loop" /\ tick[i].row[1] = o[1] => tick[i].nextRunAt > o[2]

KeysKept ==
  \A o \in Occurrence : /\ fired[o] <= 1
                        /\ o \in stored => fired[o] = 1
                        /\ fired[o] = 1 /\ o \notin stored => Past(o)

SchedulerInv == /\ SchedulerTypeOK /\ RowsPlanned /\ TicksPlanned
                /\ FiresOnlyOccurrences /\ KeysKept

Ticks == [due : SUBSET Occurrence, at : {"loop", "insert", "advance"},
          row : Occurrence \cup {<<>>}, nextRunAt : Nat]

-----------------------------------------------------------------------------
(* Facts about the parts.                                                  *)

LEMMA OccurrenceFacts ==
  ASSUME NEW o \in Occurrence
  PROVE  /\ o[1] \in Schedule /\ o[2] \in 1..MaxTime /\ o[2] \in Nat /\ o = <<o[1], o[2]>>
         /\ Occurrences[o[1]] \subseteq Nat \ {0}
  BY SchedulerAssumptions DEF Occurrence

LEMMA InitHolds == SchedulerInit => SchedulerInv
<1> SUFFICES ASSUME SchedulerInit PROVE SchedulerInv
  OBVIOUS
<1>1. SchedulerTypeOK
  BY SchedulerAssumptions DEF SchedulerInit, SchedulerTypeOK, NoSchedule, Idle
<1>2. RowsPlanned
  BY DEF SchedulerInit, RowsPlanned, NoSchedule
<1>3. TicksPlanned
  BY DEF SchedulerInit, TicksPlanned, TickPlanned, InHand, Idle
<1>4. FiresOnlyOccurrences /\ KeysKept
  BY DEF SchedulerInit, FiresOnlyOccurrences, KeysKept
<1> QED BY <1>1, <1>2, <1>3, <1>4 DEF SchedulerInv

\* The clock of an instance: a whole number at most an hour behind.
LEMMA ClockFacts ==
  ASSUME SchedulerTypeOK, NEW i \in Instance
  PROVE  now + Skew[i] \in Int /\ now + Skew[i] >= now - Hour /\ now \in Nat /\ Hour \in Nat /\ MaxTime \in Nat
  BY SchedulerAssumptions DEF SchedulerTypeOK

\* A tick that breaks off has nothing in hand.
LEMMA IdleFacts ==
  ASSUME NEW i \in Instance, SchedulerTypeOK, BreakOff(i)
  PROVE  /\ tick'[i] = Idle /\ Idle \in Ticks
         /\ \A k \in Instance : k # i => tick'[k] = tick[k]
         /\ tick' \in [Instance -> Ticks]
<1>1. Idle \in Ticks
  BY DEF Idle, Ticks
<1> QED BY <1>1 DEF BreakOff, SchedulerTypeOK, Ticks

-----------------------------------------------------------------------------
(* Each action keeps the invariant.                                        *)

\* Steps that only touch the tick of one instance, and what it has in hand.
LEMMA TickStep ==
  ASSUME SchedulerInv, NEW i \in Instance, NEW t \in Ticks,
         tick' = [tick EXCEPT ![i] = t], UNCHANGED <<now, schedule, stored, fired>>,
         TickPlanned(i)',
         \A o \in Occurrence : Past(o) => /\ ~InHand(i, o)'
                                          /\ t.at # "loop" /\ t.row[1] = o[1] => t.nextRunAt > o[2]
  PROVE  SchedulerInv'
<1>0. /\ tick'[i] = t /\ tick' \in [Instance -> Ticks]
      /\ \A k \in Instance : k # i => tick'[k] = tick[k]
  BY DEF SchedulerInv, SchedulerTypeOK, Ticks
<1>1. SchedulerTypeOK'
  BY <1>0 DEF SchedulerInv, SchedulerTypeOK, Ticks
<1>2. RowsPlanned'
  BY DEF SchedulerInv, RowsPlanned, Planned, NoneAfter
<1>3. TicksPlanned'
  <2>1. ASSUME NEW k \in Instance, k # i PROVE TickPlanned(k)'
    BY <1>0, <2>1 DEF SchedulerInv, TicksPlanned, TickPlanned, InHand, Planned, NoneAfter
  <2> QED BY <2>1 DEF TicksPlanned
<1>4. FiresOnlyOccurrences'
  BY DEF SchedulerInv, FiresOnlyOccurrences
<1>5. ASSUME NEW o \in Occurrence, Past(o) PROVE Past(o)'
  BY <1>0, <1>5 DEF Past, InHand
<1>6. KeysKept'
  BY <1>5 DEF SchedulerInv, KeysKept
<1> QED BY <1>1, <1>2, <1>3, <1>4, <1>6 DEF SchedulerInv

LEMMA ClaimKeeps ==
  ASSUME SchedulerInv, NEW i \in Instance, NEW S \in SUBSET Schedule, NEW locked,
         claimDueSchedules(i, S, locked)
  PROVE  SchedulerInv'
<1> DEFINE due == {<<s, schedule[s].next_run_at>> : s \in S}
           t == [tick[i] EXCEPT !.due = due]
<1>0. SchedulerTypeOK /\ RowsPlanned /\ now \in Nat /\ MaxTime \in Nat /\ now <= MaxTime
  BY SchedulerAssumptions DEF SchedulerInv, SchedulerTypeOK
<1>1. ASSUME NEW s \in S
      PROVE  /\ schedule[s].state = "live" /\ schedule[s].next_run_at <= now
             /\ schedule[s].next_run_at \in 1..MaxTime /\ Planned(s, schedule[s].next_run_at)
  <2>1. schedule[s].state = "live" /\ schedule[s].next_run_at <= now
    BY DEF claimDueSchedules, Due
  <2>2. schedule[s].next_run_at \in Nat
    BY <1>0 DEF SchedulerTypeOK
  <2> QED BY <1>0, <2>1, <2>2 DEF RowsPlanned
<1>2. due \in SUBSET Occurrence
  BY <1>1 DEF Occurrence
<1>3. tick[i] = Idle /\ tick[i] \in Ticks
  BY <1>0 DEF claimDueSchedules, SchedulerTypeOK, Ticks
<1>4. t \in Ticks /\ t.due = due /\ t.at = "loop"
  <2> HIDE DEF due
  <2> QED BY <1>2, <1>3 DEF Ticks, Idle
<1>5. tick' = [tick EXCEPT ![i] = t] /\ UNCHANGED <<now, schedule, stored, fired>>
  BY DEF claimDueSchedules
<1>6. tick'[i] = t
  BY <1>0, <1>5 DEF SchedulerTypeOK
<1>7. TickPlanned(i)'
  <2>1. ASSUME NEW o \in due PROVE o[2] <= now /\ Planned(o[1], o[2])
    BY <1>1
  <2> HIDE DEF t, due
  <2> QED BY <1>4, <1>5, <1>6, <2>1 DEF TickPlanned, InHand, Planned, NoneAfter
<1>8. ASSUME NEW o \in Occurrence, Past(o) PROVE ~InHand(i, o)'
  <2>1. o \notin due
    BY <1>0, <1>1, <1>8, OccurrenceFacts DEF Past, SchedulerTypeOK
  <2> HIDE DEF t, due
  <2> QED BY <1>4, <1>6, <2>1 DEF InHand
<1> HIDE DEF t
<1> QED BY <1>4, <1>5, <1>7, <1>8, TickStep

LEMMA EvaluateKeeps ==
  ASSUME SchedulerInv, NEW i \in Instance, NEW o \in tick[i].due, Evaluate(i, o)
  PROVE  SchedulerInv'
<1> DEFINE clock == now + Skew[i]
<1>0. /\ SchedulerTypeOK /\ TickPlanned(i) /\ tick[i] \in Ticks /\ o \in Occurrence
      /\ clock \in Int /\ clock >= now - Hour /\ now \in Nat /\ Hour \in Nat
  BY ClockFacts DEF SchedulerInv, TicksPlanned, SchedulerTypeOK, Ticks
<1>1. /\ o[1] \in Schedule /\ o[2] \in Nat /\ o[2] >= 1 /\ Occurrences[o[1]] \subseteq Nat \ {0}
      /\ o[2] <= now /\ Planned(o[1], o[2])
  BY <1>0, OccurrenceFacts DEF TickPlanned, InHand
<1>2. PICK at \in {"insert", "advance"}, n \in Int :
        /\ Take(i, o, at, n)
        /\ \/ at = "advance" /\ NoneAfter(o[1], clock) /\ n = clock + Hour
           \/ IsNext(o[1], clock, n)
  <2>1. CASE NoneAfter(o[1], clock) /\ Take(i, o, "advance", Deferred(clock))
    BY <1>0, <2>1 DEF Deferred
  <2>2. CASE \E t \in Occurrences[o[1]] :
               /\ IsNext(o[1], clock, t)
               /\ Take(i, o, IF shouldFire(o[1], o[2], clock) THEN "insert" ELSE "advance", t)
    BY <1>1, <2>2
  <2> QED BY <2>1, <2>2 DEF Evaluate
<1> DEFINE t == [due |-> tick[i].due \ {o}, at |-> at, row |-> o, nextRunAt |-> n]
<1>3. /\ tick' = [tick EXCEPT ![i] = t] /\ UNCHANGED <<now, schedule, stored, fired>>
  BY <1>2 DEF Take
<1>4. n \in Nat /\ n >= 1 /\ n > clock /\ Planned(o[1], n)
  BY <1>0, <1>1, <1>2, SchedulerAssumptions DEF IsNext, Planned, NoneAfter
<1>5. t \in Ticks
  BY <1>0, <1>4 DEF Ticks
<1>6. tick'[i] = t
  BY <1>0, <1>3 DEF SchedulerTypeOK
<1>7. at = "insert" => o[2] \in Occurrences[o[1]]
  \* a made-up time is not due before an hour after the expression ran out
  BY <1>0, <1>1, <1>2 DEF IsNext, Planned, NoneAfter
<1>8. TickPlanned(i)'
  <2>1. ASSUME NEW q \in Occurrence, InHand(i, q)' PROVE InHand(i, q)
    BY <1>6, <2>1 DEF InHand
  <2>2. ASSUME NEW q \in Occurrence, InHand(i, q) PROVE q[2] <= now /\ Planned(q[1], q[2])
    BY <1>0, <2>2 DEF TickPlanned
  <2>3. /\ tick'[i].row = o /\ tick'[i].nextRunAt = n /\ tick'[i].at = at
    BY <1>6
  <2> HIDE DEF t
  <2> QED BY <1>0, <1>3, <1>4, <1>7, <2>1, <2>2, <2>3 DEF TickPlanned, Planned, NoneAfter
<1>9. ASSUME NEW q \in Occurrence, Past(q)
      PROVE  ~InHand(i, q)' /\ (o[1] = q[1] => n > q[2])
  <2>1. ~InHand(i, q) /\ now > q[2] + Hour /\ q[2] \in Nat
    BY <1>9, OccurrenceFacts DEF Past
  <2>2. ~InHand(i, q)'
    BY <1>6, <2>1 DEF InHand
  <2> QED BY <1>0, <1>4, <2>1, <2>2
<1>10. t.at = at /\ t.row = o /\ t.nextRunAt = n
  OBVIOUS
<1> HIDE DEF t
<1> QED BY <1>3, <1>5, <1>8, <1>9, <1>10, TickStep

\* Every other step takes ticks no further into their rows than they are: they have
\* at most as much in hand, and what they will write is settled.
Eases ==
  /\ tick' \in [Instance -> Ticks]
  /\ \A k \in Instance :
       /\ tick'[k].due \subseteq tick[k].due
       /\ tick'[k].at # "loop" => /\ tick[k].at # "loop"
                                  /\ tick'[k].row = tick[k].row
                                  /\ tick'[k].nextRunAt = tick[k].nextRunAt
       /\ tick'[k].at = "insert" => tick[k].at = "insert"

MovedOn(o) == \/ schedule'[o[1]].state = "deleted"
              \/ schedule'[o[1]].state = "live" /\ schedule'[o[1]].next_run_at > o[2]

LEMMA EasesKeeps ==
  ASSUME SchedulerInv, Eases, now' \in Nat, now' >= now
  PROVE  /\ TicksPlanned'
         /\ \A o \in Occurrence : Past(o) /\ MovedOn(o) => Past(o)'
<1>0. now \in Nat /\ Hour \in Nat
  BY SchedulerAssumptions DEF SchedulerInv, SchedulerTypeOK
<1>1. ASSUME NEW k \in Instance, NEW o \in Occurrence, InHand(k, o)' PROVE InHand(k, o)
  BY <1>1 DEF InHand, Eases
<1>2. ASSUME NEW k \in Instance PROVE TickPlanned(k)'
  <2>1. TickPlanned(k)
    BY DEF SchedulerInv, TicksPlanned
  <2>2. ASSUME NEW o \in Occurrence, InHand(k, o)' PROVE o[2] <= now' /\ Planned(o[1], o[2])
    BY <1>0, <1>1, <2>1, <2>2, OccurrenceFacts DEF TickPlanned
  <2> QED BY <2>1, <2>2 DEF TickPlanned, Eases, Planned, NoneAfter
<1>3. ASSUME NEW o \in Occurrence, Past(o), MovedOn(o) PROVE Past(o)'
  <2>1. now' > o[2] + Hour
    BY <1>0, <1>3, OccurrenceFacts DEF Past
  <2>2. ASSUME NEW k \in Instance
        PROVE  /\ ~InHand(k, o)'
               /\ tick'[k].at # "loop" /\ tick'[k].row[1] = o[1] => tick'[k].nextRunAt > o[2]
    BY <1>1, <1>3 DEF Past, Eases
  <2> QED BY <1>3, <2>1, <2>2 DEF Past, MovedOn
<1> QED BY <1>2, <1>3 DEF TicksPlanned

\* Breaking off is such a step, and so is leaving the ticks alone.
LEMMA EasingSteps ==
  ASSUME SchedulerTypeOK, UNCHANGED tick \/ \E i \in Instance : BreakOff(i)
  PROVE  Eases
<1>1. tick \in [Instance -> Ticks]
  BY DEF SchedulerTypeOK, Ticks
<1>2. CASE UNCHANGED tick
  BY <1>1, <1>2 DEF Eases
<1>3. ASSUME NEW i \in Instance, BreakOff(i) PROVE Eases
  <2>1. /\ tick'[i].due = {} /\ tick'[i].at = "loop" /\ tick' \in [Instance -> Ticks]
        /\ \A k \in Instance : k # i => tick'[k] = tick[k]
    BY <1>3, IdleFacts DEF Idle
  <2> QED BY <2>1 DEF Eases
<1> QED BY <1>2, <1>3

LEMMA PastMovedOn ==
  ASSUME NEW o \in Occurrence, Past(o), schedule' = schedule
  PROVE  MovedOn(o)
  BY DEF Past, MovedOn

\* What an insert of a key that some tick has in hand does to the job rows.
LEMMA InsertJobKeeps ==
  ASSUME SchedulerInv, NEW i \in Instance, NEW key \in Occurrence, InHand(i, key),
         key[2] \in Occurrences[key[1]], insertJob(key), UNCHANGED <<now, schedule>>, Eases
  PROVE  SchedulerInv'
<1>0. /\ SchedulerTypeOK /\ KeysKept /\ now \in Nat /\ key[2] <= now
      /\ fired \in [Occurrence -> Nat] /\ stored \subseteq Occurrence
  BY SchedulerAssumptions DEF SchedulerInv, SchedulerTypeOK, TicksPlanned, TickPlanned
<1>1. /\ TicksPlanned'
      /\ \A o \in Occurrence : Past(o) => Past(o)'
  BY <1>0, EasesKeeps, PastMovedOn
<1>2. key \notin stored => fired[key] = 0
  <2>1. ~Past(key)
    BY DEF Past
  <2> QED BY <1>0, <2>1 DEF KeysKept
<1>3. /\ stored' \subseteq Occurrence /\ fired' \in [Occurrence -> Nat]
      /\ \A o \in Occurrence : o # key => fired'[o] = fired[o] /\ (o \in stored' <=> o \in stored)
      /\ key \in stored' /\ fired'[key] = 1
  BY <1>0, <1>2 DEF insertJob, KeysKept
<1>4. SchedulerTypeOK'
  BY <1>0, <1>3 DEF SchedulerTypeOK, Eases, Ticks
<1>5. RowsPlanned'
  BY DEF SchedulerInv, RowsPlanned, Planned, NoneAfter
<1>6. FiresOnlyOccurrences'
  BY <1>0, <1>3 DEF SchedulerInv, FiresOnlyOccurrences
<1>7. KeysKept'
  BY <1>0, <1>1, <1>3 DEF KeysKept
<1> QED BY <1>1, <1>4, <1>5, <1>6, <1>7 DEF SchedulerInv

\* Steps that leave the job rows alone and at most write next_run_at.
LEMMA ScheduleStepKeeps ==
  ASSUME SchedulerInv, Eases, UNCHANGED <<now, stored, fired>>,
         SchedulerTypeOK', RowsPlanned', \A o \in Occurrence : Past(o) => MovedOn(o)
  PROVE  SchedulerInv'
<1>0. now \in Nat
  BY SchedulerAssumptions DEF SchedulerInv, SchedulerTypeOK
<1>1. /\ TicksPlanned'
      /\ \A o \in Occurrence : Past(o) => Past(o)'
  BY <1>0, EasesKeeps
<1>2. FiresOnlyOccurrences' /\ KeysKept'
  BY <1>1 DEF SchedulerInv, FiresOnlyOccurrences, KeysKept
<1> QED BY <1>1, <1>2 DEF SchedulerInv

LEMMA InsertKeeps ==
  ASSUME SchedulerInv, NEW i \in Instance, Insert(i)
  PROVE  SchedulerInv'
<1> DEFINE key == occurrenceKey(i)
<1>0. /\ SchedulerTypeOK /\ key \in Occurrence /\ InHand(i, key) /\ key[2] \in Occurrences[key[1]]
      /\ tick \in [Instance -> Ticks] /\ tick[i] \in Ticks
  BY DEF Insert, SchedulerInv, TicksPlanned, TickPlanned, InHand, occurrenceKey, SchedulerTypeOK, Ticks
<1>1. CASE tick' = [tick EXCEPT ![i].at = "advance"] /\ insertJob(key)
  <2>1. [tick[i] EXCEPT !.at = "advance"] \in Ticks
    BY <1>0 DEF Ticks
  <2>2. Eases
    BY <1>0, <1>1, <2>1 DEF Eases, Insert, Ticks
  <2> HIDE DEF key
  <2> QED BY <1>0, <1>1, <2>2, InsertJobKeeps DEF Insert
<1>2. CASE BreakOff(i) /\ insertJob(key)
  <2>1. Eases
    BY <1>0, <1>2, EasingSteps
  <2> HIDE DEF key
  <2> QED BY <1>0, <1>2, <2>1, InsertJobKeeps DEF Insert
<1>3. CASE BreakOff(i) /\ UNCHANGED <<stored, fired>>
  <2>1. Eases
    BY <1>0, <1>3, EasingSteps
  <2>2. SchedulerTypeOK' /\ RowsPlanned'
    BY <1>0, <1>3, <2>1 DEF Insert, SchedulerInv, SchedulerTypeOK, RowsPlanned, Planned, NoneAfter, Eases, Ticks
  <2> QED BY <1>3, <2>1, <2>2, PastMovedOn, ScheduleStepKeeps DEF Insert
<1> QED BY <1>1, <1>2, <1>3 DEF Insert

LEMMA AbandonKeeps ==
  ASSUME SchedulerInv, NEW i \in Instance, Abandon(i)
  PROVE  SchedulerInv'
<1>1. Eases
  BY EasingSteps DEF SchedulerInv, Abandon
<1>2. SchedulerTypeOK' /\ RowsPlanned'
  BY <1>1 DEF Abandon, SchedulerInv, SchedulerTypeOK, RowsPlanned, Planned, NoneAfter, Eases, Ticks
<1> QED BY <1>1, <1>2, PastMovedOn, ScheduleStepKeeps DEF Abandon

LEMMA AdvanceKeeps ==
  ASSUME SchedulerInv, NEW i \in Instance, Advance(i)
  PROVE  SchedulerInv'
<1> DEFINE s == tick[i].row[1]
           t == tick[i].nextRunAt
<1>0. /\ SchedulerTypeOK /\ RowsPlanned /\ tick \in [Instance -> Ticks] /\ tick[i] \in Ticks
      /\ tick[i].row \in Occurrence /\ s \in Schedule /\ t \in Nat /\ t >= 1 /\ Planned(s, t)
  BY OccurrenceFacts DEF Advance, SchedulerInv, TicksPlanned, TickPlanned, SchedulerTypeOK, Ticks
<1>1. Eases
  <2>1. CASE tick' = [tick EXCEPT ![i] = [Idle EXCEPT !.due = tick[i].due]]
    <3>1. /\ [Idle EXCEPT !.due = tick[i].due] \in Ticks
          /\ [Idle EXCEPT !.due = tick[i].due].due = tick[i].due
          /\ [Idle EXCEPT !.due = tick[i].due].at = "loop"
      BY <1>0 DEF Idle, Ticks
    <3>2. /\ tick'[i] = [Idle EXCEPT !.due = tick[i].due] /\ tick' \in [Instance -> Ticks]
          /\ \A k \in Instance : k # i => tick'[k] = tick[k]
      BY <1>0, <2>1, <3>1
    <3> QED BY <3>1, <3>2 DEF Eases
  <2>2. CASE BreakOff(i)
    BY <1>0, <2>2, EasingSteps
  <2> QED BY <2>1, <2>2 DEF Advance
<1>2. /\ schedule' = IF schedule[s].state = "live" THEN [schedule EXCEPT ![s].next_run_at = t]
                     ELSE schedule
      /\ UNCHANGED <<now, stored, fired>>
  BY DEF Advance, advanceSchedule
<1>3. CASE schedule[s].state # "live"
  <2>1. SchedulerTypeOK' /\ RowsPlanned'
    BY <1>0, <1>1, <1>2, <1>3 DEF SchedulerTypeOK, RowsPlanned, Planned, NoneAfter, Eases, Ticks
  <2> QED BY <1>1, <1>2, <1>3, <2>1, PastMovedOn, ScheduleStepKeeps
<1>4. CASE schedule[s].state = "live"
  <2> HIDE DEF s, t
  <2>1. /\ schedule' \in [Schedule -> [state       : {"absent", "live", "deleted"},
                                       enabled     : BOOLEAN,
                                       next_run_at : Nat]]
        /\ schedule'[s].next_run_at = t /\ schedule'[s].state = "live"
        /\ \A r \in Schedule : r # s => schedule'[r] = schedule[r]
    BY <1>0, <1>2, <1>4 DEF SchedulerTypeOK
  <2>2. SchedulerTypeOK'
    BY <1>0, <1>1, <1>2, <2>1 DEF SchedulerTypeOK, Eases, Ticks
  <2>3. RowsPlanned'
    BY <1>0, <2>1 DEF RowsPlanned, Planned, NoneAfter
  <2>4. ASSUME NEW o \in Occurrence, Past(o) PROVE MovedOn(o)
    <3>1. CASE o[1] = s
      BY <2>1, <2>4, <3>1 DEF Past, MovedOn, Advance, s, t
    <3>2. CASE o[1] # s
      BY <2>1, <2>4, <3>2, OccurrenceFacts DEF Past, MovedOn
    <3> QED BY <3>1, <3>2
  <2> QED BY <1>1, <1>2, <2>2, <2>3, <2>4, ScheduleStepKeeps
<1> QED BY <1>3, <1>4

\* A management call that computed t at a time c less than an hour ago.
LEMMA ManagementKeeps ==
  ASSUME SchedulerInv, NEW s \in Schedule, UNCHANGED <<now, stored, fired, tick>>,
         NEW row \in [state : {"absent", "live", "deleted"}, enabled : BOOLEAN, next_run_at : Nat],
         schedule' = [schedule EXCEPT ![s] = row],
         IF row.state = "live" THEN row.next_run_at >= 1 /\ Planned(s, row.next_run_at)
         ELSE row.next_run_at = 0,
         \A o \in Occurrence : Past(o) /\ o[1] = s =>
            row.state = "deleted" \/ (row.state = "live" /\ row.next_run_at > o[2])
  PROVE  SchedulerInv'
<1>1. Eases
  BY EasingSteps DEF SchedulerInv
<1>2. schedule'[s] = row /\ \A r \in Schedule : r # s => schedule'[r] = schedule[r]
  BY DEF SchedulerInv, SchedulerTypeOK
<1>3. SchedulerTypeOK'
  BY DEF SchedulerInv, SchedulerTypeOK
<1>4. RowsPlanned'
  BY <1>2 DEF SchedulerInv, RowsPlanned, Planned, NoneAfter
<1>5. ASSUME NEW o \in Occurrence, Past(o) PROVE MovedOn(o)
  BY <1>2, <1>5, OccurrenceFacts DEF Past, MovedOn
<1> QED BY <1>1, <1>3, <1>4, <1>5, ScheduleStepKeeps

\* Past occurrences lie before whatever a call computes.
LEMMA CallsLookAhead ==
  ASSUME SchedulerInv, NEW s \in Schedule, NEW c \in (now - CallDelay)..now,
         NEW t \in Occurrences[s], IsNext(s, c, t)
  PROVE  /\ t \in Nat /\ t >= 1 /\ Planned(s, t)
         /\ \A o \in Occurrence : Past(o) => t > o[2]
<1>1. /\ now \in Nat /\ Hour \in Nat /\ CallDelay \in Nat /\ CallDelay <= Hour /\ t \in Nat /\ t >= 1
      /\ c \in Int /\ c >= now - CallDelay /\ t > c
  BY SchedulerAssumptions DEF SchedulerInv, SchedulerTypeOK, IsNext
<1>2. ASSUME NEW o \in Occurrence, Past(o) PROVE t > o[2]
  BY <1>1, <1>2, OccurrenceFacts DEF Past
<1> QED BY <1>1, <1>2 DEF Planned

LEMMA CreateKeeps ==
  ASSUME SchedulerInv, NEW s \in Schedule, NEW enabled \in BOOLEAN, NEW c \in (now - CallDelay)..now,
         NEW t \in Occurrences[s], create(s, enabled, c, t)
  PROVE  SchedulerInv'
<1> DEFINE row == [state |-> "live", enabled |-> enabled, next_run_at |-> t]
<1>1. /\ t \in Nat /\ t >= 1 /\ Planned(s, t)
      /\ \A o \in Occurrence : Past(o) => t > o[2]
  BY CallsLookAhead DEF create
<1>2. row \in [state : {"absent", "live", "deleted"}, enabled : BOOLEAN, next_run_at : Nat]
  BY <1>1
<1>3. row.state = "live" /\ row.next_run_at = t
  OBVIOUS
<1>4. schedule' = [schedule EXCEPT ![s] = row] /\ UNCHANGED <<now, stored, fired, tick>>
  BY DEF create
<1> HIDE DEF row
<1> QED BY <1>1, <1>2, <1>3, <1>4, ManagementKeeps

LEMMA ResumeKeeps ==
  ASSUME SchedulerInv, NEW s \in Schedule, NEW c \in (now - CallDelay)..now,
         NEW t \in Occurrences[s], resume(s, c, t)
  PROVE  SchedulerInv'
<1> DEFINE row == [schedule[s] EXCEPT !.enabled = TRUE, !.next_run_at = t]
<1>1. /\ t \in Nat /\ t >= 1 /\ Planned(s, t)
      /\ \A o \in Occurrence : Past(o) => t > o[2]
  BY CallsLookAhead DEF resume
<1>2. /\ row \in [state : {"absent", "live", "deleted"}, enabled : BOOLEAN, next_run_at : Nat]
      /\ row.state = "live" /\ row.next_run_at = t
  BY <1>1 DEF SchedulerInv, SchedulerTypeOK, resume
<1>3. schedule' = [schedule EXCEPT ![s] = row] /\ UNCHANGED <<now, stored, fired, tick>>
  BY DEF resume, SchedulerInv, SchedulerTypeOK
<1> HIDE DEF row
<1> QED BY <1>1, <1>2, <1>3, ManagementKeeps

LEMMA PauseDeleteKeeps ==
  ASSUME SchedulerInv, NEW s \in Schedule, pause(s) \/ delete(s)
  PROVE  SchedulerInv'
<1>1. CASE pause(s)
  <2> DEFINE row == [schedule[s] EXCEPT !.enabled = FALSE]
  <2>1. /\ row \in [state : {"absent", "live", "deleted"}, enabled : BOOLEAN, next_run_at : Nat]
        /\ row.state = "live" /\ row.next_run_at = schedule[s].next_run_at /\ schedule[s].state = "live"
    BY <1>1 DEF SchedulerInv, SchedulerTypeOK, pause
  <2>2. schedule' = [schedule EXCEPT ![s] = row] /\ UNCHANGED <<now, stored, fired, tick>>
    BY <1>1 DEF pause, SchedulerInv, SchedulerTypeOK
  <2>3. schedule[s].next_run_at >= 1 /\ Planned(s, schedule[s].next_run_at)
    BY <2>1 DEF SchedulerInv, RowsPlanned
  <2>4. ASSUME NEW o \in Occurrence, Past(o), o[1] = s PROVE schedule[s].next_run_at > o[2]
    BY <2>1, <2>4 DEF Past
  <2> HIDE DEF row
  <2> QED BY <2>1, <2>2, <2>3, <2>4, ManagementKeeps
<1>2. CASE delete(s)
  <2> DEFINE row == [NoSchedule EXCEPT !.state = "deleted"]
  <2>1. /\ row \in [state : {"absent", "live", "deleted"}, enabled : BOOLEAN, next_run_at : Nat]
        /\ row.state = "deleted" /\ row.next_run_at = 0
    BY DEF NoSchedule
  <2>2. schedule' = [schedule EXCEPT ![s] = row] /\ UNCHANGED <<now, stored, fired, tick>>
    BY <1>2 DEF delete
  <2> HIDE DEF row
  <2> QED BY <2>1, <2>2, ManagementKeeps
<1> QED BY <1>1, <1>2

\* Retention makes an occurrence past; that is what its guard is for.
LEMMA PruneKeeps ==
  ASSUME SchedulerInv, NEW o \in Occurrence, pruneJob(o)
  PROVE  SchedulerInv'
<1>1. Eases
  BY EasingSteps DEF SchedulerInv, pruneJob
<1>2. /\ TicksPlanned' /\ now \in Nat
      /\ \A q \in Occurrence : Past(q) => Past(q)'
  BY <1>1, EasesKeeps, PastMovedOn, SchedulerAssumptions DEF pruneJob, SchedulerInv, SchedulerTypeOK
<1>3. SchedulerTypeOK' /\ RowsPlanned' /\ FiresOnlyOccurrences'
  BY DEF pruneJob, SchedulerInv, SchedulerTypeOK, RowsPlanned, Planned, NoneAfter, FiresOnlyOccurrences
<1>4. Past(o)'
  <2>1. \A i \in Instance : tick'[i] = Idle /\ Idle.at = "loop" /\ Idle.due = {}
    BY DEF pruneJob, Idle
  <2>2. \/ schedule[o[1]].state = "deleted"
        \/ schedule[o[1]].state = "live" /\ schedule[o[1]].next_run_at > o[2]
    BY OccurrenceFacts DEF pruneJob, SchedulerInv, RowsPlanned
  <2> QED BY <2>1, <2>2 DEF pruneJob, Past, InHand
<1>5. KeysKept'
  BY <1>2, <1>4 DEF pruneJob, SchedulerInv, KeysKept
<1> QED BY <1>2, <1>3, <1>5 DEF SchedulerInv

LEMMA ElapseKeeps ==
  ASSUME SchedulerInv, Elapse
  PROVE  SchedulerInv'
<1>0. now \in Nat /\ MaxTime \in Nat /\ now' = now + 1 /\ now' \in 0..MaxTime
  BY SchedulerAssumptions DEF SchedulerInv, SchedulerTypeOK, Elapse
<1>1. Eases
  BY EasingSteps DEF SchedulerInv, Elapse
<1>2. /\ TicksPlanned'
      /\ \A q \in Occurrence : Past(q) => Past(q)'
  BY <1>0, <1>1, EasesKeeps, PastMovedOn DEF Elapse
<1>3. SchedulerTypeOK' /\ RowsPlanned'
  BY <1>0 DEF Elapse, SchedulerInv, SchedulerTypeOK, RowsPlanned, Planned, NoneAfter
<1>4. FiresOnlyOccurrences'
  BY <1>0, OccurrenceFacts DEF Elapse, SchedulerInv, FiresOnlyOccurrences
<1>5. KeysKept'
  BY <1>2 DEF Elapse, SchedulerInv, KeysKept
<1> QED BY <1>2, <1>3, <1>4, <1>5 DEF SchedulerInv

LEMMA SchedulerInvariant == SchedulerSpec => []SchedulerInv
<1>1. ASSUME SchedulerInv, SchedulerNext PROVE SchedulerInv'
  <2>1. \A s \in Managed : s \in Schedule
    BY SchedulerAssumptions
  <2>2. stored \subseteq Occurrence
    BY <1>1 DEF SchedulerInv, SchedulerTypeOK
  <2>3. CASE \E i \in Instance :
               \/ \E S, locked \in SUBSET Schedule : claimDueSchedules(i, S, locked)
               \/ Handle(i)
               \/ Abandon(i)
    BY <1>1, <2>3, ClaimKeeps, EvaluateKeeps, InsertKeeps, AdvanceKeeps, AbandonKeeps DEF Handle
  <2>4. CASE \E s \in Schedule, c \in (now - CallDelay)..now : \E t \in Occurrences[s] :
               \/ \E enabled \in BOOLEAN : create(s, enabled, c, t)
               \/ s \in Managed /\ resume(s, c, t)
    BY <1>1, <2>4, CreateKeeps, ResumeKeeps
  <2>5. CASE \E s \in Managed : pause(s) \/ delete(s)
    BY <1>1, <2>1, <2>5, PauseDeleteKeeps
  <2>6. CASE \E o \in stored : pruneJob(o)
    BY <1>1, <2>2, <2>6, PruneKeeps
  <2> QED BY <1>1, <2>3, <2>4, <2>5, <2>6, ElapseKeeps DEF SchedulerNext
<1>2. SchedulerInv /\ UNCHANGED schedulerVars => SchedulerInv'
  BY DEF SchedulerInv, schedulerVars, SchedulerTypeOK, RowsPlanned, TicksPlanned, TickPlanned, InHand,
     Planned, NoneAfter, FiresOnlyOccurrences, KeysKept, Past
<1> QED BY <1>1, <1>2, InitHolds, PTL DEF SchedulerSpec

-----------------------------------------------------------------------------
(* The theorems.                                                           *)

\* Rows, keys and ticks of the scheduler stay well formed.
THEOREM SchedulerTypeCorrect == SchedulerSpec => []SchedulerTypeOK
<1>1. SchedulerInv => SchedulerTypeOK
  BY DEF SchedulerInv
<1> QED BY <1>1, SchedulerInvariant, PTL

\* With any number of instances, whatever they have in hand, wherever they break off
\* and although retention removes jobs in the end, an occurrence gets at most one
\* job (scheduler.ts:4).
THEOREM AtMostOnce == SchedulerSpec => []AtMostOneJobPerOccurrence
<1>1. SchedulerInv => AtMostOneJobPerOccurrence
  BY DEF SchedulerInv, KeysKept, AtMostOneJobPerOccurrence
<1> QED BY <1>1, SchedulerInvariant, PTL

\* As long as no clock lags by more than an hour, no job is made for the made-up time
\* of a deferral, and none before its time.
THEOREM FiresOnTime == SchedulerSpec => []FiresOnlyOccurrences
<1>1. SchedulerInv => FiresOnlyOccurrences
  BY DEF SchedulerInv
<1> QED BY <1>1, SchedulerInvariant, PTL
=============================================================================
