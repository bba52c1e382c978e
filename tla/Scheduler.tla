----------------------------- MODULE Scheduler ------------------------------
(***************************************************************************)
(* Cron schedules, materialised by a scheduler on every server instance.   *)
(*                                                                         *)
(* There is no leader.  claimDueSchedules locks the due rows only while it *)
(* runs, so two instances may work on one occurrence; each inserts the job *)
(* under a key made of the schedule and the planned time, and the unique   *)
(* index on idempotency_key lets one insert through.  Then each writes     *)
(* next_run_at, whatever the row holds by then.                            *)
(*                                                                         *)
(* "now" is the database clock; an instance reads its own, which may be    *)
(* off by Skew.  last_run_at and last_job_id are only displayed and left   *)
(* out.  Cron evaluation is a library: Occurrences is what it computes.    *)
(***************************************************************************)
EXTENDS Integers, FiniteSets

CONSTANTS Schedule, Instance,
          Occurrences,   \* the planned times of each schedule (cron, external)
          SkipMissed,    \* schedules with catchup_policy = 'skip_missed'
          Hour,          \* staleAfterSeconds and the deferral, both 3600 s
          Skew,          \* how far each instance's clock is ahead of the database's
          ScheduleBatch, \* LIMIT of claimDueSchedules
          MayFail,       \* instances whose ticks may break off
          Managed,       \* schedules that operators pause, resume or delete
          CallDelay,     \* bound: how long a management call takes
          MaxTime        \* bound on the clock

ASSUME SchedulerAssumptions ==
  /\ Occurrences \in [Schedule -> SUBSET (Nat \ {0})]
  /\ SkipMissed \subseteq Schedule
  /\ Hour \in Nat \ {0}
  /\ Skew \in [Instance -> Int]
  /\ \A i \in Instance : Skew[i] >= -Hour   \* no clock lags by more than an hour
  /\ ScheduleBatch \in Nat \ {0}
  /\ MayFail \subseteq Instance
  /\ Managed \subseteq Schedule
  /\ CallDelay \in 0..Hour
  /\ MaxTime \in Nat

VARIABLES now,       \* the database clock
          schedule,  \* the schedule rows
          stored,    \* the occurrences that a job row holds as its key
          fired,     \* history: how many jobs each occurrence has had
          tick       \* the tick of each instance

schedulerVars == <<now, schedule, stored, fired, tick>>

\* <<schedule id, planned_for>>
Occurrence == Schedule \X (1..MaxTime)

NoSchedule == [state |-> "absent", enabled |-> FALSE, next_run_at |-> 0]

\* due: claimed rows still to be processed; row: the one in hand; at: the
\* statement about it that is sent next.
Idle == [due |-> {}, at |-> "loop", row |-> <<>>, nextRunAt |-> 0]

SchedulerTypeOK ==
  /\ now \in 0..MaxTime
  /\ schedule \in [Schedule -> [state       : {"absent", "live", "deleted"},
                                enabled     : BOOLEAN,
                                next_run_at : Nat]]
  /\ stored \subseteq Occurrence
  /\ fired \in [Occurrence -> Nat]
  /\ tick \in [Instance -> [due       : SUBSET Occurrence,
                            at        : {"loop", "insert", "advance"},
                            row       : Occurrence \cup {<<>>},
                            nextRunAt : Nat]]

-----------------------------------------------------------------------------
(* nextOccurrence.                                                         *)

\* The first occurrence strictly after c.
IsNext(s, c, t) == /\ t \in Occurrences[s] /\ t > c
                   /\ \A u \in Occurrences[s] : u > c => t <= u

\* There is none: nextOccurrence throws a ValidationError.
NoneAfter(s, c) == \A t \in Occurrences[s] : t <= c

-----------------------------------------------------------------------------
(* Scheduler.tick.                                                         *)

Due == {s \in Schedule : /\ schedule[s].state = "live" /\ schedule[s].enabled
                         /\ schedule[s].next_run_at <= now}

\* ORDER BY next_run_at LIMIT ... SKIP LOCKED.
claimDueSchedules(i, S, locked) ==
  LET open == Due \ locked
  IN  /\ tick[i] = Idle
      /\ S # {} /\ S \subseteq open
      /\ Cardinality(S) <= ScheduleBatch
      /\ Cardinality(S) < ScheduleBatch => S = open
      /\ \A s \in S, r \in open \ S : schedule[s].next_run_at <= schedule[r].next_run_at
      /\ tick' = [tick EXCEPT ![i].due = {<<s, schedule[s].next_run_at>> : s \in S}]
      /\ UNCHANGED <<now, schedule, stored, fired>>

\* skip_missed does not fire what is more than an hour late.
shouldFire(s, planned, clock) == s \in SkipMissed => clock - planned <= Hour

\* Mutant: the deferral is an unset date, the epoch.
DeferredToEpoch(clock) == 0

\* A schedule that has no further occurrence is looked at again in an hour.
Deferred(clock) == clock + Hour

\* The next row of the loop, up to its first await: what will be written is
\* computed from the instance's clock of now.
Take(i, o, at, nextRunAt) ==
  /\ tick' = [tick EXCEPT ![i] = [due |-> @.due \ {o}, at |-> at, row |-> o,
                                  nextRunAt |-> nextRunAt]]
  /\ UNCHANGED <<now, schedule, stored, fired>>

Evaluate(i, o) ==
  LET s == o[1]
      clock == now + Skew[i]
  IN  /\ tick[i].at = "loop"
      /\ o \in tick[i].due
      /\ \/ NoneAfter(s, clock) /\ Take(i, o, "advance", Deferred(clock))
         \/ \E t \in Occurrences[s] :
              /\ IsNext(s, clock, t)
              /\ Take(i, o, IF shouldFire(s, o[2], clock) THEN "insert" ELSE "advance", t)

\* Any error leaves the loop over the rows; run() starts over with a new claim.
BreakOff(i) == tick' = [tick EXCEPT ![i] = Idle]

\* Mutant: the key is made of the time computed here, not of planned_for.
occurrenceKeyOfNext(i) == <<tick[i].row[1], tick[i].nextRunAt>>

\* Deterministic: the schedule and its planned time.
occurrenceKey(i) == tick[i].row

\* Mutant: no unique index.
insertJobUnchecked(key) == /\ stored' = stored \cup {key}
                           /\ fired' = [fired EXCEPT ![key] = @ + 1]

\* ON CONFLICT DO NOTHING.
insertJob(key) == IF key \in stored THEN UNCHANGED <<stored, fired>>
                  ELSE /\ stored' = stored \cup {key}
                       /\ fired' = [fired EXCEPT ![key] = @ + 1]

\* Mutant: losing the race for an occurrence is treated as an error.
InsertOrBreakOff(i) ==
  LET key == occurrenceKey(i)
  IN  /\ tick[i].at = "insert"
      /\ insertJob(key)
      /\ IF key \in stored \/ i \in MayFail THEN BreakOff(i)
         ELSE tick' = [tick EXCEPT ![i].at = "advance"]
      /\ UNCHANGED <<now, schedule>>

\* The response may be lost.  A new row whose schedule is gone violates the
\* foreign key; a key that is stored already inserts no row and checks none.
Insert(i) ==
  LET key == occurrenceKey(i)
  IN  /\ tick[i].at = "insert"
      /\ \/ /\ schedule[key[1]].state = "live" \/ key \in stored
            /\ insertJob(key)
            /\ \/ tick' = [tick EXCEPT ![i].at = "advance"]
               \/ i \in MayFail /\ BreakOff(i)
         \/ /\ schedule[key[1]].state = "deleted" /\ key \notin stored
            /\ BreakOff(i) /\ UNCHANGED <<stored, fired>>
      /\ UNCHANGED <<now, schedule>>

\* UPDATE ... WHERE id: nothing is compared with what was claimed.
advanceSchedule(s, t) ==
  schedule' = IF schedule[s].state = "live" THEN [schedule EXCEPT ![s].next_run_at = t]
              ELSE schedule

Advance(i) ==
  /\ tick[i].at = "advance"
  /\ advanceSchedule(tick[i].row[1], tick[i].nextRunAt)
  /\ \/ tick' = [tick EXCEPT ![i] = [Idle EXCEPT !.due = tick[i].due]]
     \/ i \in MayFail /\ BreakOff(i)
  /\ UNCHANGED <<now, stored, fired>>

\* A statement fails before it is applied, or the process is killed.
Abandon(i) == /\ i \in MayFail /\ tick[i] # Idle
              /\ BreakOff(i)
              /\ UNCHANGED <<now, schedule, stored, fired>>

-----------------------------------------------------------------------------
(* Management.  The caller computed next_run_at at a time c before.        *)

create(s, enabled, c, t) ==
  /\ schedule[s].state = "absent"
  /\ IsNext(s, c, t)
  /\ schedule' = [schedule EXCEPT ![s] = [state |-> "live", enabled |-> enabled, next_run_at |-> t]]
  /\ UNCHANGED <<now, stored, fired, tick>>

pause(s) == /\ schedule[s].state = "live"
            /\ schedule' = [schedule EXCEPT ![s].enabled = FALSE]
            /\ UNCHANGED <<now, stored, fired, tick>>

resume(s, c, t) == /\ schedule[s].state = "live"
                   /\ IsNext(s, c, t)
                   /\ schedule' = [schedule EXCEPT ![s].enabled = TRUE, ![s].next_run_at = t]
                   /\ UNCHANGED <<now, stored, fired, tick>>

delete(s) == /\ schedule[s].state = "live"
             /\ schedule' = [schedule EXCEPT ![s] = [NoSchedule EXCEPT !.state = "deleted"]]
             /\ UNCHANGED <<now, stored, fired, tick>>

\* Mutant: the job is deleted while the occurrence may still be processed.
pruneAtOnce(o) == /\ o \in stored
                  /\ stored' = stored \ {o}
                  /\ UNCHANGED <<now, schedule, fired, tick>>

\* Retention keeps a job for days after the occurrence: by then the schedule has
\* moved on for good and no tick or call from that time is still under way.
pruneJob(o) == /\ o \in stored
               /\ schedule[o[1]].next_run_at > o[2] \/ schedule[o[1]].state = "deleted"
               /\ now > o[2] + Hour
               /\ \A i \in Instance : tick[i] = Idle
               /\ stored' = stored \ {o}
               /\ UNCHANGED <<now, schedule, fired, tick>>

-----------------------------------------------------------------------------
Elapse == now < MaxTime /\ now' = now + 1 /\ UNCHANGED <<schedule, stored, fired, tick>>

SchedulerInit == /\ now = 0
                 /\ schedule = [s \in Schedule |-> NoSchedule]
                 /\ stored = {}
                 /\ fired = [o \in Occurrence |-> 0]
                 /\ tick = [i \in Instance |-> Idle]

Handle(i) == (\E o \in tick[i].due : Evaluate(i, o)) \/ Insert(i) \/ Advance(i)

SchedulerNext ==
  \/ \E i \in Instance : \/ \E S, locked \in SUBSET Schedule : claimDueSchedules(i, S, locked)
                         \/ Handle(i)
                         \/ Abandon(i)
  \/ \E s \in Schedule, c \in (now - CallDelay)..now : \E t \in Occurrences[s] :
        \/ \E enabled \in BOOLEAN : create(s, enabled, c, t)
        \/ s \in Managed /\ resume(s, c, t)
  \/ \E s \in Managed : pause(s) \/ delete(s)
  \/ \E o \in stored : pruneJob(o)
  \/ Elapse

SchedulerSpec == SchedulerInit /\ [][SchedulerNext]_schedulerVars

\* A clock runs, and the loop of an instance survives every error.  Its polls are
\* jittered and a lock lasts for one statement, so a row is not locked at each.
FairSchedulerSpec ==
  /\ SchedulerSpec
  /\ WF_schedulerVars(Elapse)
  /\ \A i \in Instance \ MayFail :
       /\ \A s \in Schedule :
            SF_schedulerVars(\E S \in SUBSET Schedule : s \in S /\ claimDueSchedules(i, S, {}))
       /\ WF_schedulerVars(Handle(i))

-----------------------------------------------------------------------------
(* Properties.                                                             *)

\* However many instances work on an occurrence, in whatever order their
\* statements arrive and wherever they break off, it gets at most one job
\* (scheduler.ts:4: "Exactly-one-job-per-occurrence").
AtMostOneJobPerOccurrence == \A o \in Occurrence : fired[o] <= 1

\* A job is only ever created for a time that the cron expression names: not for
\* the made-up time of a deferral, nor before its time by an instance whose clock
\* is ahead.
FiresOnlyOccurrences ==
  \A o \in Occurrence : fired[o] > 0 => o[2] \in Occurrences[o[1]] /\ o[2] <= now

\* No occurrence wedges its schedule, and no schedule wedges another: a due
\* schedule is moved on or taken out of service, although ticks break off between
\* the insert and the advance, a deleted schedule fails a whole tick, an
\* expression has no further occurrence, and clocks lag behind.
DueScheduleMovesOn ==
  \A s \in Schedule : \A t \in 1..MaxTime :
    (s \in Due /\ schedule[s].next_run_at = t) ~> ~(s \in Due /\ schedule[s].next_run_at = t)

=============================================================================
