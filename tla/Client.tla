------------------------------- MODULE Client -------------------------------
(***************************************************************************)
(* The calls of client.ts that take several statements: enqueue and        *)
(* enqueueBatch with their conflict resolution, cancel, replay and         *)
(* replayMany.                                                             *)
(*                                                                         *)
(* Two partial unique indexes guard the table.  An idempotency key is held *)
(* by any stored row, a unique key only by one that is not terminal, so a  *)
(* replay takes its key back.  A call that runs into an index finds out    *)
(* which one from reads it makes later, when the table has moved on.       *)
(*                                                                         *)
(* One queue; rows are reduced to their state and keys.  audit_log is      *)
(* never read and left out: writing to it is one more await of a call.     *)
(***************************************************************************)
EXTENDS Integers, Sequences, FiniteSets

CONSTANTS Producer, Operator,
          Key, UniqueKey, NoKey,
          Batches,   \* what producers pass to enqueueBatch
          MaxId      \* bound on the ids handed out

Item == [idempotencyKey : Key \cup {NoKey}, uniqueKey : UniqueKey \cup {NoKey}]

ASSUME ClientAssumptions == /\ NoKey \notin Key \cup UniqueKey
                            /\ Batches \subseteq Seq(Item)
                            /\ MaxId \in Nat

VARIABLES job,      \* the rows
          last,     \* the last value of the identity column's sequence
          enqueuer, \* the call of each producer
          admin     \* the call of each operator

clientVars == <<job, last, enqueuer, admin>>

Id == 1..MaxId
NoId == 0   \* the empty string that enqueueBatch returns for want of an id

\* Only the table of transitions is used: the client looks at no attempt.
Lifecycle == INSTANCE JobLifecycle
               WITH Job <- Id, MaxAttempts <- 0, attempt <- 0, dead_reason <- "none", due <- TRUE,
                    state <- [i \in Id |-> job[i].state]
Live == {"available", "running"}

\* "origin" is history: the call and the item that a row was inserted for.
NoRow == [state |-> "absent", idempotency_key |-> NoKey, unique_key |-> NoKey, origin |-> <<>>]
Row   == [state : Lifecycle!RowStates, idempotency_key : Key \cup {NoKey},
          unique_key : UniqueKey \cup {NoKey}, origin : (Producer \X Nat) \cup {<<>>}]

\* "new": the ids RETURNING yielded.
NoCall == [at |-> "idle", items |-> <<>>, new |-> {}, out |-> <<>>]
Answer == [kind : {"created", "deduplicated", "debounced", "unknown"}, id : Id \cup {NoId}]

\* "cancelled" is history: the jobs this operator has cancelled outright.
NoAction == [at |-> "idle", ids |-> {}, cancelled |-> {}]

ClientTypeOK ==
  /\ job \in [Id -> Row]
  /\ last \in 0..MaxId
  /\ enqueuer \in [Producer -> [at : {"idle", "findIdem", "findUnique", "map", "answered", "failed"},
                                items : Seq(Item), new : SUBSET Id, out : Seq(Answer)]]
  /\ admin \in [Operator -> [at : {"idle", "request", "read", "audit"},
                             ids : SUBSET Id, cancelled : SUBSET Id]]

-----------------------------------------------------------------------------
(* The statements.                                                         *)

Stored(i) == job[i].state \in Lifecycle!JobStates

\* job_idempotency_idx and job_unique_active_idx.
HoldsKey(i, key) == key # NoKey /\ Stored(i) /\ job[i].idempotency_key = key
HoldsUniqueKey(i, key) == key # NoKey /\ job[i].state \in Live /\ job[i].unique_key = key

InTheWay(i, r) == HoldsKey(i, r.idempotencyKey) \/ HoldsUniqueKey(i, r.uniqueKey)

\* Two items of one statement that an index keeps apart.
Clash(r, q) == \/ r.idempotencyKey # NoKey /\ r.idempotencyKey = q.idempotencyKey
               \/ r.uniqueKey # NoKey /\ r.uniqueKey = q.uniqueKey

\* ON CONFLICT DO NOTHING: an item goes in unless a row, or an item before it
\* that went in, is in its way.
Accepted(items, S) ==
  \A n \in DOMAIN items :
    n \in S <=> /\ \A i \in Id : ~InTheWay(i, items[n])
                /\ \A m \in S : m < n => ~Clash(items[m], items[n])

\* The sequence moves for the items that conflict, too.
insertJobs(p, items, S) ==
  /\ last + Len(items) <= MaxId
  /\ S \subseteq DOMAIN items
  /\ Accepted(items, S)
  /\ last' = last + Len(items)
  /\ job' = [i \in Id |-> IF i - last \in S
                          THEN [state           |-> "available",
                                idempotency_key |-> items[i - last].idempotencyKey,
                                unique_key      |-> items[i - last].uniqueKey,
                                origin          |-> <<p, i - last>>]
                          ELSE job[i]]

-----------------------------------------------------------------------------
(* enqueue.                                                                *)

\* A producer's call goes on; it may find its connection gone instead.
GoOn(p, call) == enqueuer' = [enqueuer EXCEPT ![p] = call]
OrFails(p, call) == GoOn(p, call) \/ GoOn(p, [NoCall EXCEPT !.at = "failed"])

Respond(call, kind, id) ==
  [call EXCEPT !.at = "answered", !.out = <<[kind |-> kind, id |-> id]>>]

enqueue(p, r) ==
  LET call == [NoCall EXCEPT !.items = <<r>>]
  IN  /\ enqueuer[p].at = "idle"
      /\ \E S \in SUBSET {1} :
           /\ insertJobs(p, <<r>>, S)
           /\ OrFails(p, IF S # {} THEN Respond(call, "created", last + 1)
                         ELSE [call EXCEPT !.at = IF r.idempotencyKey # NoKey THEN "findIdem"
                                                  ELSE "findUnique"])
      /\ UNCHANGED admin

\* resolveConflict: a holder of the idempotency key is the answer; otherwise look
\* for one of the unique key.
findByIdempotencyKey(p) ==
  LET call == enqueuer[p]
      r == call.items[1]
      found == {i \in Id : HoldsKey(i, r.idempotencyKey)}
  IN  /\ call.at = "findIdem"
      /\ \/ \E i \in found : OrFails(p, Respond(call, "deduplicated", i))
         \/ /\ found = {}
            /\ OrFails(p, IF r.uniqueKey # NoKey THEN [call EXCEPT !.at = "findUnique"]
                          ELSE Respond(call, "unknown", NoId))
      /\ UNCHANGED <<job, last, admin>>

findByUniqueKey(p) ==
  LET call == enqueuer[p]
      found == {i \in Id : HoldsUniqueKey(i, call.items[1].uniqueKey)}
  IN  /\ call.at = "findUnique"
      /\ \/ \E i \in found : OrFails(p, Respond(call, "debounced", i))
         \/ found = {} /\ OrFails(p, Respond(call, "unknown", NoId))
      /\ UNCHANGED <<job, last, admin>>

-----------------------------------------------------------------------------
(* enqueueBatch.                                                           *)

enqueueBatch(p, items) ==
  /\ enqueuer[p].at = "idle"
  /\ items # <<>>
  /\ \E S \in SUBSET DOMAIN items :
       /\ insertJobs(p, items, S)
       /\ OrFails(p, [NoCall EXCEPT !.at = "map", !.items = items, !.new = {last + n : n \in S}])
  /\ UNCHANGED admin

\* Mutant: every returned row is matched by position.
MapsToPosition(call, n, i) == i \in call.new /\ Cardinality({u \in call.new : u <= i}) = n

\* The returned row whose id the n-th item gets: found by its idempotency key, or
\* by its position among those that have none.
MapsTo(call, n, i) ==
  LET key == call.items[n].idempotencyKey
  IN  /\ i \in call.new /\ job[i].idempotency_key = key
      /\ key = NoKey => Cardinality({u \in call.new : u <= i /\ job[u].idempotency_key = NoKey})
                      = Cardinality({m \in 1..n : call.items[m].idempotencyKey = NoKey})

\* The loop over the items.  One whose key was not inserted is looked up.
MapItem(p) ==
  LET call == enqueuer[p]
      n == Len(call.out) + 1
      key == call.items[n].idempotencyKey
      mapped == {i \in Id : MapsTo(call, n, i)}
      found == {i \in Id : HoldsKey(i, key)}
      put(kind, id) == [call EXCEPT !.out = Append(@, [kind |-> kind, id |-> id]),
                                    !.at = IF n = Len(call.items) THEN "answered" ELSE "map"]
  IN  /\ call.at = "map"
      /\ \/ \E i \in mapped : GoOn(p, put("created", i))
         \/ mapped = {} /\ key = NoKey /\ GoOn(p, put("created", NoId))
         \/ /\ mapped = {} /\ key # NoKey
            /\ \/ \E i \in found : OrFails(p, put("deduplicated", i))
               \/ found = {} /\ OrFails(p, put("deduplicated", NoId))
      /\ UNCHANGED <<job, last, admin>>

-----------------------------------------------------------------------------
(* Operator actions.  Each ends with an insert into audit_log.             *)

SetState(S, state) == job' = [i \in Id |-> IF i \in S THEN [job[i] EXCEPT !.state = state] ELSE job[i]]

\* An operator's call is about to send a statement.
Await(o, at, S) == admin' = [admin EXCEPT ![o].at = at, ![o].ids = S]

\* It returns or throws: a refusal, or a database error at any of its awaits.
EndCall(o) == Await(o, "idle", {})

\* Mutant: a state that job_state does not have.
cancelInTwoSteps(o, i) ==
  /\ admin[o].at = "idle"
  /\ job[i].state \in Live
  /\ SetState({i}, "cancelling")
  /\ Await(o, "request", {i})
  /\ UNCHANGED <<last, enqueuer>>

cancel(o, i) ==
  /\ admin[o].at = "idle"
  /\ IF job[i].state = "available"
     THEN /\ SetState({i}, "cancelled")
          /\ \E at \in {"audit", "idle"} :
               admin' = [admin EXCEPT ![o] = [at |-> at, ids |-> {}, cancelled |-> @.cancelled \cup {i}]]
     ELSE UNCHANGED job /\ Await(o, "request", {i})
  /\ UNCHANGED <<last, enqueuer>>

\* cancel_requested_at itself is part of JobTable.
requestCancel(o) ==
  /\ admin[o].at = "request"
  /\ \/ \E i \in admin[o].ids :
          IF job[i].state = "running" THEN Await(o, "audit", {}) ELSE Await(o, "read", {i})
     \/ EndCall(o)
  /\ UNCHANGED <<job, last, enqueuer>>

\* Mutant: the index is checked against the table as it was, row by row.
ReplayableOneByOne(S) == \A i \in S : \A k \in Id : ~HoldsUniqueKey(k, job[i].unique_key)

\* The rows in S take their unique keys back: no live row may hold one, nor two of
\* them share one.
Replayable(S) ==
  \A i \in S : /\ \A k \in Id : ~HoldsUniqueKey(k, job[i].unique_key)
               /\ \A k \in S : k # i /\ job[k].unique_key = job[i].unique_key
                               => job[i].unique_key = NoKey

\* Mutant: whatever has finished is replayed.
FinishedOf(S) == {i \in S : job[i].state \in Lifecycle!TerminalStates}

DeadOf(S) == {i \in S : job[i].state = "dead"}

\* One statement: if the index refuses one row, none is replayed and the error is
\* the caller's.  "onNone": what is sent next if no row was dead.
Replay(o, S, onNone) ==
  /\ admin[o].at = "idle"
  /\ Replayable(DeadOf(S))
  /\ SetState(DeadOf(S), "available")
  /\ \/ IF DeadOf(S) = {} THEN Await(o, onNone, S) ELSE Await(o, "audit", {})
     \/ EndCall(o)
  /\ UNCHANGED <<last, enqueuer>>

\* replay() refuses a job that is not dead, replayMany() skips it.
replay(o, i) == Replay(o, {i}, "read")
replayMany(o, S) == Replay(o, S, "audit")

\* The last statement of a call: getJob, for the state that the error names, or
\* the insert into audit_log.
getJobOrAudit(o) == /\ admin[o].at \in {"read", "audit"}
                    /\ EndCall(o)
                    /\ UNCHANGED <<job, last, enqueuer>>

-----------------------------------------------------------------------------
(* The rest of the system, as JobTable describes it.                       *)

\* Claims, reports and the reaper.
Work(i) == /\ \E t \in Lifecycle!TRANSITIONS :
                /\ t.from = job[i].state
                /\ t.reason \notin {"cancel", "replay", "operator_retry"}
                /\ SetState({i}, t.to)
           /\ UNCHANGED <<last, enqueuer, admin>>

\* purge() or retention.
Delete(i) == Stored(i) /\ SetState({i}, "deleted") /\ UNCHANGED <<last, enqueuer, admin>>

-----------------------------------------------------------------------------
ClientInit == /\ job = [i \in Id |-> NoRow]
              /\ last = 0
              /\ enqueuer = [p \in Producer |-> NoCall]
              /\ admin = [o \in Operator |-> NoAction]

ClientNext ==
  \/ \E p \in Producer : \/ \E r \in Item : enqueue(p, r)
                         \/ findByIdempotencyKey(p)
                         \/ findByUniqueKey(p)
                         \/ \E items \in Batches : enqueueBatch(p, items)
                         \/ MapItem(p)
  \/ \E o \in Operator : \/ \E i \in 1..last : cancel(o, i) \/ replay(o, i)
                         \/ \E S \in SUBSET (1..last) : S # {} /\ replayMany(o, S)
                         \/ requestCancel(o) \/ getJobOrAudit(o)
  \/ \E i \in Id : Work(i) \/ Delete(i)

ClientSpec == ClientInit /\ [][ClientNext]_clientVars

-----------------------------------------------------------------------------
(* Properties.                                                             *)

\* Concurrent enqueues, batches with repeated keys and replays of dead jobs never
\* leave two stored rows with one idempotency key or two unfinished rows with one
\* unique key (migrations/001_initial_schema.sql, the two unique indexes).
OneJobPerKey ==
  \A i, k \in Id : i # k => /\ ~HoldsKey(i, IF Stored(k) THEN job[k].idempotency_key ELSE NoKey)
                            /\ ~HoldsUniqueKey(i, IF job[k].state \in Live THEN job[k].unique_key ELSE NoKey)

\* Batches whose answers client.ts can put together: no idempotency key occurs
\* twice, and an item with a unique key has an idempotency key as well.
Mappable(items) ==
  \A n \in DOMAIN items :
    /\ items[n].uniqueKey # NoKey => items[n].idempotencyKey # NoKey
    /\ \A m \in DOMAIN items : m # n /\ items[m].idempotencyKey = items[n].idempotencyKey
                               => items[n].idempotencyKey = NoKey

\* The rows that were inserted for the n-th item of a call.
Own(p, n) == {i \in Id : job[i].origin = <<p, n>>}

\* The n-th answer of a call.  A batch that is not mappable may be told a wrong id,
\* or "created" and no id; but a call for one item is never told a wrong one.
Believable(p, n) ==
  LET a == enqueuer[p].out[n]
      items == enqueuer[p].items
  IN  /\ a.kind = "created" /\ (Mappable(items) \/ (Len(items) = 1 /\ a.id # NoId))
         => Own(p, n) = {a.id}
      /\ a.kind = "deduplicated" => /\ Own(p, n) = {}
                                    /\ a.id # NoId => job[a.id].idempotency_key = items[n].idempotencyKey
      /\ a.kind \in {"debounced", "unknown"} => Own(p, n) = {}

\* A caller can believe the answer, whatever happened between the insert and the
\* reads: "created" names the row inserted for this very item, "deduplicated" a row
\* of the same key that the item did not create, and after a conflict error nothing
\* was inserted.
AnswersNameTheirJob ==
  \A p \in Producer : \A n \in DOMAIN enqueuer[p].out : Believable(p, n)

\* A job that cancel() has cancelled is never run: no claim, late report or replay
\* brings it back, even if the caller only saw the audit insert fail.
CancelledJobNeverRuns ==
  \A o \in Operator : \A i \in admin[o].cancelled : job[i].state \in {"cancelled", "deleted"}
=============================================================================
