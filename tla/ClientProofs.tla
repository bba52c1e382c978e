---------------------------- MODULE ClientProofs ----------------------------
(***************************************************************************)
(* Proofs about Client for all producers, operators, keys, batches and     *)
(* numbers of ids.                                                         *)
(***************************************************************************)
EXTENDS Client, FiniteSetTheorems, TLAPS

-----------------------------------------------------------------------------
(* Type correctness.                                                       *)

LEMMA InitIsTyped == ClientInit => ClientTypeOK
  BY ClientAssumptions DEF ClientInit, ClientTypeOK, NoRow, Row, NoCall, NoAction, Id, Item,
     Answer, Lifecycle!RowStates

\* A statement that inserts leaves well-formed rows and a valid sequence value.
LEMMA InsertIsTyped ==
  ASSUME ClientTypeOK, NEW p \in Producer, NEW items \in Seq(Item), NEW S, insertJobs(p, items, S)
  PROVE  job' \in [Id -> Row] /\ last' \in 0..MaxId /\ Len(items) \in Nat
<1>1. Len(items) \in Nat /\ DOMAIN items = 1..Len(items)
  OBVIOUS
<1>2. last' \in 0..MaxId
  BY <1>1, ClientAssumptions DEF insertJobs, ClientTypeOK
<1>3. ASSUME NEW i \in Id PROVE job'[i] \in Row
  <2>1. CASE i - last \in S
    <3>1. i - last \in 1..Len(items)
      BY <1>1, <2>1 DEF insertJobs
    <3>2. items[i - last] \in Item
      BY <3>1
    <3> QED BY <2>1, <3>1, <3>2 DEF insertJobs, Row, Item, Lifecycle!RowStates, Lifecycle!JobStates
  <2>2. CASE i - last \notin S
    BY <2>2 DEF insertJobs, ClientTypeOK
  <2> QED BY <2>1, <2>2
<1>4. job' = [i \in Id |-> job'[i]]
  BY DEF insertJobs
<1> QED BY <1>1, <1>2, <1>3, <1>4

\* A change of state leaves well-formed rows.
LEMMA SetStateIsTyped ==
  ASSUME ClientTypeOK, NEW S, NEW state \in Lifecycle!RowStates, SetState(S, state)
  PROVE  job' \in [Id -> Row]
<1>1. ASSUME NEW i \in Id PROVE job'[i] \in Row
  <2>1. job[i] \in Row
    BY DEF ClientTypeOK
  <2>2. [job[i] EXCEPT !.state = state] \in Row
    BY <2>1 DEF Row
  <2> QED BY <2>1, <2>2 DEF SetState
<1> QED BY <1>1 DEF SetState

\* What a producer's call may be set to.
Calls == [at : {"idle", "findIdem", "findUnique", "map", "answered", "failed"},
          items : Seq(Item), new : SUBSET Id, out : Seq(Answer)]

LEMMA NoCallIsTyped == NoCall \in Calls
<1>1. <<>> \in Seq(Item) /\ <<>> \in Seq(Answer)
  OBVIOUS
<1> QED BY <1>1 DEF NoCall, Calls

LEMMA GoOnIsTyped ==
  ASSUME ClientTypeOK, NEW p \in Producer, NEW call \in Calls, OrFails(p, call) \/ GoOn(p, call)
  PROVE  enqueuer' \in [Producer -> Calls]
<1>1. [NoCall EXCEPT !.at = "failed"] \in Calls
  BY NoCallIsTyped DEF Calls
<1>2. enqueuer \in [Producer -> Calls]
  BY DEF ClientTypeOK, Calls
<1> QED BY <1>1, <1>2 DEF OrFails, GoOn

LEMMA RespondIsTyped ==
  ASSUME NEW call \in Calls, NEW id \in Id \cup {NoId},
         NEW kind \in {"created", "deduplicated", "debounced", "unknown"}
  PROVE  Respond(call, kind, id) \in Calls
<1>1. [kind |-> kind, id |-> id] \in Answer
  BY DEF Answer
<1>2. <<[kind |-> kind, id |-> id]>> \in Seq(Answer)
  BY <1>1
<1> QED BY <1>2 DEF Respond, Calls

\* The fields of a call that its next statement does not touch.
LEMMA CallIsTyped ==
  ASSUME ClientTypeOK, NEW p \in Producer
  PROVE  enqueuer[p] \in Calls
  BY DEF ClientTypeOK, Calls

LEMMA AwaitIsTyped ==
  ASSUME ClientTypeOK, NEW o \in Operator, NEW S \in SUBSET Id,
         NEW at \in {"idle", "request", "read", "audit"}, Await(o, at, S)
  PROVE  admin' \in [Operator -> [at : {"idle", "request", "read", "audit"},
                                  ids : SUBSET Id, cancelled : SUBSET Id]]
  BY DEF ClientTypeOK, Await

\* Every action keeps the types.
LEMMA StepIsTyped == ClientTypeOK /\ ClientNext => ClientTypeOK'
<1> SUFFICES ASSUME ClientTypeOK, ClientNext PROVE ClientTypeOK'
  OBVIOUS
<1> DEFINE Admins == [at : {"idle", "request", "read", "audit"},
                      ids : SUBSET Id, cancelled : SUBSET Id]
<1>k. \A p \in Producer : enqueuer[p] \in Calls
  BY CallIsTyped
<1>s. Id \subseteq Nat /\ last \in 0..MaxId /\ MaxId \in Nat
  BY ClientAssumptions DEF Id, ClientTypeOK
<1>q. SUFFICES /\ job' \in [Id -> Row]
               /\ last' \in 0..MaxId
               /\ enqueuer' \in [Producer -> Calls]
               /\ admin' \in [Operator -> Admins]
  BY DEF ClientTypeOK, Calls
<1>z. job \in [Id -> Row] /\ enqueuer \in [Producer -> Calls] /\ admin \in [Operator -> Admins]
  BY DEF ClientTypeOK, Calls
<1> DEFINE Typed == /\ job' \in [Id -> Row]
                    /\ last' \in 0..MaxId
                    /\ enqueuer' \in [Producer -> Calls]
                    /\ admin' \in [Operator -> Admins]
<1>1. ASSUME NEW p \in Producer, NEW r \in Item, enqueue(p, r)
      PROVE  Typed
  <2> DEFINE call == [NoCall EXCEPT !.items = <<r>>]
  <2>1. PICK S \in SUBSET {1} :
          /\ insertJobs(p, <<r>>, S)
          /\ OrFails(p, IF S # {} THEN Respond(call, "created", last + 1)
                        ELSE [call EXCEPT !.at = IF r.idempotencyKey # NoKey THEN "findIdem"
                                                 ELSE "findUnique"])
    BY <1>1 DEF enqueue
  <2>2. <<r>> \in Seq(Item) /\ Len(<<r>>) = 1
    OBVIOUS
  <2>3. job' \in [Id -> Row] /\ last' \in 0..MaxId
    BY <2>1, <2>2, InsertIsTyped
  <2>4. last + 1 \in Id
    BY <2>1, <2>2, <1>s DEF insertJobs, Id
  <2>5. call \in Calls
    BY <2>2, NoCallIsTyped DEF Calls
  <2>6. [call EXCEPT !.at = IF r.idempotencyKey # NoKey THEN "findIdem" ELSE "findUnique"] \in Calls
    BY <2>5 DEF Calls
  <2>7. Respond(call, "created", last + 1) \in Calls
    BY <2>4, <2>5, RespondIsTyped
  <2>8. enqueuer' \in [Producer -> Calls]
    <3> DEFINE next == IF S # {} THEN Respond(call, "created", last + 1)
                       ELSE [call EXCEPT !.at = IF r.idempotencyKey # NoKey THEN "findIdem"
                                                ELSE "findUnique"]
    <3>1. next \in Calls
      BY <2>6, <2>7
    <3>2. OrFails(p, next)
      BY <2>1
    <3> HIDE DEF next
    <3> QED BY <3>1, <3>2, GoOnIsTyped
  <2> QED BY <1>1, <1>z, <2>3, <2>8 DEF enqueue
<1>2. ASSUME NEW p \in Producer, findByIdempotencyKey(p)
      PROVE  Typed
  <2> DEFINE r == enqueuer[p].items[1]
             found == {i \in Id : HoldsKey(i, r.idempotencyKey)}
  <2>1. CASE \E i \in found : OrFails(p, Respond(enqueuer[p], "deduplicated", i))
    <3>1. PICK i \in Id : OrFails(p, Respond(enqueuer[p], "deduplicated", i))
      BY <2>1
    <3>2. Respond(enqueuer[p], "deduplicated", i) \in Calls
      BY <1>k, RespondIsTyped
    <3> QED BY <1>2, <1>s, <1>z, <3>1, <3>2, GoOnIsTyped DEF findByIdempotencyKey
  <2>2. CASE OrFails(p, IF r.uniqueKey # NoKey THEN [enqueuer[p] EXCEPT !.at = "findUnique"]
                        ELSE Respond(enqueuer[p], "unknown", NoId))
    <3> DEFINE next == IF r.uniqueKey # NoKey THEN [enqueuer[p] EXCEPT !.at = "findUnique"]
                       ELSE Respond(enqueuer[p], "unknown", NoId)
    <3>1. Respond(enqueuer[p], "unknown", NoId) \in Calls
      BY <1>k, RespondIsTyped
    <3>2. [enqueuer[p] EXCEPT !.at = "findUnique"] \in Calls
      BY <1>k DEF Calls
    <3>3. next \in Calls
      BY <3>1, <3>2
    <3>4. OrFails(p, next)
      BY <2>2
    <3> HIDE DEF next
    <3> QED BY <1>2, <1>s, <1>z, <3>3, <3>4, GoOnIsTyped DEF findByIdempotencyKey
  <2> QED BY <1>2, <2>1, <2>2 DEF findByIdempotencyKey
<1>3. ASSUME NEW p \in Producer, findByUniqueKey(p)
      PROVE  Typed
  <2> DEFINE found == {i \in Id : HoldsUniqueKey(i, enqueuer[p].items[1].uniqueKey)}
  <2>1. PICK kind \in {"debounced", "unknown"}, i \in Id \cup {NoId} :
          OrFails(p, Respond(enqueuer[p], kind, i))
    BY <1>3 DEF findByUniqueKey
  <2>2. Respond(enqueuer[p], kind, i) \in Calls
    BY <1>k, RespondIsTyped
  <2> QED BY <1>3, <1>s, <1>z, <2>1, <2>2, GoOnIsTyped DEF findByUniqueKey
<1>4. ASSUME NEW p \in Producer, NEW items \in Batches, enqueueBatch(p, items)
      PROVE  Typed
  <2>1. items \in Seq(Item)
    BY ClientAssumptions
  <2>2. PICK S \in SUBSET DOMAIN items :
          /\ insertJobs(p, items, S)
          /\ OrFails(p, [NoCall EXCEPT !.at = "map", !.items = items, !.new = {last + n : n \in S}])
    BY <1>4 DEF enqueueBatch
  <2>3. job' \in [Id -> Row] /\ last' \in 0..MaxId /\ Len(items) \in Nat
    BY <2>1, <2>2, InsertIsTyped
  <2>4. {last + n : n \in S} \in SUBSET Id
    BY <2>1, <2>2, <2>3, <1>s DEF insertJobs, Id
  <2>5. [NoCall EXCEPT !.at = "map", !.items = items, !.new = {last + n : n \in S}] \in Calls
    BY <2>1, <2>4, NoCallIsTyped DEF Calls
  <2>6. enqueuer' \in [Producer -> Calls]
    BY <2>2, <2>5, GoOnIsTyped
  <2> QED BY <1>4, <1>z, <2>3, <2>6 DEF enqueueBatch
<1>5. ASSUME NEW p \in Producer, MapItem(p)
      PROVE  Typed
  <2> DEFINE n == Len(enqueuer[p].out) + 1
             put(kind, id) == [enqueuer[p] EXCEPT
                                 !.out = Append(@, [kind |-> kind, id |-> id]),
                                 !.at = IF n = Len(enqueuer[p].items) THEN "answered" ELSE "map"]
  <2>1. PICK kind \in {"created", "deduplicated"}, id \in Id \cup {NoId} :
          OrFails(p, put(kind, id)) \/ GoOn(p, put(kind, id))
    BY <1>5 DEF MapItem
  <2>2. [kind |-> kind, id |-> id] \in Answer
    BY DEF Answer
  <2>3. put(kind, id) \in Calls
    <3>1. enqueuer[p] \in Calls
      BY <1>k
    <3>2. Append(enqueuer[p].out, [kind |-> kind, id |-> id]) \in Seq(Answer)
      BY <3>1, <2>2 DEF Calls
    <3> QED BY <3>1, <3>2 DEF Calls
  <2> HIDE DEF put
  <2>4. enqueuer' \in [Producer -> Calls]
    BY <2>1, <2>3, GoOnIsTyped
  <2> QED BY <1>5, <1>s, <1>z, <2>4 DEF MapItem
<1>6. ASSUME NEW o \in Operator, NEW i \in Id, cancel(o, i)
      PROVE  Typed
  <2>1. CASE job[i].state = "available"
    <3>1. job' \in [Id -> Row]
      BY <1>6, <2>1, SetStateIsTyped DEF cancel, Lifecycle!RowStates, Lifecycle!JobStates,
         Lifecycle!TerminalStates
    <3>2. PICK at \in {"audit", "idle"} :
            admin' = [admin EXCEPT ![o] = [at |-> at, ids |-> {}, cancelled |-> @.cancelled \cup {i}]]
      BY <1>6, <2>1 DEF cancel
    <3>3. [at |-> at, ids |-> {}, cancelled |-> admin[o].cancelled \cup {i}] \in Admins
      BY <1>z
    <3>4. admin' \in [Operator -> Admins]
      BY <1>z, <3>2, <3>3
    <3> QED BY <1>6, <1>s, <1>z, <3>1, <3>4 DEF cancel
  <2>2. CASE job[i].state # "available"
    BY <1>6, <1>s, <1>z, <2>2, AwaitIsTyped DEF cancel
  <2> QED BY <2>1, <2>2
<1>7. ASSUME NEW o \in Operator, NEW S \in SUBSET Id, NEW onNone \in {"read", "audit"},
             Replay(o, S, onNone)
      PROVE  Typed
  <2>1. job' \in [Id -> Row]
    BY <1>7, SetStateIsTyped DEF Replay, Lifecycle!RowStates, Lifecycle!JobStates
  <2>2. admin' \in [Operator -> Admins]
    BY <1>7, AwaitIsTyped DEF Replay, EndCall
  <2> QED BY <1>7, <1>s, <1>z, <2>1, <2>2 DEF Replay
<1>8. ASSUME NEW o \in Operator, requestCancel(o) \/ getJobOrAudit(o)
      PROVE  Typed
  <2>1. PICK S \in SUBSET Id, at \in {"idle", "request", "read", "audit"} : Await(o, at, S)
    BY <1>8, <1>z DEF requestCancel, getJobOrAudit, EndCall
  <2> QED BY <1>8, <1>s, <1>z, <2>1, AwaitIsTyped DEF requestCancel, getJobOrAudit
<1>9. ASSUME NEW i \in Id, Work(i) \/ Delete(i)
      PROVE  Typed
  <2>1. PICK t \in Lifecycle!RowStates : SetState({i}, t)
    BY <1>9 DEF Work, Delete, Lifecycle!RowStates, Lifecycle!JobStates, Lifecycle!TerminalStates,
       Lifecycle!TRANSITIONS, Lifecycle!Transition
  <2> QED BY <1>9, <1>s, <1>z, <2>1, SetStateIsTyped DEF Work, Delete
<1>10. 1..last \subseteq Id
  BY <1>s DEF Id
<1> HIDE DEF Typed
<1>11. Typed
  BY <1>1, <1>2, <1>3, <1>4, <1>5, <1>6, <1>7, <1>8, <1>9, <1>10
     DEF ClientNext, replay, replayMany
<1> QED BY <1>11 DEF Typed

\* The calls of client.ts keep rows, answers and calls well formed.
THEOREM ClientTypeCorrect == ClientSpec => []ClientTypeOK
<1>1. ClientTypeOK /\ UNCHANGED clientVars => ClientTypeOK'
  BY DEF ClientTypeOK, clientVars
<1> QED BY <1>1, InitIsTyped, StepIsTyped, PTL DEF ClientSpec

-----------------------------------------------------------------------------
(* The unique indexes.                                                     *)

\* Ids beyond the sequence's last value have never been used.
FreshIds == \A i \in Id : i > last => job[i].state = "absent"

KeyInv == ClientTypeOK /\ FreshIds /\ OneJobPerKey

\* Every step but an insert and a replay: keys stay, and nobody begins to hold one.
Releases == \A i \in Id : /\ job'[i].idempotency_key = job[i].idempotency_key
                          /\ job'[i].unique_key = job[i].unique_key
                          /\ Stored(i)' => Stored(i)
                          /\ job'[i].state \in Live => job[i].state \in Live
                          /\ job[i].state = "absent" => job'[i].state = "absent"

LEMMA ReleasesKeepKeys ==
  ASSUME KeyInv, Releases, last' = last
  PROVE  FreshIds' /\ OneJobPerKey'
<1>1. FreshIds'
  BY DEF KeyInv, FreshIds, Releases
<1>2. OneJobPerKey'
  BY DEF KeyInv, OneJobPerKey, Releases, HoldsKey, HoldsUniqueKey, Stored
<1> QED BY <1>1, <1>2

\* The effect of a change of state on the fields of each row.
LEMMA SetStateFields ==
  ASSUME ClientTypeOK, NEW S, NEW state, SetState(S, state), NEW i \in Id
  PROVE  /\ job'[i].idempotency_key = job[i].idempotency_key
         /\ job'[i].unique_key = job[i].unique_key
         /\ job'[i].state = IF i \in S THEN state ELSE job[i].state
<1>1. job[i] \in Row
  BY DEF ClientTypeOK
<1>2. job'[i] = IF i \in S THEN [job[i] EXCEPT !.state = state] ELSE job[i]
  BY DEF SetState
<1> QED BY <1>1, <1>2 DEF Row

\* An insert puts in what clashes neither with a row nor within the statement.
LEMMA InsertKeepsKeys ==
  ASSUME KeyInv, NEW p \in Producer, NEW items \in Seq(Item), NEW S, insertJobs(p, items, S)
  PROVE  FreshIds' /\ OneJobPerKey'
<1> DEFINE In(i) == i - last \in S
<1>1. /\ Len(items) \in Nat /\ DOMAIN items = 1..Len(items) /\ S \subseteq 1..Len(items)
      /\ last \in Nat /\ last' = last + Len(items) /\ \A i \in Id : i \in Nat
  BY ClientAssumptions DEF insertJobs, KeyInv, ClientTypeOK, Id
<1>2. ASSUME NEW i \in Id, In(i)
      PROVE  /\ job'[i].state = "available"
             /\ job'[i].idempotency_key = items[i - last].idempotencyKey
             /\ job'[i].unique_key = items[i - last].uniqueKey
             /\ i - last \in DOMAIN items
             /\ i <= last'
  BY <1>1, <1>2 DEF insertJobs
<1>3. ASSUME NEW i \in Id, ~In(i)
      PROVE  job'[i] = job[i]
  BY <1>3 DEF insertJobs
<1>4. FreshIds'
  BY <1>1, <1>2, <1>3 DEF FreshIds, KeyInv
<1>5. ASSUME NEW i \in Id, In(i), NEW k \in Id, ~In(k)
      PROVE  ~InTheWay(k, items[i - last])
  BY <1>2, <1>5 DEF insertJobs, Accepted
<1>6. ASSUME NEW i \in Id, In(i), NEW k \in Id, In(k), i # k
      PROVE  ~Clash(items[i - last], items[k - last])
  <2>1. i - last \in DOMAIN items /\ k - last \in DOMAIN items
    BY <1>2, <1>6
  <2>2. CASE i - last < k - last
    BY <1>6, <2>1, <2>2 DEF insertJobs, Accepted
  <2>3. CASE k - last < i - last
    BY <1>6, <2>1, <2>3 DEF insertJobs, Accepted, Clash
  <2> QED BY <1>1, <1>6, <2>1, <2>2, <2>3
<1>7. ASSUME NEW i \in Id, NEW k \in Id, i # k
      PROVE  /\ Stored(i)' /\ Stored(k)' /\ job'[i].idempotency_key = job'[k].idempotency_key
                => job'[i].idempotency_key = NoKey
             /\ job'[i].state \in Live /\ job'[k].state \in Live /\ job'[i].unique_key = job'[k].unique_key
                => job'[i].unique_key = NoKey
  <2> HIDE DEF In
  <2>1. CASE In(i) /\ In(k)
    BY <1>2, <1>6, <1>7, <2>1 DEF Clash
  <2>2. CASE In(i) /\ ~In(k)
    BY <1>2, <1>3, <1>5, <2>2 DEF InTheWay, HoldsKey, HoldsUniqueKey, Stored
  <2>3. CASE ~In(i) /\ In(k)
    BY <1>2, <1>3, <1>5, <2>3 DEF InTheWay, HoldsKey, HoldsUniqueKey, Stored
  <2>4. CASE ~In(i) /\ ~In(k)
    BY <1>3, <1>7, <2>4 DEF KeyInv, OneJobPerKey, HoldsKey, HoldsUniqueKey, Stored
  <2> QED BY <2>1, <2>2, <2>3, <2>4
<1>8. OneJobPerKey'
  BY <1>7 DEF OneJobPerKey, HoldsKey, HoldsUniqueKey
<1> QED BY <1>4, <1>8

\* A replay takes back the keys of a whole set of rows, or of none.
LEMMA ReplayKeepsKeys ==
  ASSUME KeyInv, NEW o \in Operator, NEW R \in SUBSET Id, NEW onNone, Replay(o, R, onNone)
  PROVE  FreshIds' /\ OneJobPerKey'
<1> DEFINE D == DeadOf(R)
<1>1. /\ Replayable(D) /\ SetState(D, "available") /\ last' = last
      /\ \A i \in D : job[i].state = "dead"
  BY DEF Replay, DeadOf
<1> HIDE DEF D
<1>2. ASSUME NEW i \in Id
      PROVE  /\ job'[i].idempotency_key = job[i].idempotency_key
             /\ job'[i].unique_key = job[i].unique_key
             /\ job'[i].state = IF i \in D THEN "available" ELSE job[i].state
  BY <1>1, SetStateFields DEF KeyInv
<1>3. \A i \in Id : (Stored(i))' <=> Stored(i)
  BY <1>1, <1>2 DEF Stored, Lifecycle!JobStates, Lifecycle!TerminalStates
<1>4. FreshIds'
  BY <1>1, <1>2 DEF FreshIds, KeyInv
<1>5. ASSUME NEW i \in Id, NEW k \in Id, i # k, job'[i].state \in Live, job'[k].state \in Live,
             job[i].unique_key = job[k].unique_key
      PROVE  job[i].unique_key = NoKey
  <2>1. CASE i \in D
    BY <1>1, <1>2, <1>5, <2>1 DEF Replayable, HoldsUniqueKey, Live
  <2>2. CASE k \in D
    BY <1>1, <1>2, <1>5, <2>2 DEF Replayable, HoldsUniqueKey, Live
  <2>3. CASE i \notin D /\ k \notin D
    BY <1>2, <1>5, <2>3 DEF KeyInv, OneJobPerKey, HoldsUniqueKey
  <2> QED BY <2>1, <2>2, <2>3
<1>6. OneJobPerKey'
  BY <1>2, <1>3, <1>5 DEF KeyInv, OneJobPerKey, HoldsKey, HoldsUniqueKey
<1> QED BY <1>4, <1>6

LEMMA StepKeepsKeys == KeyInv /\ ClientNext => FreshIds' /\ OneJobPerKey'
<1> SUFFICES ASSUME KeyInv, ClientNext PROVE FreshIds' /\ OneJobPerKey'
  OBVIOUS
<1> DEFINE Kept == FreshIds' /\ OneJobPerKey'
<1>s. ClientTypeOK /\ 1..last \subseteq Id
  BY ClientAssumptions DEF KeyInv, ClientTypeOK, Id
<1>1. ASSUME NEW p \in Producer, NEW r \in Item, enqueue(p, r)
      PROVE  Kept
  <2>1. <<r>> \in Seq(Item)
    OBVIOUS
  <2>2. PICK S : insertJobs(p, <<r>>, S)
    BY <1>1 DEF enqueue
  <2> QED BY <2>1, <2>2, InsertKeepsKeys
<1>2. ASSUME NEW p \in Producer, NEW items \in Batches, enqueueBatch(p, items)
      PROVE  Kept
  <2>1. items \in Seq(Item)
    BY ClientAssumptions
  <2>2. PICK S : insertJobs(p, items, S)
    BY <1>2 DEF enqueueBatch
  <2> QED BY <2>1, <2>2, InsertKeepsKeys
<1>3. ASSUME UNCHANGED <<job, last>>
      PROVE  Kept
  BY <1>3, ReleasesKeepKeys DEF Releases, Stored
<1>4. ASSUME NEW o \in Operator, NEW i \in Id, cancel(o, i)
      PROVE  Kept
  <2>1. CASE job[i].state = "available"
    <3>1. SetState({i}, "cancelled") /\ last' = last
      BY <1>4, <2>1 DEF cancel
    <3>2. Releases
      BY <1>s, <2>1, <3>1, SetStateFields
         DEF Releases, Stored, Live, Lifecycle!JobStates, Lifecycle!TerminalStates
    <3> QED BY <3>1, <3>2, ReleasesKeepKeys
  <2>2. CASE job[i].state # "available"
    BY <1>3, <1>4, <2>2 DEF cancel
  <2> QED BY <2>1, <2>2
<1>5. ASSUME NEW o \in Operator, NEW S \in SUBSET Id, NEW onNone, Replay(o, S, onNone)
      PROVE  Kept
  BY <1>5, ReplayKeepsKeys
<1>6. ASSUME NEW i \in Id, Work(i)
      PROVE  Kept
  <2>1. PICK t \in {"available", "running", "succeeded", "dead", "cancelled"} :
          SetState({i}, t) /\ job[i].state \in Live
    BY <1>6 DEF Work, Live, Lifecycle!TRANSITIONS, Lifecycle!Transition
  <2>2. Releases
    BY <1>s, <2>1, SetStateFields
       DEF Releases, Stored, Live, Lifecycle!JobStates, Lifecycle!TerminalStates
  <2> QED BY <1>6, <2>2, ReleasesKeepKeys DEF Work
<1>7. ASSUME NEW i \in Id, Delete(i)
      PROVE  Kept
  <2>1. Releases
    BY <1>s, <1>7, SetStateFields
       DEF Delete, Releases, Stored, Live, Lifecycle!JobStates, Lifecycle!TerminalStates
  <2> QED BY <1>7, <2>1, ReleasesKeepKeys DEF Delete
<1> HIDE DEF Kept
<1>8. Kept
  BY <1>s, <1>1, <1>2, <1>3, <1>4, <1>5, <1>6, <1>7
     DEF ClientNext, findByIdempotencyKey, findByUniqueKey, MapItem, replay, replayMany,
         requestCancel, getJobOrAudit
<1> QED BY <1>8 DEF Kept

\* KeyInv is inductive.
LEMMA KeysInvariant == ClientSpec => []KeyInv
<1>1. ClientInit => KeyInv
  <2>1. ClientInit => FreshIds /\ OneJobPerKey
    BY DEF ClientInit, FreshIds, OneJobPerKey, HoldsKey, HoldsUniqueKey, Stored, NoRow, Live,
       Lifecycle!JobStates, Lifecycle!TerminalStates
  <2> QED BY <2>1, InitIsTyped DEF KeyInv
<1>2. KeyInv /\ ClientNext => KeyInv'
  BY StepIsTyped, StepKeepsKeys DEF KeyInv
<1>3. KeyInv /\ UNCHANGED clientVars => KeyInv'
  BY DEF KeyInv, clientVars, ClientTypeOK, FreshIds, OneJobPerKey, HoldsKey, HoldsUniqueKey, Stored
<1> QED BY <1>1, <1>2, <1>3, PTL DEF ClientSpec

\* However enqueues, batches, replays and the rest of the system interleave, the
\* table never holds two rows that the unique indexes of migrations/001 forbid; in
\* particular ON CONFLICT DO NOTHING and a replay that is all or nothing suffice.
THEOREM KeysAreUnique == ClientSpec => []OneJobPerKey
<1>1. KeyInv => OneJobPerKey
  BY DEF KeyInv
<1> QED BY <1>1, KeysInvariant, PTL

-----------------------------------------------------------------------------
(* Cancellation.                                                           *)

CancelInv == KeyInv /\ CancelledJobNeverRuns

Over == {"cancelled", "deleted"}

\* No step brings back a row that is cancelled or deleted: nobody replays one, and
\* an insert only writes ids that were never used.
LEMMA OverStaysOver ==
  ASSUME KeyInv, ClientNext, NEW i \in Id, job[i].state \in Over
  PROVE  job'[i].state \in Over
<1>s. ClientTypeOK /\ 1..last \subseteq Id
  BY ClientAssumptions DEF KeyInv, ClientTypeOK, Id
<1>1. ASSUME NEW p \in Producer, NEW items \in Seq(Item), NEW S, insertJobs(p, items, S)
      PROVE  job'[i].state \in Over
  <2>1. S \subseteq 1..Len(items) /\ last \in Nat /\ i \in Nat /\ Len(items) \in Nat
    BY <1>s, <1>1, ClientAssumptions DEF insertJobs, ClientTypeOK, Id
  <2>2. i <= last
    BY <2>1 DEF KeyInv, FreshIds, Over
  <2>3. i - last \notin S
    BY <2>1, <2>2
  <2> QED BY <1>1, <2>3 DEF insertJobs
<1>2. ASSUME NEW S, NEW t, SetState(S, t), \A k \in S : job[k].state \notin Over \/ t \in Over
      PROVE  job'[i].state \in Over
  BY <1>s, <1>2, SetStateFields
<1>3. ASSUME job' = job
      PROVE  job'[i].state \in Over
  BY <1>3
<1>4. ASSUME NEW p \in Producer, NEW r \in Item, enqueue(p, r)
      PROVE  job'[i].state \in Over
  <2>1. <<r>> \in Seq(Item)
    OBVIOUS
  <2> QED BY <1>1, <1>4, <2>1 DEF enqueue
<1>5. ASSUME NEW p \in Producer, NEW items \in Batches, enqueueBatch(p, items)
      PROVE  job'[i].state \in Over
  BY <1>1, <1>5, ClientAssumptions DEF enqueueBatch
<1>6. ASSUME NEW o \in Operator, NEW k \in Id, cancel(o, k)
      PROVE  job'[i].state \in Over
  <2>1. CASE job[k].state = "available"
    BY <1>2, <1>6, <2>1 DEF cancel, Over
  <2>2. CASE job[k].state # "available"
    BY <1>3, <1>6, <2>2 DEF cancel
  <2> QED BY <2>1, <2>2
<1>7. ASSUME NEW o \in Operator, NEW S \in SUBSET Id, NEW onNone, Replay(o, S, onNone)
      PROVE  job'[i].state \in Over
  <2>1. \A k \in DeadOf(S) : job[k].state \notin Over
    BY DEF DeadOf, Over
  <2> QED BY <1>2, <1>7, <2>1 DEF Replay
<1>8. ASSUME NEW k \in Id, Work(k)
      PROVE  job'[i].state \in Over
  <2>1. PICK t : SetState({k}, t) /\ job[k].state \in {"available", "running"}
    BY <1>8 DEF Work, Lifecycle!TRANSITIONS, Lifecycle!Transition
  <2> QED BY <1>2, <2>1 DEF Over
<1>9. ASSUME NEW k \in Id, Delete(k)
      PROVE  job'[i].state \in Over
  BY <1>2, <1>9 DEF Delete, Over
<1> QED BY <1>s, <1>3, <1>4, <1>5, <1>6, <1>7, <1>8, <1>9
        DEF ClientNext, findByIdempotencyKey, findByUniqueKey, MapItem, replay, replayMany,
            requestCancel, getJobOrAudit

\* An operator only counts a job as cancelled once its row is.
LEMMA OnlyCancelledAreCounted ==
  ASSUME KeyInv, ClientNext, NEW o \in Operator, NEW i \in admin'[o].cancelled
  PROVE  i \in Id /\ (i \in admin[o].cancelled \/ job'[i].state = "cancelled")
<1>s. ClientTypeOK /\ 1..last \subseteq Id
  BY ClientAssumptions DEF KeyInv, ClientTypeOK, Id
<1>0. i \in Id
  BY <1>s, StepIsTyped DEF ClientTypeOK
<1>1. CASE UNCHANGED admin
  BY <1>0, <1>1
<1>2. ASSUME NEW q \in Operator, NEW at, NEW S, Await(q, at, S)
      PROVE  i \in admin[o].cancelled
  BY <1>s, <1>2 DEF Await, ClientTypeOK
<1>3. ASSUME NEW q \in Operator, NEW k \in Id, cancel(q, k)
      PROVE  i \in admin[o].cancelled \/ job'[i].state = "cancelled"
  <2>1. CASE job[k].state = "available"
    <3>1. job'[k].state = "cancelled"
      BY <1>s, <1>3, <2>1, SetStateFields DEF cancel
    <3>2. i \in admin[o].cancelled \cup {k}
      BY <1>s, <1>3, <2>1 DEF cancel, ClientTypeOK
    <3> QED BY <3>1, <3>2
  <2>2. CASE job[k].state # "available"
    BY <1>2, <1>3, <2>2 DEF cancel
  <2> QED BY <2>1, <2>2
<1>4. ASSUME NEW q \in Operator, NEW S, NEW onNone, Replay(q, S, onNone)
      PROVE  i \in admin[o].cancelled
  BY <1>2, <1>4 DEF Replay, EndCall
<1>5. ASSUME NEW q \in Operator, requestCancel(q) \/ getJobOrAudit(q)
      PROVE  i \in admin[o].cancelled
  BY <1>2, <1>5 DEF requestCancel, getJobOrAudit, EndCall
<1>6. CASE \E p \in Producer : \/ \E r \in Item : enqueue(p, r)
                               \/ findByIdempotencyKey(p) \/ findByUniqueKey(p)
                               \/ \E items \in Batches : enqueueBatch(p, items)
                               \/ MapItem(p)
  BY <1>1, <1>6 DEF enqueue, findByIdempotencyKey, findByUniqueKey, enqueueBatch, MapItem
<1>7. CASE \E k \in Id : Work(k) \/ Delete(k)
  BY <1>1, <1>7 DEF Work, Delete
<1> QED BY <1>s, <1>0, <1>3, <1>4, <1>5, <1>6, <1>7 DEF ClientNext, replay, replayMany

\* What cancel() has cancelled stays so for ever, whatever claims, late reports,
\* replays and enqueues follow, and whether or not the audit insert succeeded.
THEOREM CancellationIsFinal == ClientSpec => []CancelledJobNeverRuns
<1>1. ClientInit => CancelledJobNeverRuns
  BY DEF ClientInit, CancelledJobNeverRuns, NoAction
<1>2. CancelInv /\ ClientNext => CancelledJobNeverRuns'
  <2> SUFFICES ASSUME CancelInv, ClientNext, NEW o \in Operator, NEW i \in admin'[o].cancelled
               PROVE  job'[i].state \in {"cancelled", "deleted"}
    BY DEF CancelledJobNeverRuns
  <2>1. i \in Id /\ (i \in admin[o].cancelled \/ job'[i].state = "cancelled")
    BY OnlyCancelledAreCounted DEF CancelInv
  <2>2. i \in admin[o].cancelled => job[i].state \in Over
    BY DEF CancelInv, CancelledJobNeverRuns, Over
  <2> QED BY <2>1, <2>2, OverStaysOver DEF CancelInv, Over
<1>3. CancelledJobNeverRuns /\ UNCHANGED clientVars => CancelledJobNeverRuns'
  BY DEF CancelledJobNeverRuns, clientVars
<1>4. CancelInv /\ [ClientNext]_clientVars => CancelledJobNeverRuns'
  BY <1>2, <1>3 DEF CancelInv
<1>5. ClientSpec => []KeyInv
  BY KeysInvariant
<1> QED BY <1>1, <1>4, <1>5, PTL DEF ClientSpec, CancelInv

-----------------------------------------------------------------------------
(* Answers.  A producer learns what became of its items from the rows that  *)
(* RETURNING yielded and from reads made later; what makes its conclusions   *)
(* true is that rows keep their keys and ids are never used again.           *)

\* Rows are only inserted with ids that the sequence has handed out.
FreshRows == \A i \in Id : i > last => job[i].origin = <<>>

NothingInserted(p) == \A i \in Id, n \in Nat : job[i].origin # <<p, n>>

Unkeyed(items) == {n \in DOMAIN items : items[n].idempotencyKey = NoKey}

\* The items in S of the producer's batch went in, each with the id that its
\* position gives it after "base"; what is missing conflicted.
Placed(p, base, S) ==
  LET items == enqueuer[p].items
  IN  /\ base + Len(items) <= last
      /\ S \subseteq DOMAIN items
      /\ enqueuer[p].new = {base + m : m \in S}
      /\ \A i \in Id, n \in Nat : job[i].origin = <<p, n>> <=> n \in S /\ i = base + n
      /\ \A m \in S : job[base + m].idempotency_key = items[m].idempotencyKey
      /\ Mappable(items) => Unkeyed(items) \subseteq S

\* What the loop over the items of a batch relies on.
Mapping(p) == /\ Len(enqueuer[p].out) < Len(enqueuer[p].items)
              /\ \E base \in Nat : \E S \in SUBSET Nat : Placed(p, base, S)

CallInv(p) ==
  LET call == enqueuer[p]
  IN  /\ call.at \in {"idle", "findIdem", "findUnique"} => NothingInserted(p) /\ call.out = <<>>
      /\ call.at \in {"findIdem", "findUnique"} => Len(call.items) = 1
      /\ call.at = "map" => Mapping(p)
      /\ \A n \in DOMAIN call.out : call.out[n].id <= last /\ Believable(p, n)

AnswerInv == KeyInv /\ FreshRows /\ \A p \in Producer : CallInv(p)

\* A statement of another call, or of the rest of the system, as p sees it.
Elsewhere(p) ==
  /\ last' \in Nat /\ last <= last'
  /\ \A i \in Id : i <= last => /\ job'[i].origin = job[i].origin
                                /\ job'[i].idempotency_key = job[i].idempotency_key
  /\ \A i \in Id, n \in Nat : i > last => job'[i].origin # <<p, n>>

LEMMA PairIsNotEmpty == \A p, n : <<p, n>> # <<>>
<1> SUFFICES ASSUME NEW p, NEW n, <<p, n>> = <<>> PROVE FALSE
  OBVIOUS
<1>1. Len(<<p, n>>) = 2 /\ Len(<<>>) = 0
  OBVIOUS
<1> QED BY <1>1

\* An insert leaves the rows there are alone and marks those it adds.
LEMMA InsertMarksRows ==
  ASSUME KeyInv, FreshRows, NEW p \in Producer, NEW items \in Seq(Item), NEW S,
         insertJobs(p, items, S)
  PROVE  /\ last' \in Nat /\ last <= last' /\ FreshRows'
         /\ \A i \in Id : i <= last => job'[i] = job[i]
         /\ \A i \in Id : i > last => job'[i].origin = IF i - last \in S THEN <<p, i - last>> ELSE <<>>
<1>1. /\ Len(items) \in Nat /\ DOMAIN items = 1..Len(items) /\ S \subseteq 1..Len(items)
      /\ last \in Nat /\ last' = last + Len(items) /\ \A i \in Id : i \in Nat
  BY ClientAssumptions DEF insertJobs, KeyInv, ClientTypeOK, Id
<1>2. ASSUME NEW i \in Id, i <= last
      PROVE  job'[i] = job[i]
  <2>1. i - last \notin S
    BY <1>1, <1>2
  <2> QED BY <2>1 DEF insertJobs
<1>3. ASSUME NEW i \in Id, i > last
      PROVE  job'[i].origin = IF i - last \in S THEN <<p, i - last>> ELSE <<>>
  BY <1>3 DEF insertJobs, FreshRows
<1>4. ASSUME NEW i \in Id, i > last'
      PROVE  job'[i].origin = <<>>
  <2>1. i > last /\ i - last \notin S
    BY <1>1, <1>4
  <2> QED BY <1>3, <2>1
<1>5. FreshRows'
  BY <1>4 DEF FreshRows
<1>6. last' \in Nat /\ last <= last'
  BY <1>1
<1> QED BY <1>2, <1>3, <1>5, <1>6

\* The same, as the other producers see it.
LEMMA InsertIsElsewhere ==
  ASSUME KeyInv, FreshRows, NEW q \in Producer, NEW items \in Seq(Item), NEW S,
         insertJobs(q, items, S), NEW p \in Producer, p # q
  PROVE  Elsewhere(p)
<1>1. ASSUME NEW i \in Id, NEW n \in Nat, i > last
      PROVE  job'[i].origin # <<p, n>>
  <2>1. job'[i].origin \in {<<q, i - last>>, <<>>}
    BY <1>1, InsertMarksRows
  <2>2. <<q, i - last>> # <<p, n>>
    OBVIOUS
  <2> QED BY <2>1, <2>2, PairIsNotEmpty
<1> QED BY <1>1, InsertMarksRows DEF Elsewhere

LEMMA SetStateIsElsewhere ==
  ASSUME KeyInv, FreshRows, NEW S, NEW state, SetState(S, state), last' = last
  PROVE  FreshRows' /\ \A p \in Producer : Elsewhere(p)
<1>1. ASSUME NEW i \in Id
      PROVE  /\ job'[i].origin = job[i].origin
             /\ job'[i].idempotency_key = job[i].idempotency_key
  <2>1. job[i] \in Row
    BY DEF KeyInv, ClientTypeOK
  <2>2. job'[i] = IF i \in S THEN [job[i] EXCEPT !.state = state] ELSE job[i]
    BY DEF SetState
  <2> QED BY <2>1, <2>2 DEF Row
<1>2. last \in Nat
  BY DEF KeyInv, ClientTypeOK
<1>3. ASSUME NEW p \in Producer, NEW i \in Id, NEW n \in Nat, i > last
      PROVE  job'[i].origin # <<p, n>>
  BY <1>1, <1>3 DEF FreshRows
<1>4. FreshRows'
  BY <1>1 DEF FreshRows
<1> QED BY <1>1, <1>2, <1>3, <1>4 DEF Elsewhere

LEMMA UnchangedIsElsewhere ==
  ASSUME KeyInv, FreshRows, UNCHANGED <<job, last>>
  PROVE  FreshRows' /\ \A p \in Producer : Elsewhere(p)
<1>1. last \in Nat
  BY DEF KeyInv, ClientTypeOK
<1>2. ASSUME NEW p \in Producer, NEW i \in Id, NEW n \in Nat, i > last
      PROVE  job'[i].origin # <<p, n>>
  BY <1>2, PairIsNotEmpty DEF FreshRows
<1>3. FreshRows'
  BY DEF FreshRows
<1> QED BY <1>1, <1>2, <1>3 DEF Elsewhere

\* Nothing that happens elsewhere makes a call's answers or expectations wrong.
LEMMA OtherCallsStand ==
  ASSUME KeyInv, FreshRows, NEW p \in Producer, CallInv(p), Elsewhere(p), enqueuer'[p] = enqueuer[p]
  PROVE  CallInv(p)'
<1>s. /\ ClientTypeOK /\ enqueuer[p] \in Calls /\ last \in Nat /\ last' \in Int /\ last <= last'
      /\ \A i \in Id : i \in Nat
  BY CallIsTyped, ClientAssumptions DEF KeyInv, ClientTypeOK, Id, Elsewhere
<1>1. ASSUME NEW i \in Id, NEW n \in Nat
      PROVE  job'[i].origin = <<p, n>> <=> job[i].origin = <<p, n>>
  <2>1. CASE i <= last
    BY <2>1 DEF Elsewhere
  <2>2. CASE i > last
    BY <2>2, PairIsNotEmpty DEF Elsewhere, FreshRows
  <2> QED BY <1>s, <2>1, <2>2
<1>2. \A n \in Nat : Own(p, n)' = Own(p, n)
  BY <1>1 DEF Own
<1>3. NothingInserted(p) => NothingInserted(p)'
  BY <1>1 DEF NothingInserted
<1>4. ASSUME NEW base \in Nat, NEW S \in SUBSET Nat, Placed(p, base, S)
      PROVE  Placed(p, base, S)'
  <2>1. /\ base + Len(enqueuer[p].items) <= last /\ S \subseteq DOMAIN enqueuer[p].items
        /\ Len(enqueuer[p].items) \in Nat /\ DOMAIN enqueuer[p].items = 1..Len(enqueuer[p].items)
    BY <1>s, <1>4 DEF Placed, Calls
  <2>2. base + Len(enqueuer[p].items) <= last'
    BY <1>s, <2>1
  <2>3. ASSUME NEW m \in S
        PROVE  job'[base + m].idempotency_key = enqueuer[p].items[m].idempotencyKey
    <3>1. base + m <= last
      BY <1>s, <2>1
    <3>2. base + m \in Id
      BY <1>s, <1>4 DEF Placed, Calls
    <3> QED BY <1>4, <3>1, <3>2 DEF Placed, Elsewhere
  <2> QED BY <1>1, <1>4, <2>1, <2>2, <2>3 DEF Placed
<1>5. ASSUME NEW n \in DOMAIN enqueuer[p].out
      PROVE  enqueuer[p].out[n].id <= last' /\ Believable(p, n)'
  <2>1. n \in Nat /\ enqueuer[p].out[n] \in Answer
    BY <1>s DEF Calls
  <2>2. enqueuer[p].out[n].id \in Id \cup {NoId} /\ enqueuer[p].out[n].id \in Nat
    BY <1>s, <2>1 DEF Answer, NoId
  <2>3. enqueuer[p].out[n].id <= last /\ Believable(p, n)
    BY DEF CallInv
  <2>4. enqueuer[p].out[n].id <= last'
    BY <1>s, <2>2, <2>3
  <2>5. enqueuer[p].out[n].id # NoId =>
          job'[enqueuer[p].out[n].id].idempotency_key = job[enqueuer[p].out[n].id].idempotency_key
    BY <2>2, <2>3 DEF Elsewhere
  <2> QED BY <1>2, <2>1, <2>3, <2>4, <2>5 DEF Believable
<1>6. Mapping(p) => Mapping(p)'
  BY <1>4 DEF Mapping
<1>7. enqueuer[p].at \in {"idle", "findIdem", "findUnique"} => NothingInserted(p)' /\ enqueuer[p].out = <<>>
  BY <1>3 DEF CallInv
<1>8. enqueuer[p].at \in {"findIdem", "findUnique"} => Len(enqueuer[p].items) = 1
  BY DEF CallInv
<1>9. enqueuer[p].at = "map" => Mapping(p)'
  BY <1>6 DEF CallInv
<1> QED BY <1>5, <1>7, <1>8, <1>9 DEF CallInv

-----------------------------------------------------------------------------
(* Which returned row the loop over a batch picks.                          *)

\* The positions of the items without a key, up to the n-th.
UpTo(items, n) == {m \in 1..n : items[m].idempotencyKey = NoKey}

LEMMA UpToIsFinite ==
  ASSUME NEW items, NEW n \in Nat
  PROVE  IsFiniteSet(UpTo(items, n)) /\ UpTo(items, n) \subseteq Nat
<1>1. UpTo(items, n) \in SUBSET (1..n) /\ IsFiniteSet(1..n)
  BY FS_Interval DEF UpTo
<1> QED BY <1>1, FS_Subset

\* Counting up to it tells two items without a key apart.
LEMMA PositionsDiffer ==
  ASSUME NEW items \in Seq(Item), NEW m \in Unkeyed(items), NEW n \in Unkeyed(items), m < n
  PROVE  Cardinality(UpTo(items, m)) # Cardinality(UpTo(items, n))
<1>1. m \in Nat /\ n \in Nat /\ m \in 1..m /\ n \in 1..n /\ n \notin 1..m /\ 1..m \subseteq 1..n
  BY DEF Unkeyed
<1>2. n \in UpTo(items, n) /\ n \notin UpTo(items, m) /\ UpTo(items, m) \subseteq UpTo(items, n)
  BY <1>1 DEF UpTo, Unkeyed
<1> QED BY <1>1, <1>2, UpToIsFinite, FS_Subset

\* A set of ids counts as many as the set of positions it comes from.
LEMMA ShiftedSet ==
  ASSUME NEW A \in SUBSET Nat, IsFiniteSet(A), NEW base \in Nat
  PROVE  Cardinality({base + y : y \in A}) = Cardinality(A)
<1> DEFINE T == {base + y : y \in A}
           f == [y \in A |-> base + y]
<1>1. f \in [A -> T] /\ \A t \in T : \E y \in A : f[y] = t
  OBVIOUS
<1>2. \A x, y \in A : f[x] = f[y] => x = y
  OBVIOUS
<1>3. f \in Bijection(A, T)
  BY <1>1, <1>2 DEF Bijection, Injection, Surjection, IsInjective
<1> QED BY <1>3, FS_Bijection DEF ExistsBijection

\* If every item without a key went in, the rows without a key are in the order of
\* the items they are for.
LEMMA UnkeyedByPosition ==
  ASSUME ClientTypeOK, NEW p \in Producer, NEW base \in Nat, NEW S \in SUBSET Nat,
         Placed(p, base, S), Mappable(enqueuer[p].items), NEW n \in Unkeyed(enqueuer[p].items),
         NEW i \in Id
  PROVE  MapsTo(enqueuer[p], n, i) <=> i = base + n
<1> DEFINE items == enqueuer[p].items
           new == enqueuer[p].new
<1>s. /\ items \in Seq(Item) /\ new \subseteq Id /\ Len(items) \in Nat
      /\ DOMAIN items = 1..Len(items) /\ Id \subseteq Nat
  BY CallIsTyped, ClientAssumptions DEF Calls, Id
<1>1. /\ new = {base + m : m \in S} /\ S \subseteq DOMAIN items /\ Unkeyed(items) \subseteq S
      /\ \A m \in S : job[base + m].idempotency_key = items[m].idempotencyKey
  BY DEF Placed
<1>n. n \in DOMAIN items /\ n \in S /\ n \in Nat /\ items[n].idempotencyKey = NoKey
  BY <1>s, <1>1 DEF Unkeyed
<1> DEFINE upTo(k) == {u \in new : u <= k /\ job[u].idempotency_key = NoKey}
<1>2. ASSUME NEW m \in Unkeyed(items)
      PROVE  Cardinality(upTo(base + m)) = Cardinality(UpTo(items, m))
  <2>1. m \in 1..Len(items) /\ m \in Nat
    BY <1>s DEF Unkeyed
  <2>2. ASSUME NEW u \in upTo(base + m)
        PROVE  u \in {base + y : y \in UpTo(items, m)}
    <3>1. PICK y \in S : u = base + y
      BY <1>1
    <3>2. y \in 1..m /\ items[y].idempotencyKey = NoKey
      BY <1>s, <1>1, <2>1, <3>1
    <3> QED BY <3>1, <3>2 DEF UpTo
  <2>3. ASSUME NEW y \in UpTo(items, m)
        PROVE  base + y \in upTo(base + m)
    <3>1. y \in 1..m /\ items[y].idempotencyKey = NoKey /\ y \in Nat
      BY DEF UpTo
    <3>2. y \in Unkeyed(items)
      BY <1>s, <2>1, <3>1 DEF Unkeyed
    <3>3. base + y <= base + m
      BY <2>1, <3>1
    <3> QED BY <1>1, <3>1, <3>2, <3>3
  <2>4. upTo(base + m) = {base + y : y \in UpTo(items, m)}
    BY <2>2, <2>3
  <2> HIDE DEF upTo
  <2> QED BY <2>1, <2>4, UpToIsFinite, ShiftedSet
<1>3. MapsTo(enqueuer[p], n, i) <=>
        /\ i \in new /\ job[i].idempotency_key = NoKey
        /\ Cardinality(upTo(i)) = Cardinality(UpTo(items, n))
  BY <1>n DEF MapsTo, UpTo
<1> HIDE DEF upTo
<1>4. ASSUME i = base + n
      PROVE  MapsTo(enqueuer[p], n, i)
  BY <1>1, <1>2, <1>3, <1>4, <1>n
<1>5. ASSUME MapsTo(enqueuer[p], n, i)
      PROVE  i = base + n
  <2>1. PICK m \in S : i = base + m
    BY <1>1, <1>3, <1>5
  <2>2. m \in Unkeyed(items) /\ m \in Nat
    BY <1>1, <1>3, <1>5, <1>s, <2>1 DEF Unkeyed
  <2>3. Cardinality(UpTo(items, m)) = Cardinality(UpTo(items, n))
    BY <1>2, <1>3, <1>5, <2>1, <2>2
  <2>4. ~(m < n) /\ ~(n < m)
    BY <1>s, <2>2, <2>3, PositionsDiffer
  <2> QED BY <1>n, <2>1, <2>2, <2>4
<1> QED BY <1>4, <1>5

\* An item with a key is given a row of that key that came from this batch.
LEMMA KeyedByKey ==
  ASSUME ClientTypeOK, NEW p \in Producer, NEW base \in Nat, NEW S \in SUBSET Nat,
         Placed(p, base, S), NEW n \in DOMAIN enqueuer[p].items,
         enqueuer[p].items[n].idempotencyKey # NoKey, NEW i \in Id
  PROVE  MapsTo(enqueuer[p], n, i) <=>
           \E m \in S : /\ i = base + m
                        /\ enqueuer[p].items[m].idempotencyKey = enqueuer[p].items[n].idempotencyKey
<1>1. MapsTo(enqueuer[p], n, i) <=>
        i \in enqueuer[p].new /\ job[i].idempotency_key = enqueuer[p].items[n].idempotencyKey
  BY DEF MapsTo
<1> QED BY <1>1 DEF Placed

-----------------------------------------------------------------------------
(* Each statement of a producer's call.                                     *)

\* A call whose connection is gone answers nothing.
LEMMA FailedCall ==
  ASSUME NEW p \in Producer, enqueuer'[p] = [NoCall EXCEPT !.at = "failed"]
  PROVE  CallInv(p)'
<1>1. enqueuer'[p].at = "failed" /\ enqueuer'[p].out = <<>>
  BY DEF NoCall
<1> QED BY <1>1 DEF CallInv

\* What enqueue answers, or leaves to the reads.
LEMMA AnsweredOnce ==
  ASSUME NEW p \in Producer, NEW items, NEW kind, NEW id,
         enqueuer'[p].at = "answered", enqueuer'[p].items = items,
         enqueuer'[p].out = <<[kind |-> kind, id |-> id]>>,
         (id <= last)', Len(items) = 1,
         kind = "created" => Own(p, 1)' = {id},
         kind # "created" => Own(p, 1)' = {},
         kind = "deduplicated" => job'[id].idempotency_key = items[1].idempotencyKey
  PROVE  CallInv(p)'
<1>1. DOMAIN enqueuer'[p].out = {1} /\ enqueuer'[p].out[1] = [kind |-> kind, id |-> id]
  OBVIOUS
<1>2. enqueuer'[p].out[1].kind = kind /\ enqueuer'[p].out[1].id = id
  BY <1>1
<1>3. Believable(p, 1)'
  BY <1>2 DEF Believable
<1> QED BY <1>1, <1>2, <1>3 DEF CallInv

LEMMA EnqueueAnswers ==
  ASSUME KeyInv, FreshRows, NEW p \in Producer, CallInv(p), NEW r \in Item, enqueue(p, r)
  PROVE  CallInv(p)'
<1> DEFINE call == [NoCall EXCEPT !.items = <<r>>]
           asked == [call EXCEPT !.at = IF r.idempotencyKey # NoKey THEN "findIdem" ELSE "findUnique"]
           told == Respond(call, "created", last + 1)
<1>1. PICK S \in SUBSET {1} :
        insertJobs(p, <<r>>, S) /\ OrFails(p, IF S # {} THEN told ELSE asked)
  BY DEF enqueue
<1>2. <<r>> \in Seq(Item) /\ Len(<<r>>) = 1 /\ last \in Nat /\ last' = last + 1
  BY <1>1 DEF KeyInv, ClientTypeOK, insertJobs
<1>3. enqueuer'[p] = (IF S # {} THEN told ELSE asked) \/ enqueuer'[p] = [NoCall EXCEPT !.at = "failed"]
  BY <1>1 DEF OrFails, GoOn, KeyInv, ClientTypeOK
<1>4. NothingInserted(p)
  BY DEF enqueue, CallInv
<1>5. ASSUME NEW i \in Id, NEW n \in Nat
      PROVE  job'[i].origin = <<p, n>> <=> n \in S /\ i = last + n
  <2>1. CASE i <= last
    <3>1. job'[i].origin # <<p, n>>
      BY <1>1, <1>2, <1>4, <2>1, InsertMarksRows DEF NothingInserted
    <3>2. n \in S => i # last + n
      BY <1>2, <2>1
    <3> QED BY <3>1, <3>2
  <2>2. CASE i > last
    <3>1. job'[i].origin = IF i - last \in S THEN <<p, i - last>> ELSE <<>>
      BY <1>1, <1>2, <2>2, InsertMarksRows
    <3>2. <<p, i - last>> = <<p, n>> <=> i = last + n
      <4>1. i \in Nat
        BY ClientAssumptions DEF Id
      <4>2. <<p, i - last>> = <<p, n>> <=> i - last = n
        OBVIOUS
      <4> QED BY <1>2, <4>1, <4>2
    <3>3. <<p, n>> # <<>>
      BY PairIsNotEmpty
    <3>4. i = last + n => i - last = n
      BY <1>2
    <3> QED BY <3>1, <3>2, <3>3, <3>4
  <2>3. i \in Nat
    BY ClientAssumptions DEF Id
  <2> QED BY <1>2, <2>1, <2>2, <2>3
<1>6. last + 1 \in Id
  BY <1>1, <1>2, ClientAssumptions DEF insertJobs, Id
<1>7. CASE S # {} /\ enqueuer'[p] = told
  <2>1. /\ told.at = "answered" /\ told.items = <<r>>
        /\ told.out = <<[kind |-> "created", id |-> last + 1]>>
    BY DEF Respond, NoCall
  <2>2. PICK id \in Nat : id = last + 1
    BY <1>2
  <2>3. Own(p, 1)' = {id}
    BY <1>5, <1>6, <1>7, <2>2 DEF Own
  <2>4. /\ enqueuer'[p].at = "answered" /\ enqueuer'[p].items = <<r>>
        /\ enqueuer'[p].out = <<[kind |-> "created", id |-> id]>>
    BY <1>7, <2>1, <2>2
  <2>5. (id <= last)'
    BY <1>2, <2>2
  <2> QED BY <1>2, <2>3, <2>4, <2>5, AnsweredOnce
<1>8. CASE S = {} /\ enqueuer'[p] = asked
  <2>1. /\ enqueuer'[p].at \in {"findIdem", "findUnique"} /\ enqueuer'[p].items = <<r>>
        /\ enqueuer'[p].out = <<>>
    BY <1>8 DEF NoCall
  <2>2. NothingInserted(p)'
    BY <1>5, <1>8 DEF NothingInserted
  <2> QED BY <1>2, <2>1, <2>2 DEF CallInv
<1> HIDE DEF told, asked
<1> QED BY <1>3, <1>7, <1>8, FailedCall

\* A producer that reads has inserted nothing, and what it finds it may report.
LEMMA ReadAnswers ==
  ASSUME KeyInv, NEW p \in Producer, CallInv(p), NEW id \in Id \cup {NoId},
         enqueuer[p].at \in {"findIdem", "findUnique"}, UNCHANGED <<job, last>>,
         NEW kind \in {"deduplicated", "debounced", "unknown"},
         OrFails(p, Respond(enqueuer[p], kind, id)),
         id # NoId => Stored(id),
         kind = "deduplicated" => job[id].idempotency_key = enqueuer[p].items[1].idempotencyKey
  PROVE  CallInv(p)'
<1>1. CASE GoOn(p, [NoCall EXCEPT !.at = "failed"])
  <2>1. enqueuer'[p] = [NoCall EXCEPT !.at = "failed"]
    BY <1>1 DEF GoOn, KeyInv, ClientTypeOK
  <2> QED BY <2>1, FailedCall
<1>2. CASE GoOn(p, Respond(enqueuer[p], kind, id))
  <2>1. enqueuer[p] \in Calls /\ enqueuer'[p] = Respond(enqueuer[p], kind, id)
    BY <1>2, CallIsTyped DEF GoOn, KeyInv, ClientTypeOK
  <2>2. /\ enqueuer'[p].at = "answered" /\ enqueuer'[p].items = enqueuer[p].items
        /\ enqueuer'[p].out = <<[kind |-> kind, id |-> id]>>
    BY <2>1 DEF Respond, Calls
  <2>3. id <= last
    <3>1. last \in Nat /\ Id \subseteq Nat
      BY ClientAssumptions DEF KeyInv, ClientTypeOK, Id
    <3>2. CASE id = NoId
      BY <3>1, <3>2 DEF NoId
    <3>3. CASE id # NoId
      BY <3>1, <3>3 DEF KeyInv, FreshIds, Stored, Lifecycle!JobStates, Lifecycle!TerminalStates
    <3> QED BY <3>2, <3>3
  <2>4. Own(p, 1)' = {}
    BY DEF CallInv, NothingInserted, Own
  <2>5. Len(enqueuer[p].items) = 1
    BY DEF CallInv
  <2> QED BY <2>2, <2>3, <2>4, <2>5, AnsweredOnce
<1> QED BY <1>1, <1>2 DEF OrFails

LEMMA FindByIdempotencyKeyAnswers ==
  ASSUME KeyInv, NEW p \in Producer, CallInv(p), findByIdempotencyKey(p)
  PROVE  CallInv(p)'
<1> DEFINE r == enqueuer[p].items[1]
           next == [enqueuer[p] EXCEPT !.at = "findUnique"]
<1>1. enqueuer[p].at = "findIdem" /\ UNCHANGED <<job, last>>
  BY DEF findByIdempotencyKey
<1>2. CASE \E i \in Id : /\ HoldsKey(i, r.idempotencyKey)
                         /\ OrFails(p, Respond(enqueuer[p], "deduplicated", i))
  <2>1. PICK i \in Id : /\ HoldsKey(i, r.idempotencyKey)
                        /\ OrFails(p, Respond(enqueuer[p], "deduplicated", i))
    BY <1>2
  <2> QED BY <1>1, <2>1, ReadAnswers DEF HoldsKey
<1>3. CASE OrFails(p, Respond(enqueuer[p], "unknown", NoId))
  BY <1>1, <1>3, ReadAnswers
<1>4. CASE OrFails(p, next)
  <2>1. enqueuer[p] \in Calls /\ (enqueuer'[p] = next \/ enqueuer'[p] = [NoCall EXCEPT !.at = "failed"])
    BY <1>4, CallIsTyped DEF OrFails, GoOn, KeyInv, ClientTypeOK
  <2>2. CASE enqueuer'[p] = next
    <3>1. /\ enqueuer'[p].at = "findUnique" /\ enqueuer'[p].items = enqueuer[p].items
          /\ enqueuer'[p].out = enqueuer[p].out
      BY <2>1, <2>2 DEF Calls
    <3>2. NothingInserted(p)' /\ enqueuer[p].out = <<>> /\ Len(enqueuer[p].items) = 1
      BY <1>1 DEF CallInv, NothingInserted
    <3> QED BY <3>1, <3>2 DEF CallInv
  <2> QED BY <2>1, <2>2, FailedCall
<1> QED BY <1>2, <1>3, <1>4 DEF findByIdempotencyKey

LEMMA FindByUniqueKeyAnswers ==
  ASSUME KeyInv, NEW p \in Producer, CallInv(p), findByUniqueKey(p)
  PROVE  CallInv(p)'
<1>1. enqueuer[p].at = "findUnique" /\ UNCHANGED <<job, last>>
  BY DEF findByUniqueKey
<1>2. CASE OrFails(p, Respond(enqueuer[p], "unknown", NoId))
  BY <1>1, <1>2, ReadAnswers
<1>3. ASSUME NEW i \in Id, HoldsUniqueKey(i, enqueuer[p].items[1].uniqueKey),
             OrFails(p, Respond(enqueuer[p], "debounced", i))
      PROVE  CallInv(p)'
  <2>1. Stored(i)
    BY <1>3 DEF HoldsUniqueKey, Live, Stored, Lifecycle!JobStates
  <2> QED BY <1>1, <1>3, <2>1, ReadAnswers
<1> QED BY <1>2, <1>3 DEF findByUniqueKey

LEMMA EnqueueBatchAnswers ==
  ASSUME KeyInv, FreshRows, NEW p \in Producer, CallInv(p), NEW items \in Batches,
         enqueueBatch(p, items)
  PROVE  CallInv(p)'
<1>1. items \in Seq(Item) /\ items # <<>>
  BY ClientAssumptions DEF enqueueBatch
<1> DEFINE sent(S) == [NoCall EXCEPT !.at = "map", !.items = items, !.new = {last + n : n \in S}]
<1>2. PICK S \in SUBSET DOMAIN items : insertJobs(p, items, S) /\ OrFails(p, sent(S))
  BY DEF enqueueBatch
<1>3. enqueuer'[p] = sent(S) \/ enqueuer'[p] = [NoCall EXCEPT !.at = "failed"]
  BY <1>2 DEF OrFails, GoOn, KeyInv, ClientTypeOK
<1>4. CASE enqueuer'[p] = sent(S)
  <2>1. /\ enqueuer'[p].at = "map" /\ enqueuer'[p].items = items /\ enqueuer'[p].out = <<>>
        /\ enqueuer'[p].new = {last + n : n \in S}
    BY <1>4 DEF NoCall
  <2>s. /\ last \in Nat /\ last' = last + Len(items) /\ Len(items) \in Nat /\ 0 < Len(items)
        /\ DOMAIN items = 1..Len(items) /\ \A i \in Id : i \in Nat
    BY <1>1, <1>2, ClientAssumptions DEF KeyInv, ClientTypeOK, insertJobs, Id
  <2>2. ASSUME NEW i \in Id, NEW n \in Nat
        PROVE  job'[i].origin = <<p, n>> <=> n \in S /\ i = last + n
    <3>1. CASE i <= last
      <4>1. job'[i].origin # <<p, n>>
        BY <1>1, <1>2, <3>1, InsertMarksRows DEF CallInv, NothingInserted, enqueueBatch
      <4>2. n \in S => i # last + n
        BY <2>s, <3>1
      <4> QED BY <4>1, <4>2
    <3>2. CASE i > last
      <4>1. job'[i].origin = IF i - last \in S THEN <<p, i - last>> ELSE <<>>
        BY <1>1, <1>2, <3>2, InsertMarksRows
      <4>2. <<p, i - last>> = <<p, n>> <=> i - last = n
        OBVIOUS
      <4>3. i - last = n <=> i = last + n
        BY <2>s
      <4>4. <<p, n>> # <<>>
        BY PairIsNotEmpty
      <4> QED BY <4>1, <4>2, <4>3, <4>4
    <3> QED BY <2>s, <3>1, <3>2
  <2>3. ASSUME NEW m \in S
        PROVE  job'[last + m].idempotency_key = items[m].idempotencyKey
    <3>1. m \in 1..Len(items) /\ last + m \in Id /\ (last + m) - last = m
      BY <1>2, <2>s, ClientAssumptions DEF insertJobs, Id
    <3> QED BY <1>2, <3>1 DEF insertJobs
  <2>4. Mappable(items) => Unkeyed(items) \subseteq S
    BY <1>2 DEF Mappable, Unkeyed, insertJobs, Accepted, InTheWay, HoldsKey, HoldsUniqueKey, Clash
  <2>5. PICK base \in Nat : base = last
    BY <2>s
  <2>6. Placed(p, base, S)'
    BY <1>2, <2>1, <2>s, <2>2, <2>3, <2>4, <2>5 DEF Placed
  <2>7. S \in SUBSET Nat
    BY <2>s
  <2> QED BY <2>1, <2>s, <2>6, <2>7 DEF CallInv, Mapping
<1> QED BY <1>3, <1>4, FailedCall

\* One more answer of a batch; the earlier ones stand.
LEMMA NextAnswer ==
  ASSUME KeyInv, NEW p \in Producer, CallInv(p), enqueuer[p].at = "map", UNCHANGED <<job, last>>,
         NEW n \in Nat, n = Len(enqueuer[p].out) + 1,
         NEW kind \in {"created", "deduplicated"}, NEW id \in Id \cup {NoId}, id <= last,
         enqueuer'[p] = [enqueuer[p] EXCEPT !.out = Append(@, [kind |-> kind, id |-> id]),
                                            !.at = IF n = Len(enqueuer[p].items) THEN "answered" ELSE "map"],
         kind = "created" =>
           (Mappable(enqueuer[p].items) \/ (Len(enqueuer[p].items) = 1 /\ id # NoId) => Own(p, n) = {id}),
         kind = "deduplicated" =>
           /\ Own(p, n) = {}
           /\ id # NoId => job[id].idempotency_key = enqueuer[p].items[n].idempotencyKey
  PROVE  CallInv(p)'
<1> DEFINE items == enqueuer[p].items
           out == enqueuer[p].out
           a == [kind |-> kind, id |-> id]
<1>s. enqueuer[p] \in Calls /\ out \in Seq(Answer) /\ items \in Seq(Item) /\ Len(items) \in Nat
  BY CallIsTyped DEF Calls, KeyInv
<1>1. /\ enqueuer'[p].out = Append(out, a) /\ enqueuer'[p].items = items
      /\ enqueuer'[p].new = enqueuer[p].new
      /\ enqueuer'[p].at = IF n = Len(items) THEN "answered" ELSE "map"
  BY <1>s DEF Calls
<1>2. a \in Answer /\ a.kind = kind /\ a.id = id
  BY DEF Answer
<1> HIDE DEF a
<1>3. /\ Len(enqueuer'[p].out) = n /\ DOMAIN enqueuer'[p].out = 1..n
      /\ enqueuer'[p].out[n] = a
      /\ \A k \in 1..n : k # n => k \in DOMAIN out /\ enqueuer'[p].out[k] = out[k]
  BY <1>s, <1>1, <1>2
<1>4. Len(out) < Len(items) /\ \E base \in Nat : \E S \in SUBSET Nat : Placed(p, base, S)
  BY DEF CallInv, Mapping
<1>5. ASSUME NEW base \in Nat, NEW S \in SUBSET Nat, Placed(p, base, S)
      PROVE  Placed(p, base, S)'
  BY <1>1, <1>5 DEF Placed
<1>6. enqueuer'[p].at = "map" => Mapping(p)'
  BY <1>s, <1>1, <1>3, <1>4, <1>5 DEF Mapping
<1>7. \A k \in Nat : Own(p, k)' = Own(p, k)
  BY DEF Own
<1>8. ASSUME NEW k \in 1..n, k # n
      PROVE  enqueuer'[p].out[k].id <= last' /\ Believable(p, k)'
  <2>1. out[k].id <= last /\ Believable(p, k) /\ enqueuer'[p].out[k] = out[k]
    BY <1>3, <1>8 DEF CallInv
  <2> QED BY <1>1, <1>7, <2>1 DEF Believable
<1>9. enqueuer'[p].out[n].id <= last' /\ Believable(p, n)'
  BY <1>1, <1>2, <1>3, <1>7 DEF Believable
<1>10. \A k \in DOMAIN enqueuer'[p].out : enqueuer'[p].out[k].id <= last' /\ Believable(p, k)'
  BY <1>3, <1>8, <1>9
<1>11. enqueuer'[p].at \in {"map", "answered"}
  BY <1>1
<1> QED BY <1>6, <1>10, <1>11 DEF CallInv

LEMMA MapItemAnswers ==
  ASSUME KeyInv, NEW p \in Producer, CallInv(p), MapItem(p)
  PROVE  CallInv(p)'
<1> DEFINE items == enqueuer[p].items
           key(n) == items[n].idempotencyKey
           put(n, kind, id) == [enqueuer[p] EXCEPT !.out = Append(@, [kind |-> kind, id |-> id]),
                                                   !.at = IF n = Len(items) THEN "answered" ELSE "map"]
<1>s. /\ ClientTypeOK /\ enqueuer[p] \in Calls /\ items \in Seq(Item) /\ Len(items) \in Nat
      /\ DOMAIN items = 1..Len(items) /\ Len(enqueuer[p].out) \in Nat
      /\ last \in Nat /\ Id \subseteq Nat /\ NoId \notin Id
  BY CallIsTyped, ClientAssumptions DEF Calls, KeyInv, ClientTypeOK, Id, NoId
<1>1. enqueuer[p].at = "map" /\ UNCHANGED <<job, last>> /\ Mapping(p)
  BY DEF MapItem, CallInv
<1>2. PICK n \in Nat : n = Len(enqueuer[p].out) + 1
  BY <1>s
<1>3. n \in DOMAIN items
  BY <1>s, <1>1, <1>2 DEF Mapping
<1>4. PICK base \in Nat, S \in SUBSET Nat : Placed(p, base, S)
  BY <1>1 DEF Mapping
<1>5. /\ S \subseteq DOMAIN items /\ enqueuer[p].new = {base + m : m \in S} /\ enqueuer[p].new \subseteq Id
      /\ base + Len(items) <= last /\ (Mappable(items) => Unkeyed(items) \subseteq S)
  BY <1>s, <1>4 DEF Placed, Calls
<1>6. /\ n \in S => base + n \in Id /\ Own(p, n) = {base + n}
      /\ n \notin S => Own(p, n) = {}
  BY <1>4, <1>5 DEF Own, Placed
<1>7. ASSUME NEW kind \in {"created", "deduplicated"}, NEW id \in Id \cup {NoId}, id <= last,
             OrFails(p, put(n, kind, id)) \/ GoOn(p, put(n, kind, id)),
             kind = "created" =>
               (Mappable(items) \/ (Len(items) = 1 /\ id # NoId) => Own(p, n) = {id}),
             kind = "deduplicated" => Own(p, n) = {} /\ (id # NoId => job[id].idempotency_key = key(n))
      PROVE  CallInv(p)'
  <2>1. enqueuer'[p] = put(n, kind, id) \/ enqueuer'[p] = [NoCall EXCEPT !.at = "failed"]
    BY <1>s, <1>7 DEF OrFails, GoOn, ClientTypeOK
  <2> QED BY <1>1, <1>2, <1>7, <2>1, FailedCall, NextAnswer
<1> HIDE DEF put
\* A row of the batch is found.
<1>8. ASSUME NEW i \in Id, MapsTo(enqueuer[p], n, i), GoOn(p, put(n, "created", i))
      PROVE  CallInv(p)'
  <2>1. PICK m \in S : i = base + m /\ m \in 1..Len(items)
    BY <1>s, <1>5, <1>8 DEF MapsTo
  <2>2. i <= last
    BY <1>s, <1>5, <2>1
  <2>3. ASSUME Mappable(items)
        PROVE  i = base + n /\ n \in S
    <3>1. CASE key(n) = NoKey
      <4>1. n \in Unkeyed(items)
        BY <1>3, <3>1 DEF Unkeyed
      <4> QED BY <1>s, <1>4, <1>5, <1>8, <2>3, <4>1, UnkeyedByPosition
    <3>2. CASE key(n) # NoKey
      <4>0. \E k \in S : i = base + k /\ enqueuer[p].items[k].idempotencyKey = enqueuer[p].items[n].idempotencyKey
        <5>1. n \in DOMAIN enqueuer[p].items /\ enqueuer[p].items[n].idempotencyKey # NoKey
          BY <1>3, <3>2
        <5>2. ClientTypeOK
          BY <1>s
        <5> QED BY <1>4, <1>8, <5>1, <5>2, KeyedByKey
      <4>1. PICK k \in S : i = base + k /\ key(k) = key(n)
        BY <4>0
      <4>2. k = n
        BY <1>3, <1>5, <2>3, <3>2, <4>1 DEF Mappable
      <4> QED BY <4>1, <4>2
    <3> QED BY <3>1, <3>2
  <2>4. ASSUME Len(items) = 1
        PROVE  i = base + n /\ n \in S
    BY <1>s, <1>3, <2>1, <2>4
  <2>5. Mappable(items) \/ (Len(items) = 1 /\ i # NoId) => Own(p, n) = {i}
    BY <1>6, <2>3, <2>4
  <2> QED BY <1>7, <1>8, <2>2, <2>5
\* An item without a key has no row.
<1>9. ASSUME \A i \in Id : ~MapsTo(enqueuer[p], n, i), key(n) = NoKey, GoOn(p, put(n, "created", NoId))
      PROVE  CallInv(p)'
  <2>1. ~Mappable(items)
    <3> SUFFICES ASSUME Mappable(items) PROVE FALSE
      OBVIOUS
    <3>1. n \in Unkeyed(items) /\ n \in S
      BY <1>3, <1>5, <1>9 DEF Unkeyed
    <3>2. base + n \in Id
      BY <1>6, <3>1
    <3> QED BY <1>s, <1>4, <1>9, <3>1, <3>2, UnkeyedByPosition
  <2>2. NoId <= last
    BY <1>s DEF NoId
  <2> QED BY <1>7, <1>9, <2>1, <2>2
\* Its key was taken.
<1>10. ASSUME \A i \in Id : ~MapsTo(enqueuer[p], n, i), key(n) # NoKey, NEW id \in Id \cup {NoId},
              id # NoId => HoldsKey(id, key(n)), OrFails(p, put(n, "deduplicated", id))
       PROVE  CallInv(p)'
  <2>1. n \notin S
    BY <1>s, <1>3, <1>4, <1>6, <1>10, KeyedByKey
  <2>2. id <= last
    <3>1. CASE id = NoId
      BY <1>s, <3>1 DEF NoId
    <3>2. CASE id # NoId
      <4>1. id \in Id /\ id \in Nat /\ Stored(id)
        BY <1>s, <1>10, <3>2 DEF HoldsKey
      <4> QED BY <1>s, <4>1
         DEF KeyInv, FreshIds, Stored, Lifecycle!JobStates, Lifecycle!TerminalStates
    <3> QED BY <3>1, <3>2
  <2> QED BY <1>6, <1>7, <1>10, <2>1, <2>2 DEF HoldsKey
<1>11. \/ \E i \in Id : MapsTo(enqueuer[p], n, i) /\ GoOn(p, put(n, "created", i))
       \/ /\ \A i \in Id : ~MapsTo(enqueuer[p], n, i)
          /\ key(n) = NoKey
          /\ GoOn(p, put(n, "created", NoId))
       \/ /\ \A i \in Id : ~MapsTo(enqueuer[p], n, i)
          /\ key(n) # NoKey
          /\ \E id \in Id \cup {NoId} : /\ id # NoId => HoldsKey(id, key(n))
                                        /\ OrFails(p, put(n, "deduplicated", id))
  BY <1>2 DEF MapItem, put
<1> QED BY <1>8, <1>9, <1>10, <1>11

\* A producer's statement, as the other producers see it.
LEMMA OthersWait ==
  ASSUME KeyInv, NEW q \in Producer, NEW call, OrFails(q, call) \/ GoOn(q, call),
         NEW p \in Producer, p # q
  PROVE  enqueuer'[p] = enqueuer[p]
  BY DEF KeyInv, ClientTypeOK, OrFails, GoOn

LEMMA StepAnswers == AnswerInv /\ ClientNext => FreshRows' /\ \A p \in Producer : CallInv(p)'
<1> SUFFICES ASSUME AnswerInv, ClientNext PROVE FreshRows' /\ \A p \in Producer : CallInv(p)'
  OBVIOUS
<1> DEFINE Answered == FreshRows' /\ \A p \in Producer : CallInv(p)'
<1>s. KeyInv /\ FreshRows /\ (\A p \in Producer : CallInv(p)) /\ ClientTypeOK /\ 1..last \subseteq Id
  BY ClientAssumptions DEF AnswerInv, KeyInv, ClientTypeOK, Id
<1>1. ASSUME NEW q \in Producer, NEW items \in Seq(Item), NEW S, insertJobs(q, items, S),
             NEW call, OrFails(q, call), CallInv(q)'
      PROVE  Answered
  <2>1. ASSUME NEW p \in Producer, p # q
        PROVE  CallInv(p)'
    BY <1>s, <1>1, <2>1, InsertIsElsewhere, OthersWait, OtherCallsStand
  <2> QED BY <1>s, <1>1, <2>1, InsertMarksRows
<1>2. ASSUME NEW q \in Producer, UNCHANGED <<job, last>>, NEW call,
             OrFails(q, call) \/ GoOn(q, call), CallInv(q)'
      PROVE  Answered
  <2>1. FreshRows' /\ \A p \in Producer : Elsewhere(p)
    BY <1>s, <1>2, UnchangedIsElsewhere
  <2>2. ASSUME NEW p \in Producer, p # q
        PROVE  CallInv(p)'
    <3>1. enqueuer'[p] = enqueuer[p]
      BY <1>s, <1>2, <2>2, OthersWait
    <3> QED BY <1>s, <2>1, <3>1, OtherCallsStand
  <2> QED BY <1>2, <2>1, <2>2
<1>3. ASSUME UNCHANGED enqueuer, FreshRows', \A p \in Producer : Elsewhere(p)
      PROVE  Answered
  BY <1>s, <1>3, OtherCallsStand
<1>4. ASSUME NEW S, NEW state, SetState(S, state), UNCHANGED <<last, enqueuer>>
      PROVE  Answered
  BY <1>s, <1>3, <1>4, SetStateIsElsewhere
<1>5. ASSUME UNCHANGED <<job, last, enqueuer>>
      PROVE  Answered
  BY <1>s, <1>3, <1>5, UnchangedIsElsewhere
<1>6. ASSUME NEW p \in Producer, NEW r \in Item, enqueue(p, r)
      PROVE  Answered
  <2>1. <<r>> \in Seq(Item)
    OBVIOUS
  <2>2. PICK S, call : insertJobs(p, <<r>>, S) /\ OrFails(p, call)
    BY <1>6 DEF enqueue
  <2>3. CallInv(p)'
    BY <1>s, <1>6, EnqueueAnswers
  <2> QED BY <1>1, <2>1, <2>2, <2>3
<1>7. ASSUME NEW p \in Producer, NEW items \in Batches, enqueueBatch(p, items)
      PROVE  Answered
  <2>1. items \in Seq(Item)
    BY ClientAssumptions
  <2>2. PICK S, call : insertJobs(p, items, S) /\ OrFails(p, call)
    BY <1>7 DEF enqueueBatch
  <2>3. CallInv(p)'
    BY <1>s, <1>7, EnqueueBatchAnswers
  <2> QED BY <1>1, <2>1, <2>2, <2>3
<1>8. ASSUME NEW p \in Producer, findByIdempotencyKey(p)
      PROVE  Answered
  <2>1. PICK call : OrFails(p, call)
    BY <1>8 DEF findByIdempotencyKey
  <2>2. CallInv(p)'
    BY <1>s, <1>8, FindByIdempotencyKeyAnswers
  <2> QED BY <1>2, <1>8, <2>1, <2>2 DEF findByIdempotencyKey
<1>9. ASSUME NEW p \in Producer, findByUniqueKey(p)
      PROVE  Answered
  <2>1. PICK call : OrFails(p, call)
    BY <1>9 DEF findByUniqueKey
  <2>2. CallInv(p)'
    BY <1>s, <1>9, FindByUniqueKeyAnswers
  <2> QED BY <1>2, <1>9, <2>1, <2>2 DEF findByUniqueKey
<1>10. ASSUME NEW p \in Producer, MapItem(p)
       PROVE  Answered
  <2>1. PICK call : OrFails(p, call) \/ GoOn(p, call)
    BY <1>10 DEF MapItem
  <2>2. CallInv(p)'
    BY <1>s, <1>10, MapItemAnswers
  <2> QED BY <1>2, <1>10, <2>1, <2>2 DEF MapItem
<1>11. ASSUME NEW o \in Operator, NEW i \in Id, cancel(o, i)
       PROVE  Answered
  BY <1>4, <1>5, <1>11 DEF cancel
<1>12. ASSUME NEW o \in Operator, NEW S, NEW onNone, Replay(o, S, onNone)
       PROVE  Answered
  BY <1>4, <1>12 DEF Replay
<1>13. ASSUME NEW o \in Operator, requestCancel(o) \/ getJobOrAudit(o)
       PROVE  Answered
  BY <1>5, <1>13 DEF requestCancel, getJobOrAudit
<1>14. ASSUME NEW i \in Id, Work(i) \/ Delete(i)
       PROVE  Answered
  <2>1. PICK state : SetState({i}, state)
    BY <1>14 DEF Work, Delete
  <2> QED BY <1>4, <1>14, <2>1 DEF Work, Delete
<1> HIDE DEF Answered
<1>15. Answered
  BY <1>s, <1>6, <1>7, <1>8, <1>9, <1>10, <1>11, <1>12, <1>13, <1>14
     DEF ClientNext, replay, replayMany
<1> QED BY <1>15 DEF Answered

LEMMA InitAnswers == ClientInit => FreshRows /\ \A p \in Producer : CallInv(p)
<1> SUFFICES ASSUME ClientInit PROVE FreshRows /\ \A p \in Producer : CallInv(p)
  OBVIOUS
<1>1. \A i \in Id : job[i].origin = <<>>
  BY DEF ClientInit, NoRow
<1>2. FreshRows
  BY <1>1 DEF FreshRows
<1>3. ASSUME NEW p \in Producer
      PROVE  CallInv(p)
  <2>1. enqueuer[p].at = "idle" /\ enqueuer[p].out = <<>>
    BY DEF ClientInit, NoCall
  <2>2. NothingInserted(p)
    BY <1>1, PairIsNotEmpty DEF NothingInserted
  <2> QED BY <2>1, <2>2 DEF CallInv
<1> QED BY <1>2, <1>3

\* Whatever claims, replays, deletions and other enqueues happen between the insert
\* and the reads, enqueue and enqueueBatch tell their caller the truth about each
\* item: which row was inserted for it, or that none was and whose key it met.
THEOREM AnswersAreTrue == ClientSpec => []AnswersNameTheirJob
<1>1. ClientInit /\ KeyInv => AnswerInv
  BY InitAnswers DEF AnswerInv
<1>2. AnswerInv /\ ClientNext /\ KeyInv' => AnswerInv'
  <2> SUFFICES ASSUME AnswerInv, ClientNext, KeyInv' PROVE AnswerInv'
    OBVIOUS
  <2>1. FreshRows' /\ \A p \in Producer : CallInv(p)'
    BY StepAnswers
  <2> QED BY <2>1 DEF AnswerInv
<1>3. AnswerInv /\ UNCHANGED clientVars /\ KeyInv' => AnswerInv'
  <2> SUFFICES ASSUME AnswerInv, UNCHANGED clientVars, KeyInv' PROVE AnswerInv'
    OBVIOUS
  <2>1. KeyInv /\ FreshRows /\ UNCHANGED <<job, last, enqueuer>>
    BY DEF AnswerInv, clientVars
  <2>2. FreshRows' /\ \A p \in Producer : Elsewhere(p)
    BY <2>1, UnchangedIsElsewhere
  <2>3. \A p \in Producer : CallInv(p)'
    BY <2>1, <2>2, OtherCallsStand DEF AnswerInv
  <2> QED BY <2>2, <2>3 DEF AnswerInv
<1>4. AnswerInv => AnswersNameTheirJob
  BY DEF AnswerInv, CallInv, AnswersNameTheirJob
<1>5. AnswerInv /\ [ClientNext]_clientVars /\ KeyInv' => AnswerInv'
  BY <1>2, <1>3
<1> QED BY <1>1, <1>4, <1>5, KeysInvariant, PTL DEF ClientSpec
=============================================================================
