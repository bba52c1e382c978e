------------------------------- MODULE Server -------------------------------
(***************************************************************************)
(* The API server: requests on their connections, the event stream, the    *)
(* snapshot timer, and the shutdown.  What a statement does to the rows is *)
(* in Client and Scheduler; here a handler is the statements it issues,    *)
(* each with a result that the rest of the system decides.                 *)
(*                                                                         *)
(* The handler of a request runs on when its client has gone, and it gives *)
(* way to others at each statement: only there can the key be revoked, the *)
(* row be taken away, the stream be closed or the server shut down.        *)
(***************************************************************************)
EXTENDS Integers, FiniteSets

CONSTANTS Connection,
          Key,             \* api_key rows: name -> [scopes, queues], and every if queues IS NULL
          Requests,        \* the requests that clients send, by name
          HasScheduler,    \* schedulerEnabled
          MaxSubscribers,  \* sseMaxSubscribers
          RateLimitMax,    \* rateLimitMax, per key and window
          MaxSnapshots,    \* bound: snapshot queries in flight
          MaxFailures      \* bound: queries that fail

Scopes == {"enqueue", "read", "admin"}

-----------------------------------------------------------------------------
(* Handlers: what follows on each statement, by whether it found what it    *)
(* looked for.  No two statements of a handler share a transaction.        *)

Either(found, none) == [found |-> found, none |-> none]
Always(next) == Either(next, next)

Listing         == [read |-> Always("ok")]
ReadingJob      == [read |-> Either("ok", "JOB_NOT_FOUND")]
ReadingSchedule == [read |-> Either("ok", "SCHEDULE_NOT_FOUND")]
Probing         == [read |-> Either("ok", "NOT_READY")]

\* resolve finds the job of an idempotency key.
Enqueueing == [defaults |-> Always("change"),
               change   |-> Either("ok", "resolve"),
               resolve  |-> Either("ok", "CONFLICT")]

\* The insert commits what does not conflict.
EnqueueingBatch == [defaults |-> Always("bulk"),
                    bulk     |-> Either("ok", "resolve"),
                    resolve  |-> Always("ok")]

\* An available job, else a running one, else getJob says what is wrong.
Cancelling == [change   |-> Either("audit", "fallback"),
               fallback |-> Either("audit", "explain"),
               explain  |-> Either("INVALID_TRANSITION", "JOB_NOT_FOUND"),
               audit    |-> Always("ok")]

\* retryNow and replay: the job they return is read when all is done.
Advancing == [change  |-> Either("audit", "explain"),
              explain |-> Either("CONFLICT", "JOB_NOT_FOUND"),
              audit   |-> Always("reread"),
              reread  |-> Either("ok", "JOB_NOT_FOUND")]

\* These commit and are audited however many rows they match.
Bulk == [bulk |-> Always("audit"), audit |-> Always("ok")]

\* rest stands for the batches after the first.
Purging == [bulk  |-> Either("rest", "audit"),
            rest  |-> Always("audit"),
            audit |-> Always("ok")]

CreatingSchedule == [change |-> Either("audit", "VALIDATION_ERROR"), audit |-> Always("ok")]
DeletingSchedule == [change |-> Either("audit", "SCHEDULE_NOT_FOUND"), audit |-> Always("ok")]

\* setEnabled reads the schedule before it updates it.  (That a schedule without
\* a further occurrence cannot be resumed ends it there, too.)
EnablingSchedule == [existing |-> Either("change", "SCHEDULE_NOT_FOUND"),
                     change   |-> Either("audit", "SCHEDULE_NOT_FOUND"),
                     audit    |-> Always("ok")]

Statements == {"defaults", "read", "existing", "change", "fallback", "bulk", "rest",
               "explain", "resolve", "audit", "reread"}

-----------------------------------------------------------------------------
(* Routes: the scope, where the queue that the key must cover is found, the *)
(* statements a handler may begin with, and the handler.                   *)

Route(scope, queueFrom, starts, handler) ==
  [scope |-> scope, queueFrom |-> queueFrom, starts |-> starts, handler |-> handler]

\* Settings of a queue that are still cached are not read again.
EnqueueRoutes ==
  [enqueue      |-> Route("enqueue", "params", {"defaults", "change"}, Enqueueing),
   enqueueBatch |-> Route("enqueue", "params", {"defaults", "bulk"}, EnqueueingBatch)]

ReadRoutes == [getJob         |-> Route("read", "job", {"read"}, ReadingJob),
               listJobs       |-> Route("read", "params", {"read"}, Listing),
               queueStats     |-> Route("read", "none", {"read"}, Listing),
               getQueueConfig |-> Route("read", "params", {"read"}, Listing)]

AdminRoutes == [cancel   |-> Route("admin", "none", {"change"}, Cancelling),
                retryNow |-> Route("admin", "none", {"change"}, Advancing),
                replay   |-> Route("admin", "none", {"change"}, Advancing),
                pause    |-> Route("admin", "params", {"bulk"}, Bulk),
                resume   |-> Route("admin", "params", {"bulk"}, Bulk),
                purge    |-> Route("admin", "params", {"bulk"}, Purging)]

DlqRoutes == [listDeadJobs |-> Route("read", "query", {"read"}, Listing),
              replayMany   |-> Route("admin", "none", {"bulk"}, Bulk)]

ScheduleRoutes ==
  [listSchedules  |-> Route("read", "none", {"read"}, Listing),
   createSchedule |-> Route("admin", "body", {"change"}, CreatingSchedule),
   getSchedule    |-> Route("read", "none", {"read"}, ReadingSchedule),
   pauseSchedule  |-> Route("admin", "none", {"existing"}, EnablingSchedule),
   resumeSchedule |-> Route("admin", "none", {"existing"}, EnablingSchedule),
   deleteSchedule |-> Route("admin", "none", {"change"}, DeletingSchedule)]

\* The stream issues no statement of its own.
EventRoutes == [events |-> Route("read", "none", {}, Listing)]

\* /health answers by itself, /ready pings and reads the schema version.
Probes == {"health", "ready"}

Table(name) ==
  CASE name \in DOMAIN EnqueueRoutes  -> EnqueueRoutes[name]
    [] name \in DOMAIN ReadRoutes     -> ReadRoutes[name]
    [] name \in DOMAIN AdminRoutes    -> AdminRoutes[name]
    [] name \in DOMAIN DlqRoutes      -> DlqRoutes[name]
    [] name \in DOMAIN ScheduleRoutes -> ScheduleRoutes[name]
    [] name \in DOMAIN EventRoutes    -> EventRoutes[name]

RouteNames == UNION {DOMAIN EnqueueRoutes, DOMAIN ReadRoutes, DOMAIN AdminRoutes,
                     DOMAIN DlqRoutes, DOMAIN ScheduleRoutes, DOMAIN EventRoutes}

HandlerOf(q) == IF q.route \in Probes THEN Probing ELSE Table(q.route).handler

Errors == {"VALIDATION_ERROR", "PAYLOAD_TOO_LARGE", "JOB_NOT_FOUND", "SCHEDULE_NOT_FOUND",
           "INVALID_TRANSITION", "CONFLICT", "OWNERSHIP_LOST", "NO_HANDLER", "HANDLER_TIMEOUT",
           "NON_RETRYABLE", "CANCELLED", "CONFIG_ERROR", "MIGRATION_ERROR", "DATABASE_ERROR",
           "UNAUTHENTICATED", "FORBIDDEN", "RATE_LIMITED", "NOT_READY", "INTERNAL"}

STATUS_BY_CODE ==
  [code \in Errors |->
     CASE code = "VALIDATION_ERROR"                         -> 400
       [] code = "UNAUTHENTICATED"                          -> 401
       [] code = "FORBIDDEN"                                -> 403
       [] code \in {"JOB_NOT_FOUND", "SCHEDULE_NOT_FOUND"}  -> 404
       [] code \in {"INVALID_TRANSITION", "CONFLICT", "OWNERSHIP_LOST", "CANCELLED"} -> 409
       [] code = "PAYLOAD_TOO_LARGE"                        -> 413
       [] code \in {"NO_HANDLER", "NON_RETRYABLE"}          -> 422
       [] code = "RATE_LIMITED"                             -> 429
       [] code \in {"CONFIG_ERROR", "INTERNAL"}             -> 500
       [] code \in {"MIGRATION_ERROR", "DATABASE_ERROR", "NOT_READY"} -> 503
       [] code = "HANDLER_TIMEOUT"                          -> 504]

\* form is what the body parser, the schemas and the checks before the first
\* statement make of a request.
IsRequest(q) ==
  /\ q.route \in RouteNames \cup Probes
  /\ q.key \in DOMAIN Key \cup {"none", "unknown"}
  /\ q.form \in {"ok", "unparsable", "tooLarge", "invalid"}

ASSUME ServerAssumptions ==
  /\ IsFiniteSet(Connection)
  /\ \A k \in DOMAIN Key : Key[k].scopes \subseteq Scopes
  /\ \A n \in DOMAIN Requests : IsRequest(Requests[n])
  /\ HasScheduler \in BOOLEAN
  /\ MaxSubscribers \in Nat \ {0} /\ RateLimitMax \in Nat \ {0}
  /\ MaxSnapshots \in Nat /\ MaxFailures \in Nat

VARIABLES phase,        \* of the process
          conn,         \* the connections and the request on each
          subscribers,  \* EventStream.subscribers
          heartbeat,    \* EventStream.heartbeat is set
          snapshots,    \* snapshot queries in flight
          revoked,      \* the keys that are revoked or expired
          hits,         \* the limiter's counts
          failures      \* failures left

serverVars == <<phase, conn, subscribers, heartbeat, snapshots, revoked, hits, failures>>

\* The handler waits for the database in auth and query; the others run when the
\* event loop comes to them.
InFlight == {"auth", "query"}
Resumes  == {"known", "unknown", "done"}

\* stmt is the statement that is executed or answered, and found its result.
\* effect, audited, stale, shut and late are history: a statement that changes rows
\* was committed; so was its audit entry; the key was revoked before the request
\* came; a statement met the closed pool; it subscribed when its client had gone.
Closed == [client |-> "gone", at |-> "idle", stmt |-> "none", found |-> FALSE, req |-> "none",
           answer |-> "none", effect |-> FALSE, audited |-> FALSE, stale |-> FALSE,
           shut |-> FALSE, late |-> FALSE]

ServerTypeOK ==
  /\ phase \in {"serving", "closing", "stopping", "pool", "exited"}
  /\ \A c \in Connection :
       /\ conn[c].client \in {"open", "gone"}
       /\ conn[c].at \in {"idle", "stream"} \cup InFlight \cup Resumes
       /\ conn[c].stmt \in {"none"} \cup Statements /\ conn[c].found \in BOOLEAN
       /\ conn[c].req \in {"none"} \cup DOMAIN Requests
       /\ conn[c].answer \in {"none", "ok"} \cup Errors
       /\ conn[c].effect \in BOOLEAN /\ conn[c].audited \in BOOLEAN
       /\ conn[c].stale \in BOOLEAN
       /\ conn[c].shut \in BOOLEAN /\ conn[c].late \in BOOLEAN
  /\ subscribers \subseteq Connection /\ Cardinality(subscribers) <= MaxSubscribers
  /\ heartbeat \in BOOLEAN
  /\ snapshots \in 0..MaxSnapshots
  /\ revoked \subseteq DOMAIN Key
  /\ hits \in [DOMAIN Key -> 0..RateLimitMax]
  /\ failures \in 0..MaxFailures

RequestOf(c) == Requests[conn[c].req]
Set(c, r) == conn' = [conn EXCEPT ![c] = r]
\* Of an answer that nobody receives nothing is left.
Answered(r, answer) ==
  IF r.client = "gone" THEN Closed
  ELSE [r EXCEPT !.at = "idle", !.stmt = "none", !.found = FALSE, !.late = FALSE, !.answer = answer]
HasPool == phase \in {"serving", "closing", "stopping"}

\* A batch whose queue settings cannot be read is called invalid.
ErrorOf(r) == IF r.stmt = "defaults" /\ Requests[r.req].route = "enqueueBatch"
              THEN "VALIDATION_ERROR" ELSE "DATABASE_ERROR"

\* The handler issues a statement; on a pool that was ended it fails at once.
Issued(r) == IF HasPool THEN r ELSE [Answered(r, ErrorOf(r)) EXCEPT !.shut = TRUE]
Authenticating(r) == Issued([r EXCEPT !.at = "auth"])
Querying(r, stmt) == Issued([r EXCEPT !.at = "query", !.stmt = stmt])

EventsUnchanged == UNCHANGED <<subscribers, heartbeat, snapshots>>

-----------------------------------------------------------------------------
(* A request comes in, and its key is looked up.                           *)

\* The body parser comes first, then the probes, then requireAuth.
FirstStep(r, q) ==
  CASE q.form = "tooLarge"   -> Answered(r, "PAYLOAD_TOO_LARGE")
    [] q.form = "unparsable" -> Answered(r, "VALIDATION_ERROR")
    [] q.form \in {"ok", "invalid"} ->
         CASE q.route = "health" -> Answered(r, "ok")
           [] q.route = "ready"  -> Querying(r, "read")
           [] q.route \notin Probes ->
                IF q.key = "none" THEN Answered(r, "UNAUTHENTICATED") ELSE Authenticating(r)

\* On a new connection, or on one that was kept alive, also by a server that closes.
Request(c, n) ==
  /\ conn[c].at = "idle" /\ c \notin subscribers
  /\ \/ phase = "serving"
     \/ phase = "closing" /\ conn[c].client = "open"
  /\ LET q == Requests[n]
     IN Set(c, FirstStep([Closed EXCEPT !.client = "open", !.req = n, !.stale = q.key \in revoked], q))
  /\ EventsUnchanged /\ UNCHANGED <<phase, revoked, hits, failures>>

\* Mutant: a revoked key is still a key.
FoundAtAll(c) == RequestOf(c).key \in DOMAIN Key

Found(c) == RequestOf(c).key \in DOMAIN Key \ revoked

authenticate(c) ==
  /\ conn[c].at = "auth"
  /\ Set(c, [conn[c] EXCEPT !.at = IF Found(c) THEN "known" ELSE "unknown"])
  /\ EventsUnchanged /\ UNCHANGED <<phase, revoked, hits, failures>>

authorizes(key, scope, queue) ==
  /\ scope \in Key[key].scopes
  /\ queue = "none" \/ Key[key].every \/ queue \in Key[key].queues

\* The queue that requireScope reads off the request.
TargetOf(q) == IF Table(q.route).queueFrom \in {"params", "body", "query"} THEN q.queue ELSE "none"

\* Mutant: the response is forgotten.
requireAuthReturns(c) == conn[c].at = "unknown" /\ UNCHANGED serverVars

requireAuthRefuses(c) ==
  /\ conn[c].at = "unknown"
  /\ Set(c, Answered(conn[c], "UNAUTHENTICATED"))
  /\ EventsUnchanged /\ UNCHANGED <<phase, revoked, hits, failures>>

\* What turns a known caller away before the handler starts.
Refusal(q) ==
  LET route == Table(q.route)
  IN CASE hits[q.key] >= RateLimitMax -> "RATE_LIMITED"
       [] hits[q.key] < RateLimitMax ->
            CASE ~authorizes(q.key, route.scope, TargetOf(q)) -> "FORBIDDEN"
              [] authorizes(q.key, route.scope, TargetOf(q)) ->
                   CASE q.form = "invalid" -> "VALIDATION_ERROR"
                     [] q.form # "invalid" ->
                          IF q.route \in DOMAIN ScheduleRoutes /\ ~HasScheduler
                          THEN "CONFLICT" ELSE "none"

\* The limiter counts on; beyond the limit the count makes no difference.
Counted(k) == hits' = [hits EXCEPT ![k] = IF @ = RateLimitMax THEN @ ELSE @ + 1]

\* next() after the lookup: the limiter, the scope, the schemas and the handler
\* up to its first await, in one go.
Dispatch(c) ==
  /\ conn[c].at = "known"
  /\ \E stmt \in Table(RequestOf(c).route).starts :
       LET refusal == Refusal(RequestOf(c))
       IN Set(c, IF refusal # "none" THEN Answered(conn[c], refusal) ELSE Querying(conn[c], stmt))
  /\ Counted(RequestOf(c).key)
  /\ EventsUnchanged /\ UNCHANGED <<phase, revoked, failures>>

-----------------------------------------------------------------------------
(* Handlers.                                                               *)

Outcomes(next) == IF next.found = next.none THEN {TRUE} ELSE BOOLEAN

\* The database executes the statement.  bulk and rest commit whatever they match;
\* the row that the others look for may be there or not, and may have gone since
\* the statement before.
Execute(c) ==
  /\ conn[c].at = "query"
  /\ LET stmt == conn[c].stmt
     IN \E found \in Outcomes(HandlerOf(RequestOf(c))[stmt]) :
          Set(c, [conn[c] EXCEPT !.at = "done", !.found = found,
                                 !.effect = \/ @ \/ stmt \in {"bulk", "rest"}
                                            \/ stmt \in {"change", "fallback"} /\ found,
                                 !.audited = @ \/ stmt = "audit"])
  /\ EventsUnchanged /\ UNCHANGED <<phase, revoked, hits, failures>>

\* The next statement, or the answer.
FollowUp(r) ==
  LET next == HandlerOf(Requests[r.req])[r.stmt]
  IN IF r.found THEN next.found ELSE next.none

\* getJob looks at the queue of the row it has read.
AnswerOf(q, result) ==
  IF /\ result = "ok" /\ q.route = "getJob"
     /\ ~Key[q.key].every /\ q.queue \notin Key[q.key].queues
  THEN "FORBIDDEN" ELSE result

\* Mutant: the audit entry is not waited for.
ResumeAtOnce(c) ==
  /\ conn[c].at = "done"
  /\ LET next == FollowUp(conn[c])
     IN Set(c, IF next \in Statements \ {"audit"} THEN Querying(conn[c], next)
               ELSE IF next = "audit" THEN Answered(conn[c], "ok")
               ELSE Answered(conn[c], AnswerOf(RequestOf(c), next)))
  /\ EventsUnchanged /\ UNCHANGED <<phase, revoked, hits, failures>>

Resume(c) ==
  /\ conn[c].at = "done"
  /\ LET next == FollowUp(conn[c])
     IN Set(c, IF next \in Statements THEN Querying(conn[c], next)
               ELSE Answered(conn[c], AnswerOf(RequestOf(c), next)))
  /\ EventsUnchanged /\ UNCHANGED <<phase, revoked, hits, failures>>

\* errorHandler.  A statement whose answer is lost may have been executed.
QueryFails(c) ==
  /\ conn[c].at \in InFlight \cup {"done"} /\ failures > 0
  /\ failures' = failures - 1
  /\ Set(c, Answered(conn[c], ErrorOf(conn[c])))
  /\ EventsUnchanged /\ UNCHANGED <<phase, revoked, hits>>

-----------------------------------------------------------------------------
(* The event stream.                                                       *)

\* Mutant: one subscriber too many.
FullPastEnd == Cardinality(subscribers) > MaxSubscribers

Full == Cardinality(subscribers) >= MaxSubscribers

\* The cap counts the subscribers of the map.  The close handler is registered
\* here: a client that has gone before is not noticed any more.
subscribe(c) ==
  /\ conn[c].at = "known" /\ RequestOf(c).route \in DOMAIN EventRoutes
  /\ LET refusal == Refusal(RequestOf(c))
     IN IF refusal # "none" \/ Full
        THEN /\ Set(c, Answered(conn[c], IF refusal # "none" THEN refusal ELSE "NOT_READY"))
             /\ UNCHANGED <<subscribers, heartbeat>>
        ELSE /\ Set(c, [conn[c] EXCEPT !.at = "stream", !.late = conn[c].client = "gone"])
             /\ subscribers' = subscribers \cup {c}
             /\ heartbeat' = TRUE
  /\ Counted(RequestOf(c).key)
  /\ UNCHANGED <<phase, snapshots, revoked, failures>>

\* res.end() on these streams; a response that has lost its socket is not noticed.
Ended(C) == conn' = [c \in Connection |-> IF c \in C THEN Answered(conn[c], "ok") ELSE conn[c]]

snapshotTimer ==
  /\ phase = "serving" /\ subscribers # {} /\ snapshots < MaxSnapshots
  /\ snapshots' = snapshots + 1
  /\ UNCHANGED <<phase, conn, subscribers, heartbeat, revoked, hits, failures>>

\* Mutant: a slow subscriber is only forgotten.
publishAndForget(slow) ==
  /\ snapshots > 0
  /\ snapshots' = snapshots - 1
  /\ subscribers' = subscribers \ slow
  /\ UNCHANGED <<phase, conn, heartbeat, revoked, hits, failures>>

\* The answer of the snapshot query is broadcast to whoever has subscribed by now.
publish(slow) ==
  /\ snapshots > 0
  /\ snapshots' = snapshots - 1
  /\ subscribers' = subscribers \ slow
  /\ Ended(slow)
  /\ UNCHANGED <<phase, heartbeat, revoked, hits, failures>>

SnapshotFails ==
  /\ snapshots > 0 /\ failures > 0
  /\ snapshots' = snapshots - 1 /\ failures' = failures - 1
  /\ UNCHANGED <<phase, conn, subscribers, heartbeat, revoked, hits>>

\* The tick that finds nobody stops the timer.
HeartbeatStops ==
  /\ heartbeat /\ subscribers = {} /\ phase # "exited"
  /\ heartbeat' = FALSE
  /\ UNCHANGED <<phase, conn, subscribers, snapshots, revoked, hits, failures>>

-----------------------------------------------------------------------------
(* Clients and keys.                                                       *)

\* The close event of a request that has subscribed.
cleanup(c) == IF conn[c].at = "stream" THEN subscribers \ {c} ELSE subscribers

\* The client leaves, or an idle connection times out.  A handler runs on.
Leave(c) ==
  /\ conn[c].client = "open"
  /\ Set(c, IF conn[c].at \in {"idle", "stream"} THEN Closed
            ELSE [conn[c] EXCEPT !.client = "gone"])
  /\ subscribers' = cleanup(c)
  /\ UNCHANGED <<phase, heartbeat, snapshots, revoked, hits, failures>>

revoke(k) ==
  /\ k \notin revoked /\ phase # "exited"
  /\ revoked' = revoked \cup {k}
  /\ UNCHANGED <<phase, conn, subscribers, heartbeat, snapshots, hits, failures>>

WindowEnds ==
  /\ \E k \in DOMAIN Key : hits[k] > 0
  /\ phase # "exited"
  /\ hits' = [k \in DOMAIN Key |-> 0]
  /\ UNCHANGED <<phase, conn, subscribers, heartbeat, snapshots, revoked, failures>>

-----------------------------------------------------------------------------
(* The shutdown.                                                           *)

Exit ==
  /\ phase' = "exited"
  /\ conn' = [c \in Connection |-> Closed]
  /\ subscribers' = {} /\ heartbeat' = FALSE /\ snapshots' = 0
  /\ UNCHANGED <<revoked, hits, failures>>

\* The timers and the stream are closed, and server.close() ends the connections
\* that are idle; all before the first await.  The second signal exits.
Signal ==
  \/ /\ phase = "serving"
     /\ phase' = "closing"
     /\ conn' = [c \in Connection |->
                   CASE c \in subscribers -> Answered(conn[c], "ok")
                     [] c \notin subscribers ->
                          IF conn[c].at = "idle" THEN Closed
                          ELSE conn[c]]
     /\ subscribers' = {} /\ heartbeat' = FALSE
     /\ UNCHANGED <<snapshots, revoked, hits, failures>>
  \/ phase \in {"closing", "stopping", "pool"} /\ Exit

\* Mutant: nobody waits for the connections.
ServerClosedAtOnce ==
  /\ phase = "closing"
  /\ phase' = "stopping"
  /\ UNCHANGED <<conn, subscribers, heartbeat, snapshots, revoked, hits, failures>>

\* The callback of server.close().
ServerClosed ==
  /\ phase = "closing" /\ \A c \in Connection : conn[c].client = "gone"
  /\ phase' = "stopping"
  /\ UNCHANGED <<conn, subscribers, heartbeat, snapshots, revoked, hits, failures>>

LoopsStopped ==
  /\ phase = "stopping"
  /\ phase' = "pool"
  /\ UNCHANGED <<conn, subscribers, heartbeat, snapshots, revoked, hits, failures>>

\* Mutant: the subscribers are waited for, too.
CloseAfterStreams ==
  /\ phase = "pool" /\ snapshots = 0 /\ subscribers = {}
  /\ \A c \in Connection : conn[c].at \notin InFlight
  /\ Exit

\* pool.end() waits for the queries in flight.
Close ==
  /\ phase = "pool" /\ snapshots = 0
  /\ \A c \in Connection : conn[c].at \notin InFlight
  /\ Exit

-----------------------------------------------------------------------------
ServerInit ==
  /\ phase = "serving"
  /\ conn = [c \in Connection |-> Closed]
  /\ subscribers = {} /\ heartbeat = FALSE
  /\ snapshots = 0
  /\ revoked = {}
  /\ hits = [k \in DOMAIN Key |-> 0]
  /\ failures = MaxFailures

Handle(c) == \/ authenticate(c) \/ requireAuthRefuses(c) \/ Dispatch(c) \/ subscribe(c)
             \/ Execute(c) \/ Resume(c)

Shutdown == ServerClosed \/ LoopsStopped \/ Close

ServerNext ==
  \/ \E c \in Connection : Handle(c) \/ QueryFails(c) \/ Leave(c)
  \/ \E c \in Connection, n \in DOMAIN Requests : Request(c, n)
  \/ snapshotTimer \/ SnapshotFails \/ HeartbeatStops
  \/ \E slow \in SUBSET {c \in subscribers : conn[c].client = "open"} : publish(slow)
  \/ \E k \in DOMAIN Key : revoke(k)
  \/ WindowEnds \/ Signal \/ Shutdown

ServerSpec == ServerInit /\ [][ServerNext]_serverVars

\* Queries are answered (statement_timeout), idle connections time out
\* (keepAliveTimeout) and the shutdown goes on; clients owe nothing.
ServerFairness ==
  /\ \A c \in Connection : /\ WF_serverVars(Handle(c))
                           /\ WF_serverVars(conn[c].at = "idle" /\ Leave(c))
  /\ WF_serverVars(\E slow \in SUBSET {c \in subscribers : conn[c].client = "open"} : publish(slow))
  /\ WF_serverVars(Shutdown)

FairServerSpec == ServerSpec /\ ServerFairness

-----------------------------------------------------------------------------
(* Properties.                                                             *)

Audited(r) == "audit" \in DOMAIN HandlerOf(Requests[r.req])

\* What a caller may conclude from the answer to a request that is audited.  A 2xx:
\* the change was committed and then its entry (client.ts:266-390,
\* routes.ts:321-402).  An error below 500: nothing was changed, but for the 404 of
\* a retry or replay whose job was removed between its audit entry and the read of
\* the result (client.ts:298, 312); a change without its entry is always answered
\* by a 5xx.  And there is no entry without a change.
AnswerTellsEffect ==
  \A c \in Connection :
    LET r == conn[c]
    IN r.at = "idle" /\ r.answer # "none" =>
         /\ r.answer = "ok" /\ Audited(r) => r.effect /\ r.audited
         /\ r.answer \in Errors /\ STATUS_BY_CODE[r.answer] < 500 /\ r.effect =>
              /\ r.audited /\ r.answer = "JOB_NOT_FOUND"
              /\ RequestOf(c).route \in {"retryNow", "replay"}
         /\ r.audited => r.effect

\* A key that was revoked before a request came in gets nothing for it, however the
\* lookup, other requests and the revocation are interleaved (auth.ts:73-106).
RevokedKeyIsRefused ==
  \A c \in Connection :
    conn[c].stale => /\ ~conn[c].effect /\ conn[c].at # "stream"
                     /\ conn[c].answer = "ok" => RequestOf(c).route \in Probes

\* Every open stream is in the map, so that a snapshot reaches it, as long as the
\* server takes any, and it is kept alive and ended at the shutdown; every
\* subscriber is a stream that was not ended, and one that was connected when it
\* subscribed gives its slot back when it leaves (events.ts:67-76, 93-95, 125-126).
\* Only a client that had gone before the lookup of its key ended keeps its slot.
\* While there is a subscriber the keepalive timer runs, also for one that comes when
\* the timer is about to stop or after close() (events.ts:107-127).
OpenStreamIsFed ==
  /\ {c \in Connection : conn[c].at = "stream"} = subscribers
  /\ \A c \in subscribers : conn[c].client = "gone" => conn[c].late
  /\ subscribers # {} => heartbeat

\* A caller who waits for an answer never gets the error of the closed pool: the
\* connections are waited for before the database is closed (main.ts:189-191).
ShutdownFailsNobody ==
  \A c \in Connection :
    conn[c].client = "open" => ~conn[c].shut

\* Every request is answered or turned into a stream, also while the server shuts
\* down and when its client has gone.
RequestIsAnswered == \A c \in Connection : []<>(conn[c].at \in {"idle", "stream"})

\* Once requests cease, a shutdown ends by itself; only a stream that was opened
\* after events.close() holds it up, until its client leaves (main.ts:188-189).
ShutdownEnds ==
  <>[][~\E c \in Connection, n \in DOMAIN Requests : Request(c, n)]_serverVars =>
    (phase = "closing" ~>
       (phase = "exited" \/ \E c \in Connection : conn[c].at = "stream" /\ conn[c].client = "open"))
=============================================================================
