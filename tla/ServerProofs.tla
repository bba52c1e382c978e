---------------------------- MODULE ServerProofs ----------------------------
(***************************************************************************)
(* Proofs about Server for all keys, requests, limits and connections.     *)
(***************************************************************************)
EXTENDS Server, FiniteSetTheorems, TLAPS

Answers == {"none", "ok"} \cup Errors
Points == {"idle", "stream"} \cup InFlight \cup Resumes
Conn == [client : {"open", "gone"}, at : Points, stmt : {"none"} \cup Statements, found : BOOLEAN,
         req : {"none"} \cup DOMAIN Requests, answer : Answers, effect : BOOLEAN,
         audited : BOOLEAN, stale : BOOLEAN, shut : BOOLEAN, late : BOOLEAN]
Req(r) == Requests[r.req]

-----------------------------------------------------------------------------
(* Handlers.                                                               *)

Handlers == {Listing, ReadingJob, ReadingSchedule, Probing, Enqueueing, EnqueueingBatch, Cancelling,
             Advancing, Bulk, Purging, CreatingSchedule, DeletingSchedule, EnablingSchedule}

\* A change was committed before handler h issues s, and when s is answered.
ChangedBefore(h, s) == s \in {"rest", "audit", "reread"} \/ (s = "resolve" /\ "bulk" \in DOMAIN h)
ChangedBy(h, s, found) ==
  ChangedBefore(h, s) \/ s \in {"bulk", "rest"} \/ (s \in {"change", "fallback"} /\ found)

\* What a handler goes on to knows what was done, and so does its answer.
GoesOn(h, s, found, next) ==
  /\ next \in DOMAIN h \cup {"ok"} \cup (Errors \ {"DATABASE_ERROR"})
  /\ next \in DOMAIN h => /\ ChangedBefore(h, next) <=> ChangedBy(h, s, found)
                          /\ next = "reread" <=> s \in {"audit", "reread"}
  /\ next = "ok" /\ "audit" \in DOMAIN h => ChangedBy(h, s, found) /\ s \in {"audit", "reread"}
  /\ next \in Errors /\ ChangedBy(h, s, found) =>
       s = "reread" /\ next = "JOB_NOT_FOUND" /\ h = Advancing

Sound(h) ==
  /\ DOMAIN h \subseteq Statements
  /\ \A s \in DOMAIN h : GoesOn(h, s, TRUE, h[s].found) /\ GoesOn(h, s, FALSE, h[s].none)

-----------------------------------------------------------------------------
(* The inductive invariant.                                                *)

\* What a handler knows at each of its points.
Consistent(r) ==
  /\ r.at # "idle" => r.answer = "none"
  /\ r.at # "idle" \/ r.answer # "none" \/ r.effect \/ r.audited \/ r.stale => r.req \in DOMAIN Requests
  /\ r.at \in {"auth", "known", "unknown", "stream"} =>
       Req(r).route \in RouteNames /\ r.stmt = "none" /\ ~r.effect /\ ~r.audited
  /\ r.at = "known" => Req(r).key \in DOMAIN Key
  /\ r.at = "stream" => Req(r).route \in DOMAIN EventRoutes
  /\ r.at \in {"query", "done"} => r.stmt \in DOMAIN HandlerOf(Req(r))
  /\ r.at = "query" => /\ r.effect <=> ChangedBefore(HandlerOf(Req(r)), r.stmt)
                       /\ r.audited <=> r.stmt = "reread"
  /\ r.at = "done" => /\ r.effect <=> ChangedBy(HandlerOf(Req(r)), r.stmt, r.found)
                      /\ r.audited <=> r.stmt \in {"audit", "reread"}

\* What a caller may conclude from the answer a.
Tells(r, a) ==
  /\ a = "ok" /\ Audited(r) => r.effect /\ r.audited
  /\ a \notin {"none", "ok", "DATABASE_ERROR"} /\ r.effect =>
       r.audited /\ a = "JOB_NOT_FOUND" /\ Req(r).route \in {"retryNow", "replay"}
  /\ r.audited => r.effect

Honest(r) == r.at = "idle" => Tells(r, r.answer)

\* How far a request comes with a key that had been revoked.
Refused(r, gone) ==
  r.stale => /\ Req(r).key \in gone /\ ~r.effect
             /\ r.answer = "ok" => Req(r).route \in Probes
             /\ Req(r).route \notin Probes => r.at \in {"idle", "auth", "unknown"}

Excused(r) == r.client = "open" => ~r.shut

ConnOK(r, gone) == r \in Conn /\ Consistent(r) /\ Honest(r) /\ Refused(r, gone) /\ Excused(r)

Streams == {c \in Connection : conn[c].at = "stream"}

CountsOK ==
  /\ phase \in {"serving", "closing", "stopping", "pool", "exited"}
  /\ subscribers \subseteq Connection /\ Cardinality(subscribers) <= MaxSubscribers
  /\ heartbeat \in BOOLEAN /\ snapshots \in 0..MaxSnapshots
  /\ revoked \subseteq DOMAIN Key
  /\ hits \in [DOMAIN Key -> 0..RateLimitMax]
  /\ failures \in 0..MaxFailures

ConnsOK == /\ conn \in [Connection -> Conn]
           /\ \A c \in Connection : ConnOK(conn[c], revoked)

\* The database is closed only when every client has gone.
ClientsFirst == phase \in {"stopping", "pool", "exited"} =>
                  \A c \in Connection : conn[c].client = "gone"

ServerInv == CountsOK /\ ConnsOK /\ OpenStreamIsFed /\ ClientsFirst

-----------------------------------------------------------------------------
(* Routes and errors.                                                      *)

LEMMA HandlersAreSound == \A h \in Handlers : Sound(h)
<1> USE DEF Sound, GoesOn, ChangedBefore, ChangedBy, Statements, Errors, Either, Always
<1>1. Sound(Listing) /\ Sound(ReadingJob) /\ Sound(ReadingSchedule) /\ Sound(Probing)
  BY DEF Listing, ReadingJob, ReadingSchedule, Probing
<1>2. Sound(Enqueueing)
  BY DEF Enqueueing
<1>3. Sound(EnqueueingBatch)
  BY DEF EnqueueingBatch
<1>4. Sound(Cancelling)
  BY DEF Cancelling
<1>5. Sound(Advancing)
  BY DEF Advancing
<1>6. Sound(Bulk)
  BY DEF Bulk
<1>7. Sound(Purging)
  BY DEF Purging
<1>8. Sound(CreatingSchedule)
  BY DEF CreatingSchedule
<1>9. Sound(DeletingSchedule)
  BY DEF DeletingSchedule
<1>10. Sound(EnablingSchedule)
  BY DEF EnablingSchedule
<1> QED BY <1>1, <1>2, <1>3, <1>4, <1>5, <1>6, <1>7, <1>8, <1>9, <1>10 DEF Handlers

\* A handler begins with nothing changed.
StartsAnew(route) ==
  \A s \in route.starts : s \in DOMAIN route.handler /\ ~ChangedBefore(route.handler, s) /\ s # "reread"

LEMMA RouteFacts ==
  /\ Probes \cap RouteNames = {}
  /\ \A n \in RouteNames : Table(n).handler \in Handlers /\ StartsAnew(Table(n))
  /\ \A n \in RouteNames : Table(n).handler = Advancing => n \in {"retryNow", "replay"}
  /\ \A n \in RouteNames : n = "getJob" => Table(n).handler = ReadingJob
  /\ \A n \in RouteNames : n \in DOMAIN EventRoutes => Table(n).handler = Listing
<1>1. /\ DOMAIN EnqueueRoutes = {"enqueue", "enqueueBatch"}
      /\ DOMAIN ReadRoutes = {"getJob", "listJobs", "queueStats", "getQueueConfig"}
      /\ DOMAIN AdminRoutes = {"cancel", "retryNow", "replay", "pause", "resume", "purge"}
      /\ DOMAIN DlqRoutes = {"listDeadJobs", "replayMany"}
      /\ DOMAIN ScheduleRoutes = {"listSchedules", "createSchedule", "getSchedule", "pauseSchedule",
                                  "resumeSchedule", "deleteSchedule"}
      /\ DOMAIN EventRoutes = {"events"}
  BY DEF EnqueueRoutes, ReadRoutes, AdminRoutes, DlqRoutes, ScheduleRoutes, EventRoutes
<1>2. Probes \cap RouteNames = {}
  BY <1>1 DEF Probes, RouteNames
<1> DEFINE Fine(n, route) == /\ route.handler \in Handlers /\ StartsAnew(route)
                             /\ route.handler = Advancing => n \in {"retryNow", "replay"}
                             /\ n = "getJob" => route.handler = ReadingJob
                             /\ n = "events" => route.handler = Listing
<1>0. \A h \in {Listing, ReadingJob, ReadingSchedule, Enqueueing, EnqueueingBatch, Cancelling, Bulk,
                Purging, CreatingSchedule, DeletingSchedule, EnablingSchedule} : h # Advancing
  <2>1. "explain" \in DOMAIN Advancing /\ "fallback" \notin DOMAIN Advancing
    BY DEF Advancing
  <2>2. /\ "explain" \notin DOMAIN Listing /\ "explain" \notin DOMAIN ReadingJob
        /\ "explain" \notin DOMAIN ReadingSchedule /\ "explain" \notin DOMAIN Enqueueing
        /\ "explain" \notin DOMAIN EnqueueingBatch /\ "fallback" \in DOMAIN Cancelling
    BY DEF Listing, ReadingJob, ReadingSchedule, Enqueueing, EnqueueingBatch, Cancelling
  <2>3. /\ "explain" \notin DOMAIN Bulk /\ "explain" \notin DOMAIN Purging
        /\ "explain" \notin DOMAIN CreatingSchedule /\ "explain" \notin DOMAIN DeletingSchedule
        /\ "explain" \notin DOMAIN EnablingSchedule
    BY DEF Bulk, Purging, CreatingSchedule, DeletingSchedule, EnablingSchedule
  <2> QED BY <2>1, <2>2, <2>3
<1>3. \A n \in DOMAIN EnqueueRoutes : Fine(n, EnqueueRoutes[n])
  <2>1. StartsAnew(EnqueueRoutes["enqueue"]) /\ StartsAnew(EnqueueRoutes["enqueueBatch"])
    BY DEF EnqueueRoutes, Route, StartsAnew, ChangedBefore, Enqueueing, EnqueueingBatch
  <2>2. /\ EnqueueRoutes["enqueue"].handler = Enqueueing
        /\ EnqueueRoutes["enqueueBatch"].handler = EnqueueingBatch
    BY DEF EnqueueRoutes, Route
  <2>3. Enqueueing \in Handlers /\ EnqueueingBatch \in Handlers
    BY DEF Handlers
  <2> QED BY <1>0, <1>1, <2>1, <2>2, <2>3
<1>4. \A n \in DOMAIN ReadRoutes : Fine(n, ReadRoutes[n])
  <2>1. \A n \in DOMAIN ReadRoutes : StartsAnew(ReadRoutes[n])
    BY DEF ReadRoutes, Route, StartsAnew, ChangedBefore, Listing, ReadingJob
  <2> QED BY <1>0, <1>1, <2>1 DEF ReadRoutes, Route, Handlers
<1>5. \A n \in DOMAIN AdminRoutes : Fine(n, AdminRoutes[n])
  <2>1. \A n \in DOMAIN AdminRoutes : StartsAnew(AdminRoutes[n])
    BY DEF AdminRoutes, Route, StartsAnew, ChangedBefore, Cancelling, Advancing, Bulk, Purging
  <2>2. /\ AdminRoutes["cancel"].handler = Cancelling /\ AdminRoutes["purge"].handler = Purging
        /\ AdminRoutes["retryNow"].handler = Advancing /\ AdminRoutes["replay"].handler = Advancing
        /\ AdminRoutes["pause"].handler = Bulk /\ AdminRoutes["resume"].handler = Bulk
    BY DEF AdminRoutes, Route
  <2>3. {Cancelling, Purging, Advancing, Bulk} \subseteq Handlers
    BY DEF Handlers
  <2> QED BY <1>0, <1>1, <2>1, <2>2, <2>3
<1>6. \A n \in DOMAIN DlqRoutes : Fine(n, DlqRoutes[n])
  <2>1. \A n \in DOMAIN DlqRoutes : StartsAnew(DlqRoutes[n])
    BY DEF DlqRoutes, Route, StartsAnew, ChangedBefore, Listing, Bulk
  <2> QED BY <1>0, <1>1, <2>1 DEF DlqRoutes, Route, Handlers
<1>7. \A n \in DOMAIN ScheduleRoutes : Fine(n, ScheduleRoutes[n])
  <2>1. \A n \in DOMAIN ScheduleRoutes : StartsAnew(ScheduleRoutes[n])
    <3>1. \A n \in {"listSchedules", "getSchedule"} : StartsAnew(ScheduleRoutes[n])
      BY DEF ScheduleRoutes, Route, StartsAnew, ChangedBefore, Listing, ReadingSchedule
    <3>2. \A n \in {"createSchedule", "deleteSchedule"} : StartsAnew(ScheduleRoutes[n])
      BY DEF ScheduleRoutes, Route, StartsAnew, ChangedBefore, CreatingSchedule, DeletingSchedule
    <3>3. \A n \in {"pauseSchedule", "resumeSchedule"} : StartsAnew(ScheduleRoutes[n])
      BY DEF ScheduleRoutes, Route, StartsAnew, ChangedBefore, EnablingSchedule
    <3> QED BY <1>1, <3>1, <3>2, <3>3
  <2>2. /\ ScheduleRoutes["listSchedules"].handler = Listing
        /\ ScheduleRoutes["getSchedule"].handler = ReadingSchedule
        /\ ScheduleRoutes["createSchedule"].handler = CreatingSchedule
        /\ ScheduleRoutes["deleteSchedule"].handler = DeletingSchedule
        /\ ScheduleRoutes["pauseSchedule"].handler = EnablingSchedule
        /\ ScheduleRoutes["resumeSchedule"].handler = EnablingSchedule
    BY DEF ScheduleRoutes, Route
  <2>3. {Listing, ReadingSchedule, CreatingSchedule, DeletingSchedule, EnablingSchedule} \subseteq Handlers
    BY DEF Handlers
  <2> QED BY <1>0, <1>1, <2>1, <2>2, <2>3
<1>8. \A n \in DOMAIN EventRoutes : Fine(n, EventRoutes[n])
  BY <1>0, <1>1 DEF EventRoutes, Route, Handlers, StartsAnew
<1> HIDE DEF Fine
<1>9. \A n \in RouteNames : Fine(n, Table(n))
  <2> SUFFICES ASSUME NEW n \in RouteNames PROVE Fine(n, Table(n))
    OBVIOUS
  <2>1. CASE n \in DOMAIN EnqueueRoutes
    BY <1>1, <1>3, <2>1 DEF Table
  <2>2. CASE n \in DOMAIN ReadRoutes
    BY <1>1, <1>4, <2>2 DEF Table
  <2>3. CASE n \in DOMAIN AdminRoutes
    BY <1>1, <1>5, <2>3 DEF Table
  <2>4. CASE n \in DOMAIN DlqRoutes
    BY <1>1, <1>6, <2>4 DEF Table
  <2>5. CASE n \in DOMAIN ScheduleRoutes
    BY <1>1, <1>7, <2>5 DEF Table
  <2>6. CASE n \in DOMAIN EventRoutes
    BY <1>1, <1>8, <2>6 DEF Table
  <2> QED BY <2>1, <2>2, <2>3, <2>4, <2>5, <2>6 DEF RouteNames
<1> QED BY <1>1, <1>2, <1>9 DEF Fine

LEMMA RequestFacts ==
  ASSUME NEW n \in DOMAIN Requests
  PROVE  IsRequest(Requests[n])
  BY ServerAssumptions

LEMMA HandlerFacts ==
  ASSUME NEW q, IsRequest(q)
  PROVE  /\ HandlerOf(q) \in Handlers /\ Sound(HandlerOf(q))
         /\ q.route \in Probes => HandlerOf(q) = Probing
         /\ q.route = "getJob" => HandlerOf(q) = ReadingJob
         /\ q.route \in DOMAIN EventRoutes => HandlerOf(q) = Listing
         /\ HandlerOf(q) = Advancing => q.route \in {"retryNow", "replay"}
<1>1. CASE q.route \in Probes
  <2>1. HandlerOf(q) = Probing /\ Probing \in Handlers
    BY <1>1 DEF HandlerOf, Handlers
  <2>2. Probing # Advancing
    <3>1. "read" \in DOMAIN Probing /\ "read" \notin DOMAIN Advancing
      BY DEF Probing, Advancing
    <3> QED BY <3>1
  <2>3. q.route \notin DOMAIN EventRoutes /\ q.route # "getJob"
    BY <1>1 DEF Probes, EventRoutes
  <2> QED BY <1>1, <2>1, <2>2, <2>3, HandlersAreSound
<1>2. CASE q.route \in RouteNames
  BY <1>2, RouteFacts, HandlersAreSound DEF HandlerOf
<1> QED BY <1>1, <1>2 DEF IsRequest

LEMMA ErrorFacts ==
  ASSUME NEW r
  PROVE  /\ ErrorOf(r) \in Answers \ {"none", "ok"}
         /\ ErrorOf(r) # "DATABASE_ERROR" => r.stmt = "defaults"
  BY DEF ErrorOf, Answers, Errors

LEMMA RefusalFacts ==
  ASSUME NEW q, hits[q.key] \in Nat
  PROVE  Refusal(q) \in {"none"} \cup (Errors \ {"DATABASE_ERROR"})
  BY ServerAssumptions DEF Refusal, Errors

-----------------------------------------------------------------------------
(* Steps of one handler.                                                   *)

LEMMA ClosedFacts ==
  ASSUME NEW gone, NEW shut \in BOOLEAN
  PROVE  /\ ConnOK(Closed, gone) /\ Closed.at = "idle" /\ Closed.client = "gone"
         /\ ConnOK([Closed EXCEPT !.shut = shut], gone)
  BY DEF ConnOK, Closed, Conn, Points, Answers, Consistent, Honest, Tells, Refused, Excused

\* An answer that is true keeps the connection in order, whether it is received or not.
LEMMA EndKeeps ==
  ASSUME NEW gone, NEW r \in Conn, r.req \in DOMAIN Requests,
         NEW a \in Answers \ {"none"}, Tells(r, a), Excused(r),
         r.stale => Req(r).key \in gone /\ ~r.effect,
         r.stale /\ a = "ok" => Req(r).route \in Probes
  PROVE  /\ ConnOK(Answered(r, a), gone)
         /\ Answered(r, a).at = "idle" /\ Answered(r, a).client = r.client
<1> DEFINE s == [r EXCEPT !.at = "idle", !.stmt = "none", !.found = FALSE, !.late = FALSE, !.answer = a]
<1>1. /\ s \in Conn /\ s.at = "idle" /\ s.answer = a /\ s.client = r.client /\ s.req = r.req
      /\ s.effect = r.effect /\ s.audited = r.audited /\ s.stale = r.stale /\ s.shut = r.shut
  BY DEF Conn, Points
<1> HIDE DEF s
<1>2. Consistent(s)
  BY <1>1 DEF Consistent
<1>3. Honest(s) /\ Refused(s, gone) /\ Excused(s)
  BY <1>1 DEF Honest, Tells, Audited, Refused, Excused, Req
<1>4. ConnOK(s, gone)
  BY <1>1, <1>2, <1>3 DEF ConnOK
<1>5. CASE r.client = "gone"
  BY <1>5, ClosedFacts DEF Answered
<1>6. CASE r.client # "gone"
  BY <1>1, <1>4, <1>6 DEF Answered, s
<1> QED BY <1>5, <1>6

\* A statement is issued, or meets the closed pool when the client has gone.
LEMMA IssuedKeeps ==
  ASSUME NEW gone, NEW r, ConnOK(r, gone), r.at # "stream", HasPool \/ r.client = "gone"
  PROVE  ConnOK(Issued(r), gone) /\ Issued(r).at # "stream" /\ Issued(r).client = r.client
<1>1. CASE HasPool
  BY <1>1 DEF Issued
<1>2. CASE ~HasPool
  <2> DEFINE s == [Closed EXCEPT !.shut = TRUE]
  <2>1. Issued(r) = s /\ r.client = "gone"
    BY <1>2 DEF Issued, Answered
  <2>2. s.at = "idle" /\ s.client = "gone"
    BY DEF Closed
  <2>3. ConnOK(s, gone)
    BY ClosedFacts
  <2> QED BY <2>1, <2>2, <2>3
<1> QED BY <1>1, <1>2

\* A connection on which a request has just come in.
LEMMA FirstStepKeeps ==
  ASSUME NEW n \in DOMAIN Requests, HasPool, NEW gone
  PROVE  LET r == FirstStep([Closed EXCEPT !.client = "open", !.req = n,
                                           !.stale = Requests[n].key \in gone], Requests[n])
         IN ConnOK(r, gone) /\ r.at # "stream"
<1> DEFINE q == Requests[n]
           stale == q.key \in gone
           r == [Closed EXCEPT !.client = "open", !.req = n, !.stale = stale]
           OK(s) == ConnOK(s, gone) /\ s.at # "stream"
<1>0. stale \in BOOLEAN
  OBVIOUS
<1> HIDE DEF stale
<1>1. /\ r \in Conn /\ r.client = "open" /\ r.req = n /\ r.at = "idle" /\ r.answer = "none"
      /\ r.stmt = "none" /\ r.effect = FALSE /\ r.audited = FALSE /\ r.stale = stale /\ r.shut = FALSE
  BY <1>0 DEF Closed, Conn, Points, Answers
<1>2. IsRequest(q) /\ Req(r) = q
  BY <1>1, RequestFacts DEF Req
<1> HIDE DEF r
<1>3. \A a \in {"PAYLOAD_TOO_LARGE", "VALIDATION_ERROR", "UNAUTHENTICATED"} : OK(Answered(r, a))
  <2>1. {"PAYLOAD_TOO_LARGE", "VALIDATION_ERROR", "UNAUTHENTICATED"} \subseteq Answers \ {"none", "ok", "DATABASE_ERROR"}
    BY DEF Answers, Errors
  <2> QED BY <1>1, <1>2, <2>1, EndKeeps DEF Tells, Excused, stale
<1>4. q.route = "health" => OK(Answered(r, "ok"))
  <2> SUFFICES ASSUME q.route = "health" PROVE OK(Answered(r, "ok"))
    OBVIOUS
  <2>1. q.route \in Probes /\ "ok" \in Answers \ {"none"}
    BY DEF Probes, Answers
  <2>2. ~Audited(r)
    <3>1. HandlerOf(q) = Probing
      BY <1>2, <2>1, HandlerFacts
    <3> QED BY <1>1, <3>1 DEF Audited, Probing
  <2> QED BY <1>1, <1>2, <2>1, <2>2, EndKeeps DEF Tells, Excused, stale
<1>5. q.route = "ready" => OK(Querying(r, "read"))
  <2> SUFFICES ASSUME q.route = "ready" PROVE OK(Querying(r, "read"))
    OBVIOUS
  <2> DEFINE s == [r EXCEPT !.at = "query", !.stmt = "read"]
  <2>1. /\ s \in Conn /\ s.at = "query" /\ s.stmt = "read" /\ s.client = "open" /\ s.req = n
        /\ s.answer = "none" /\ s.effect = FALSE /\ s.audited = FALSE /\ s.stale = stale /\ s.shut = FALSE
    BY <1>1 DEF Conn, Points, InFlight, Statements
  <2> HIDE DEF s
  <2>2. HandlerOf(q) = Probing /\ q.route \in Probes
    BY <1>2, HandlerFacts DEF Probes
  <2>3. "read" \in DOMAIN Probing /\ ~ChangedBefore(Probing, "read")
    BY DEF Probing, ChangedBefore
  <2>4. Req(s) = q
    BY <2>1 DEF Req
  <2>5. ConnOK(s, gone)
    BY <2>1, <2>2, <2>3, <2>4 DEF ConnOK, Consistent, Honest, Refused, Excused, stale
  <2> QED BY <2>1, <2>5, IssuedKeeps DEF Querying, s
<1>6. q.route \notin Probes => OK(Authenticating(r))
  <2> SUFFICES ASSUME q.route \notin Probes PROVE OK(Authenticating(r))
    OBVIOUS
  <2> DEFINE s == [r EXCEPT !.at = "auth"]
  <2>1. /\ s \in Conn /\ s.at = "auth" /\ s.stmt = "none" /\ s.client = "open" /\ s.req = n
        /\ s.answer = "none" /\ s.effect = FALSE /\ s.audited = FALSE /\ s.stale = stale /\ s.shut = FALSE
    BY <1>1 DEF Conn, Points, InFlight
  <2> HIDE DEF s
  <2>2. Req(s) = q /\ q.route \in RouteNames
    BY <1>2, <2>1 DEF Req, IsRequest
  <2>3. ConnOK(s, gone)
    BY <2>1, <2>2 DEF ConnOK, Consistent, Honest, Refused, Excused, stale
  <2> QED BY <2>1, <2>3, IssuedKeeps DEF Authenticating, s
<1> HIDE DEF q, OK
<1>7. OK(FirstStep(r, q))
  <2>1. q.form \in {"ok", "unparsable", "tooLarge", "invalid"}
    BY <1>2 DEF IsRequest
  <2>2. CASE q.form \in {"tooLarge", "unparsable"}
    BY <1>3, <2>2 DEF FirstStep
  <2>3. CASE q.form \in {"ok", "invalid"} /\ q.route = "health"
    BY <1>4, <2>3 DEF FirstStep, Probes
  <2>4. CASE q.form \in {"ok", "invalid"} /\ q.route = "ready"
    BY <1>5, <2>4 DEF FirstStep, Probes
  <2>5. CASE q.form \in {"ok", "invalid"} /\ q.route \notin Probes
    BY <1>3, <1>6, <2>5 DEF FirstStep, Probes
  <2> QED BY <2>1, <2>2, <2>3, <2>4, <2>5 DEF Probes
<1> QED BY <1>7 DEF q, r, stale, OK

\* What a connection that waits or is about to go on is known to satisfy.
LEMMA OpenFacts ==
  ASSUME ServerInv, NEW c \in Connection, conn[c].at # "idle"
  PROVE  LET o == conn[c]
             q == RequestOf(c)
         IN /\ o \in Conn /\ Consistent(o) /\ Refused(o, revoked) /\ Excused(o)
            /\ q = Req(o) /\ o.req \in DOMAIN Requests /\ o.answer = "none"
            /\ IsRequest(q) /\ HandlerOf(q) \in Handlers /\ Sound(HandlerOf(q))
            /\ HasPool \/ o.client = "gone"
<1>1. ConnOK(conn[c], revoked) /\ RequestOf(c) = Req(conn[c])
  BY DEF ServerInv, ConnsOK, RequestOf, Req
<1>2. conn[c].req \in DOMAIN Requests /\ conn[c].answer = "none"
  BY <1>1 DEF ConnOK, Consistent
<1>3. IsRequest(RequestOf(c))
  BY <1>2, RequestFacts DEF RequestOf
<1>4. HasPool \/ conn[c].client = "gone"
  BY DEF ServerInv, CountsOK, ClientsFirst, HasPool
<1> QED BY <1>1, <1>2, <1>3, <1>4, HandlerFacts DEF ConnOK

\* The new state of the connection that a step is about.
Kept(c, r) == /\ ConnOK(r, revoked) /\ r.client = conn[c].client
              /\ conn[c].at # "stream" /\ r.at # "stream"

LEMMA RefuseKeeps ==
  ASSUME ServerInv, NEW c \in Connection, conn[c].at \in {"known", "unknown"},
         NEW a \in Errors \ {"DATABASE_ERROR"}
  PROVE  Kept(c, Answered(conn[c], a))
<1> DEFINE o == conn[c]
<1>1. /\ o \in Conn /\ Consistent(o) /\ Refused(o, revoked) /\ Excused(o) /\ o.req \in DOMAIN Requests
      /\ ~o.effect /\ ~o.audited /\ o.at # "stream"
  BY OpenFacts DEF Consistent
<1>2. a \in Answers \ {"none"} /\ a # "ok"
  BY DEF Answers, Errors
<1>3. Tells(o, a) /\ (o.stale => Req(o).key \in revoked /\ ~o.effect)
  BY <1>1, <1>2 DEF Tells, Refused
<1>4. o.stale /\ a = "ok" => Req(o).route \in Probes
  BY <1>2
<1> HIDE DEF o
<1>5. ConnOK(Answered(o, a), revoked) /\ Answered(o, a).at = "idle" /\ Answered(o, a).client = o.client
  <2>1. o \in Conn /\ o.req \in DOMAIN Requests /\ a \in Answers \ {"none"}
    BY <1>1, <1>2
  <2>2. Tells(o, a) /\ Excused(o)
    BY <1>1, <1>3
  <2>3. o.stale => Req(o).key \in revoked /\ ~o.effect
    BY <1>3
  <2> QED BY <1>4, <2>1, <2>2, <2>3, EndKeeps
<1> QED BY <1>1, <1>5 DEF Kept, o

LEMMA authenticateKeeps ==
  ASSUME ServerInv, NEW c \in Connection, NEW r, conn' = [conn EXCEPT ![c] = r], authenticate(c)
  PROVE  Kept(c, r)
<1> DEFINE o == conn[c]
           at == IF Found(c) THEN "known" ELSE "unknown"
<1>1. r = [o EXCEPT !.at = at] /\ o.at = "auth"
  BY DEF authenticate, Set, ServerInv, ConnsOK
<1>2. /\ o \in Conn /\ Consistent(o) /\ Refused(o, revoked) /\ Excused(o) /\ o.answer = "none"
      /\ o.req \in DOMAIN Requests /\ RequestOf(c) = Req(o)
  BY <1>1, OpenFacts
<1>3. /\ Found(c) => Req(o).key \in DOMAIN Key
      /\ ~(o.stale /\ Found(c))
  BY <1>2 DEF Found, Refused
<1>4. at \in {"known", "unknown"} /\ (at = "known" => Found(c))
  OBVIOUS
<1> HIDE DEF at
<1>5. /\ r \in Conn /\ r.at = at /\ r.client = o.client /\ r.req = o.req /\ r.answer = o.answer
      /\ r.stmt = o.stmt /\ r.effect = o.effect /\ r.audited = o.audited /\ r.stale = o.stale
      /\ r.shut = o.shut
  BY <1>1, <1>2, <1>4 DEF Conn, Points, Resumes
<1>6. Consistent(r)
  BY <1>1, <1>2, <1>3, <1>4, <1>5 DEF Consistent, Req
<1>7. Honest(r) /\ Refused(r, revoked) /\ Excused(r)
  BY <1>1, <1>2, <1>3, <1>4, <1>5 DEF Honest, Refused, Excused, Req
<1> QED BY <1>1, <1>4, <1>5, <1>6, <1>7 DEF Kept, ConnOK

LEMMA DispatchKeeps ==
  ASSUME ServerInv, NEW c \in Connection, NEW r, conn' = [conn EXCEPT ![c] = r], Dispatch(c)
  PROVE  Kept(c, r)
<1> DEFINE o == conn[c]
           q == RequestOf(c)
           refusal == Refusal(q)
<1>1. PICK stmt \in Table(q.route).starts :
        r = IF refusal # "none" THEN Answered(o, refusal) ELSE Querying(o, stmt)
  BY DEF Dispatch, Set, ServerInv, ConnsOK
<1>2. o.at = "known"
  BY DEF Dispatch
<1>3. /\ o \in Conn /\ Consistent(o) /\ Refused(o, revoked) /\ Excused(o) /\ o.answer = "none"
      /\ o.req \in DOMAIN Requests /\ q = Req(o) /\ Sound(HandlerOf(q)) /\ (HasPool \/ o.client = "gone")
  BY <1>2, OpenFacts
<1>4. q.key \in DOMAIN Key /\ ~o.effect /\ ~o.audited /\ q.route \in RouteNames
  BY <1>2, <1>3 DEF Consistent
<1>5. refusal \in {"none"} \cup (Errors \ {"DATABASE_ERROR"})
  <2>1. hits[q.key] \in Nat
    BY <1>4, ServerAssumptions DEF ServerInv, CountsOK
  <2> QED BY <2>1, RefusalFacts
<1> HIDE DEF refusal
<1>6. CASE refusal # "none"
  BY <1>1, <1>2, <1>5, <1>6, RefuseKeeps
<1>7. CASE refusal = "none"
  <2> DEFINE s == [o EXCEPT !.at = "query", !.stmt = stmt]
  <2>1. /\ HandlerOf(q) = Table(q.route).handler /\ StartsAnew(Table(q.route)) /\ ~o.stale
    BY <1>2, <1>3, <1>4, RouteFacts DEF HandlerOf, Refused
  <2>2. stmt \in DOMAIN HandlerOf(q) /\ ~ChangedBefore(HandlerOf(q), stmt) /\ stmt # "reread"
    BY <2>1 DEF StartsAnew
  <2>3. stmt \in Statements
    BY <1>3, <2>2 DEF Sound
  <2>4. /\ s \in Conn /\ s.at = "query" /\ s.stmt = stmt /\ s.client = o.client /\ s.req = o.req
        /\ s.answer = "none" /\ s.effect = o.effect /\ s.audited = o.audited /\ s.stale = o.stale
        /\ s.shut = o.shut
    BY <1>3, <2>3 DEF Conn, Points, InFlight
  <2>5. r = Issued(s)
    BY <1>1, <1>7 DEF Querying
  <2> HIDE DEF s
  <2>6. Req(s) = q
    BY <1>3, <2>4 DEF Req
  <2>7. Consistent(s)
    BY <1>3, <1>4, <2>2, <2>4, <2>6 DEF Consistent, Conn
  <2>8. ConnOK(s, revoked)
    BY <1>3, <2>1, <2>4, <2>7 DEF ConnOK, Honest, Refused, Excused
  <2> QED BY <1>2, <1>3, <2>4, <2>5, <2>8, IssuedKeeps DEF Kept
<1> QED BY <1>6, <1>7

LEMMA ExecuteKeeps ==
  ASSUME ServerInv, NEW c \in Connection, NEW r, conn' = [conn EXCEPT ![c] = r], Execute(c)
  PROVE  Kept(c, r)
<1> DEFINE o == conn[c]
           q == RequestOf(c)
           h == HandlerOf(q)
           changes(found) == o.stmt \in {"bulk", "rest"} \/ (o.stmt \in {"change", "fallback"} /\ found)
<1>1. PICK found \in BOOLEAN :
        r = [o EXCEPT !.at = "done", !.found = found, !.effect = @ \/ changes(found),
                      !.audited = @ \/ o.stmt = "audit"]
  BY DEF Execute, Outcomes, Set, ServerInv, ConnsOK
<1>2. o.at = "query"
  BY DEF Execute
<1>3. /\ o \in Conn /\ Consistent(o) /\ Refused(o, revoked) /\ Excused(o) /\ o.answer = "none"
      /\ o.req \in DOMAIN Requests /\ q = Req(o) /\ IsRequest(q)
  BY <1>2, OpenFacts
<1>4. /\ o.stmt \in DOMAIN h /\ (o.effect <=> ChangedBefore(h, o.stmt))
      /\ o.audited <=> o.stmt = "reread"
  BY <1>2, <1>3 DEF Consistent
<1> DEFINE effect == o.effect \/ changes(found)
           audited == o.audited \/ o.stmt = "audit"
<1>5. (effect <=> ChangedBy(h, o.stmt, found)) /\ (audited <=> o.stmt \in {"audit", "reread"})
  BY <1>4 DEF ChangedBy
<1>6. effect \in BOOLEAN /\ audited \in BOOLEAN
  OBVIOUS
<1>7. r = [o EXCEPT !.at = "done", !.found = found, !.effect = effect, !.audited = audited]
  BY <1>1
<1> HIDE DEF h, effect, audited, changes
<1>8. /\ r \in Conn /\ r.at = "done" /\ r.stmt = o.stmt /\ r.found = found /\ r.client = o.client
      /\ r.req = o.req /\ r.answer = "none" /\ r.effect = effect /\ r.audited = audited
      /\ r.stale = o.stale /\ r.shut = o.shut
  BY <1>3, <1>6, <1>7 DEF Conn, Points, Resumes
<1>9. Req(r) = q /\ h = HandlerOf(Req(r))
  BY <1>3, <1>8 DEF Req, h
<1>10. o.stale => ~effect /\ q.route \in Probes
  <2>1. o.stale => q.route \in Probes
    BY <1>2, <1>3 DEF Refused
  <2>2. q.route \in Probes => h = Probing
    BY <1>3, HandlerFacts DEF h
  <2>3. \A s \in DOMAIN Probing : ~ChangedBy(Probing, s, found)
    BY DEF Probing, ChangedBy, ChangedBefore
  <2> QED BY <1>4, <1>5, <2>1, <2>2, <2>3
<1>11. Consistent(r)
  BY <1>3, <1>4, <1>5, <1>8, <1>9 DEF Consistent
<1>12. ConnOK(r, revoked)
  BY <1>3, <1>8, <1>9, <1>10, <1>11 DEF ConnOK, Honest, Refused, Excused
<1> QED BY <1>2, <1>8, <1>12 DEF Kept

LEMMA ResumeKeeps ==
  ASSUME ServerInv, NEW c \in Connection, NEW r, conn' = [conn EXCEPT ![c] = r], Resume(c)
  PROVE  Kept(c, r)
<1> DEFINE o == conn[c]
           q == RequestOf(c)
           h == HandlerOf(q)
           next == FollowUp(o)
<1>1. r = IF next \in Statements THEN Querying(o, next) ELSE Answered(o, AnswerOf(q, next))
  BY DEF Resume, Set, ServerInv, ConnsOK
<1>2. o.at = "done"
  BY DEF Resume
<1>3. /\ o \in Conn /\ Consistent(o) /\ Refused(o, revoked) /\ Excused(o) /\ o.answer = "none"
      /\ o.req \in DOMAIN Requests /\ q = Req(o) /\ IsRequest(q) /\ Sound(h)
      /\ HasPool \/ o.client = "gone"
  BY <1>2, OpenFacts
<1>4. /\ o.stmt \in DOMAIN h /\ (o.effect <=> ChangedBy(h, o.stmt, o.found))
      /\ o.audited <=> o.stmt \in {"audit", "reread"}
  BY <1>2, <1>3 DEF Consistent
<1>5. GoesOn(h, o.stmt, o.found, next)
  <2>1. next = IF o.found THEN h[o.stmt].found ELSE h[o.stmt].none
    BY <1>3 DEF FollowUp, Req
  <2>2. o.found \in BOOLEAN
    BY <1>3 DEF Conn
  <2> QED BY <1>3, <1>4, <2>1, <2>2 DEF Sound
<1>6. o.stale => q.route \in Probes
  BY <1>2, <1>3 DEF Refused
<1> HIDE DEF next, h
<1>7. CASE next \in Statements
  <2> DEFINE s == [o EXCEPT !.at = "query", !.stmt = next]
  <2>1. /\ s \in Conn /\ s.at = "query" /\ s.stmt = next /\ s.client = o.client /\ s.req = o.req
        /\ s.answer = "none" /\ s.effect = o.effect /\ s.audited = o.audited /\ s.stale = o.stale
        /\ s.shut = o.shut
    BY <1>3, <1>7 DEF Conn, Points, InFlight
  <2>2. next \in DOMAIN h
    <3>1. Statements \cap ({"ok"} \cup Errors) = {}
      BY DEF Statements, Errors
    <3> QED BY <1>5, <1>7, <3>1 DEF GoesOn
  <2>3. (o.effect <=> ChangedBefore(h, next)) /\ (o.audited <=> next = "reread")
    <3>1. ChangedBefore(h, next) <=> ChangedBy(h, o.stmt, o.found)
      BY <1>5, <2>2 DEF GoesOn
    <3>2. next = "reread" <=> o.stmt \in {"audit", "reread"}
      BY <1>5, <2>2 DEF GoesOn
    <3> QED BY <1>4, <3>1, <3>2
  <2>4. r = Issued(s)
    BY <1>1, <1>7 DEF Querying
  <2> HIDE DEF s
  <2>5. Req(s) = q /\ h = HandlerOf(Req(s))
    BY <1>3, <2>1 DEF Req, h
  <2>6. Consistent(s)
    BY <1>3, <2>1, <2>2, <2>3, <2>5 DEF Consistent
  <2>7. ConnOK(s, revoked)
    BY <1>3, <1>6, <2>1, <2>5, <2>6 DEF ConnOK, Honest, Refused, Excused
  <2> QED BY <1>2, <1>3, <2>1, <2>4, <2>7, IssuedKeeps DEF Kept
<1>8. CASE next \notin Statements
  <2> DEFINE a == AnswerOf(q, next)
  <2>1. next \in {"ok"} \cup (Errors \ {"DATABASE_ERROR"})
    BY <1>3, <1>5, <1>8 DEF GoesOn, Sound
  <2>2. a = next \/ (next = "ok" /\ a = "FORBIDDEN" /\ q.route = "getJob")
    BY DEF AnswerOf
  <2> HIDE DEF a
  <2>3. a \in Answers \ {"none", "DATABASE_ERROR"}
    BY <2>1, <2>2 DEF Answers, Errors
  <2>4. a = "ok" => next = "ok"
    BY <2>1, <2>2 DEF Errors
  <2>5. Audited(o) = ("audit" \in DOMAIN h)
    BY <1>3 DEF Audited, Req, h
  <2>6. q.route = "getJob" => ~o.effect
    <3>1. q.route = "getJob" => h = ReadingJob
      BY <1>3, HandlerFacts DEF h
    <3>2. \A s \in DOMAIN ReadingJob : ~ChangedBy(ReadingJob, s, o.found)
      BY DEF ReadingJob, ChangedBy, ChangedBefore
    <3> QED BY <1>4, <3>1, <3>2
  <2>7. a \notin {"none", "ok", "DATABASE_ERROR"} /\ o.effect =>
          o.audited /\ a = "JOB_NOT_FOUND" /\ q.route \in {"retryNow", "replay"}
    <3> SUFFICES ASSUME a # "ok", o.effect
                 PROVE  o.audited /\ a = "JOB_NOT_FOUND" /\ q.route \in {"retryNow", "replay"}
      OBVIOUS
    <3>1. a = next /\ next \in Errors
      BY <2>1, <2>2, <2>6
    <3>2. o.stmt = "reread" /\ next = "JOB_NOT_FOUND" /\ h = Advancing
      BY <1>4, <1>5, <3>1 DEF GoesOn
    <3>3. q.route \in {"retryNow", "replay"}
      BY <1>3, <3>2, HandlerFacts DEF h
    <3> QED BY <1>4, <3>1, <3>2, <3>3
  <2>8. o.audited => o.effect
    BY <1>4 DEF ChangedBy, ChangedBefore
  <2>9. a = "ok" /\ Audited(o) => o.effect /\ o.audited
    BY <1>4, <1>5, <2>4, <2>5 DEF GoesOn
  <2>10. Tells(o, a)
    BY <1>3, <2>7, <2>8, <2>9 DEF Tells
  <2>11. o.stale => Req(o).key \in revoked /\ ~o.effect
    BY <1>3 DEF Refused
  <2>12. r = Answered(o, a)
    BY <1>1, <1>8 DEF a
  <2> HIDE DEF o
  <2>13. ConnOK(r, revoked) /\ r.at = "idle" /\ r.client = o.client
    BY <1>3, <1>6, <2>3, <2>10, <2>11, <2>12, EndKeeps
  <2> QED BY <1>2, <2>13 DEF Kept, o
<1> QED BY <1>7, <1>8

LEMMA QueryFailsKeeps ==
  ASSUME ServerInv, NEW c \in Connection, NEW r, conn' = [conn EXCEPT ![c] = r], QueryFails(c)
  PROVE  Kept(c, r)
<1> DEFINE o == conn[c]
           a == ErrorOf(o)
<1>1. r = Answered(o, a)
  BY DEF QueryFails, Set, ServerInv, ConnsOK
<1>2. o.at \in {"auth", "query", "done"}
  BY DEF QueryFails, InFlight
<1>3. /\ o \in Conn /\ Consistent(o) /\ Refused(o, revoked) /\ Excused(o) /\ o.req \in DOMAIN Requests
  BY <1>2, OpenFacts
<1>4. a \in Answers \ {"none", "ok"} /\ (a # "DATABASE_ERROR" => o.stmt = "defaults")
  BY ErrorFacts
<1>5. /\ o.stmt = "defaults" => ~o.effect
      /\ o.audited => o.effect
  BY <1>2, <1>3 DEF Consistent, ChangedBy, ChangedBefore
<1>6. Tells(o, a) /\ (o.stale => Req(o).key \in revoked /\ ~o.effect)
  BY <1>3, <1>4, <1>5 DEF Tells, Refused
<1> HIDE DEF a, o
<1>7. ConnOK(r, revoked) /\ r.at = "idle" /\ r.client = o.client
  BY <1>1, <1>3, <1>4, <1>6, EndKeeps
<1> QED BY <1>2, <1>7 DEF Kept, o

LEMMA HandlerKeeps ==
  ASSUME ServerInv, NEW c \in Connection, NEW r, conn' = [conn EXCEPT ![c] = r],
         \/ authenticate(c) \/ requireAuthRefuses(c) \/ Dispatch(c) \/ Execute(c)
         \/ Resume(c) \/ QueryFails(c)
  PROVE  Kept(c, r)
<1>1. CASE requireAuthRefuses(c)
  <2>1. r = Answered(conn[c], "UNAUTHENTICATED") /\ conn[c].at = "unknown"
    BY <1>1 DEF requireAuthRefuses, Set, ServerInv, ConnsOK
  <2>2. "UNAUTHENTICATED" \in Errors \ {"DATABASE_ERROR"}
    BY DEF Errors
  <2> QED BY <2>1, <2>2, RefuseKeeps
<1> QED BY <1>1, authenticateKeeps, DispatchKeeps, ExecuteKeeps, ResumeKeeps, QueryFailsKeeps

-----------------------------------------------------------------------------
(* Steps of the whole server.                                              *)

LEMMA SubscriberCount ==
  ASSUME NEW S \in SUBSET Connection, Cardinality(S) <= MaxSubscribers
  PROVE  /\ Cardinality(S) \in Nat
         /\ \A T \in SUBSET S : Cardinality(T) <= MaxSubscribers
         /\ \A c \in Connection : ~(Cardinality(S) >= MaxSubscribers) =>
              Cardinality(S \cup {c}) <= MaxSubscribers
<1>1. IsFiniteSet(S) /\ Cardinality(S) \in Nat /\ MaxSubscribers \in Nat
  BY ServerAssumptions, FS_Subset, FS_CardinalityType
<1>2. ASSUME NEW T \in SUBSET S
      PROVE  Cardinality(T) <= MaxSubscribers
  <2>1. Cardinality(T) <= Cardinality(S) /\ Cardinality(T) \in Nat
    BY <1>1, FS_Subset, FS_CardinalityType
  <2> QED BY <1>1, <2>1
<1>3. ASSUME NEW c \in Connection, ~(Cardinality(S) >= MaxSubscribers)
      PROVE  Cardinality(S \cup {c}) <= MaxSubscribers
  <2>1. Cardinality(S \cup {c}) \in {Cardinality(S), Cardinality(S) + 1}
    BY <1>1, FS_AddElement
  <2> QED BY <1>1, <1>3, <2>1
<1> QED BY <1>1, <1>2, <1>3

LEMMA NoSubscribers ==
  ASSUME subscribers = {}
  PROVE  subscribers \subseteq Connection /\ Cardinality(subscribers) <= MaxSubscribers
<1>1. Cardinality(subscribers) = 0
  BY FS_EmptySet
<1> QED BY <1>1, ServerAssumptions

LEMMA GoneKeeps ==
  ASSUME NEW gone, NEW more, gone \subseteq more, NEW r, ConnOK(r, gone)
  PROVE  ConnOK(r, more)
  BY DEF ConnOK, Refused

\* Of the connections, c alone changes, and neither is nor becomes a stream.
LEMMA OneConnection ==
  ASSUME ServerInv, CountsOK', NEW c \in Connection, NEW r, conn' = [conn EXCEPT ![c] = r],
         ConnOK(r, revoked), conn[c].at # "stream", r.at # "stream",
         r.client = "gone" \/ r.client = conn[c].client \/ phase \in {"serving", "closing"},
         UNCHANGED <<phase, subscribers, heartbeat, revoked>>
  PROVE  ServerInv'
<1>1. conn \in [Connection -> Conn] /\ r \in Conn
  BY DEF ServerInv, ConnsOK, ConnOK
<1>2. conn'[c] = r /\ \A d \in Connection \ {c} : conn'[d] = conn[d]
  BY <1>1
<1>3. ConnsOK'
  BY <1>1, <1>2 DEF ServerInv, ConnsOK
<1>4. OpenStreamIsFed'
  BY <1>2 DEF ServerInv, OpenStreamIsFed
<1>5. ClientsFirst'
  BY <1>2 DEF ServerInv, ClientsFirst
<1> QED BY <1>3, <1>4, <1>5 DEF ServerInv

\* The streams of C are ended, and everything else stays.
LEMMA EndedKeeps ==
  ASSUME ServerInv, NEW C \in SUBSET subscribers
  PROVE  /\ Ended(C) => conn' \in [Connection -> Conn]
         /\ \A c \in C : /\ ConnOK(Answered(conn[c], "ok"), revoked)
                         /\ Answered(conn[c], "ok").at = "idle"
                         /\ Answered(conn[c], "ok").client = conn[c].client
<1>1. ASSUME NEW c \in C
      PROVE  /\ ConnOK(Answered(conn[c], "ok"), revoked) /\ Answered(conn[c], "ok") \in Conn
             /\ Answered(conn[c], "ok").at = "idle"
             /\ Answered(conn[c], "ok").client = conn[c].client
  <2> DEFINE o == conn[c]
  <2>1. c \in Connection /\ o.at = "stream"
    BY DEF ServerInv, OpenStreamIsFed
  <2>2. /\ o \in Conn /\ Consistent(o) /\ Refused(o, revoked) /\ Excused(o) /\ o.req \in DOMAIN Requests
        /\ RequestOf(c) = Req(o) /\ IsRequest(Req(o))
    BY <2>1, OpenFacts
  <2>3. ~o.effect /\ ~o.audited /\ Req(o).route \in DOMAIN EventRoutes /\ Req(o).route \in RouteNames
    BY <2>1, <2>2 DEF Consistent
  <2>4. ~Audited(o)
    <3>1. HandlerOf(Req(o)) = Listing
      BY <2>2, <2>3, HandlerFacts
    <3> QED BY <3>1 DEF Audited, Req, Listing
  <2>5. ~o.stale
    BY <2>1, <2>2, <2>3, RouteFacts DEF Refused
  <2>6. "ok" \in Answers \ {"none"}
    BY DEF Answers
  <2>7. Tells(o, "ok")
    BY <2>3, <2>4 DEF Tells
  <2> HIDE DEF o
  <2>8. /\ ConnOK(Answered(o, "ok"), revoked) /\ Answered(o, "ok").at = "idle"
        /\ Answered(o, "ok").client = o.client
    BY <2>2, <2>5, <2>6, <2>7, EndKeeps
  <2> QED BY <2>8 DEF o, ConnOK
<1>2. Ended(C) => conn' \in [Connection -> Conn]
  BY <1>1 DEF Ended, ServerInv, ConnsOK
<1> QED BY <1>1, <1>2

LEMMA InitHolds == ServerInit => ServerInv
<1> SUFFICES ASSUME ServerInit PROVE ServerInv
  OBVIOUS
<1>1. CountsOK
  <2>1. hits \in [DOMAIN Key -> 0..RateLimitMax] /\ failures \in 0..MaxFailures /\ snapshots \in 0..MaxSnapshots
    BY ServerAssumptions DEF ServerInit
  <2> QED BY <2>1, NoSubscribers DEF ServerInit, CountsOK
<1>2. ConnsOK
  BY ClosedFacts DEF ServerInit, ConnsOK, ConnOK
<1>3. OpenStreamIsFed /\ ClientsFirst
  BY ClosedFacts DEF ServerInit, OpenStreamIsFed, ClientsFirst
<1> QED BY <1>1, <1>2, <1>3 DEF ServerInv

\* The steps in which only counts change.
LEMMA QuietKeeps ==
  ASSUME ServerInv, CountsOK', UNCHANGED <<phase, conn, subscribers>>, revoked \subseteq revoked',
         heartbeat' = heartbeat \/ subscribers = {}
  PROVE  ServerInv'
<1>1. ConnsOK'
  BY GoneKeeps DEF ServerInv, ConnsOK
<1> QED BY <1>1 DEF ServerInv, OpenStreamIsFed, ClientsFirst

LEMMA CountedFacts ==
  ASSUME CountsOK, NEW k \in DOMAIN Key, Counted(k)
  PROVE  hits' \in [DOMAIN Key -> 0..RateLimitMax]
<1>1. RateLimitMax \in Nat /\ hits \in [DOMAIN Key -> 0..RateLimitMax]
  BY ServerAssumptions DEF CountsOK
<1> QED BY <1>1 DEF Counted

LEMMA RequestKeeps ==
  ASSUME ServerInv, NEW c \in Connection, NEW n \in DOMAIN Requests, Request(c, n)
  PROVE  ServerInv'
<1> DEFINE r == FirstStep([Closed EXCEPT !.client = "open", !.req = n,
                                         !.stale = Requests[n].key \in revoked], Requests[n])
<1>1. HasPool /\ phase \in {"serving", "closing"} /\ conn[c].at = "idle" /\ conn' = [conn EXCEPT ![c] = r]
  BY DEF Request, Set, HasPool
<1>2. ConnOK(r, revoked) /\ r.at # "stream"
  BY <1>1, FirstStepKeeps
<1>4. CountsOK'
  BY DEF ServerInv, CountsOK, Request, EventsUnchanged
<1> HIDE DEF r
<1> QED BY <1>1, <1>2, <1>4, OneConnection DEF Request, EventsUnchanged

LEMMA HandlersKeep ==
  ASSUME ServerInv, NEW c \in Connection,
         \/ authenticate(c) \/ requireAuthRefuses(c) \/ Dispatch(c) \/ Execute(c)
         \/ Resume(c) \/ QueryFails(c)
  PROVE  ServerInv'
<1>1. PICK r : conn' = [conn EXCEPT ![c] = r]
  BY DEF authenticate, requireAuthRefuses, Dispatch, Execute, Resume, QueryFails, Set
<1>2. /\ ConnOK(r, revoked) /\ r.client = conn[c].client
      /\ conn[c].at # "stream" /\ r.at # "stream"
  BY <1>1, HandlerKeeps DEF Kept
<1>3. UNCHANGED <<phase, subscribers, heartbeat, snapshots, revoked>>
  BY DEF authenticate, requireAuthRefuses, Dispatch, Execute, Resume, QueryFails, EventsUnchanged
<1>4. hits' \in [DOMAIN Key -> 0..RateLimitMax] /\ failures' \in 0..MaxFailures
  <2>1. CASE Dispatch(c)
    <3>1. RequestOf(c).key \in DOMAIN Key
      BY <2>1 DEF Dispatch, ServerInv, ConnsOK, ConnOK, Consistent, RequestOf, Req
    <3> QED BY <2>1, <3>1, CountedFacts DEF Dispatch, ServerInv, CountsOK
  <2>2. CASE QueryFails(c)
    BY <2>2, ServerAssumptions DEF QueryFails, ServerInv, CountsOK
  <2> QED BY <2>1, <2>2 DEF authenticate, requireAuthRefuses, Execute, Resume, ServerInv, CountsOK
<1>5. CountsOK'
  BY <1>3, <1>4 DEF ServerInv, CountsOK
<1> QED BY <1>1, <1>2, <1>3, <1>5, OneConnection

LEMMA SubscribeKeeps ==
  ASSUME ServerInv, NEW c \in Connection, subscribe(c)
  PROVE  ServerInv'
<1> DEFINE o == conn[c]
           refusal == Refusal(RequestOf(c))
<1>1. o.at = "known" /\ conn \in [Connection -> Conn] /\ UNCHANGED <<phase, snapshots, revoked, failures>>
  BY DEF ServerInv, ConnsOK, subscribe
<1>2. /\ o \in Conn /\ Consistent(o) /\ Refused(o, revoked) /\ Excused(o) /\ o.answer = "none"
      /\ RequestOf(c) = Req(o) /\ o.req \in DOMAIN Requests /\ ~o.effect /\ ~o.audited
      /\ o.stmt = "none" /\ Req(o).key \in DOMAIN Key /\ Req(o).route \in RouteNames
  BY <1>1, OpenFacts DEF Consistent
<1>3. hits' \in [DOMAIN Key -> 0..RateLimitMax]
  BY <1>2, CountedFacts DEF subscribe, ServerInv
<1>4. hits[Req(o).key] \in Nat
  BY <1>2, ServerAssumptions DEF ServerInv, CountsOK
<1>5. refusal \in {"none"} \cup (Errors \ {"DATABASE_ERROR"})
  BY <1>2, <1>4, RefusalFacts
<1>6. ~o.stale
  BY <1>1, <1>2, RouteFacts DEF Refused
<1>7. Cardinality(subscribers) \in Nat /\ subscribers \in SUBSET Connection
  BY SubscriberCount DEF ServerInv, CountsOK
<1> HIDE DEF refusal
<1>8. CASE refusal # "none" \/ Full
  <2> DEFINE a == IF refusal # "none" THEN refusal ELSE "NOT_READY"
  <2>1. conn' = [conn EXCEPT ![c] = Answered(o, a)] /\ UNCHANGED <<subscribers, heartbeat>>
    BY <1>8 DEF subscribe, Set, refusal
  <2>2. a \in Answers \ {"none", "ok", "DATABASE_ERROR"}
    BY <1>5 DEF Answers, Errors
  <2> HIDE DEF a
  <2>3. a \in Errors \ {"DATABASE_ERROR"}
    BY <2>2 DEF Answers
  <2>4. /\ ConnOK(Answered(o, a), revoked) /\ Answered(o, a).at # "stream"
        /\ Answered(o, a).client = o.client
    BY <1>1, <2>3, RefuseKeeps DEF Kept
  <2>5. CountsOK'
    BY <1>1, <1>3, <2>1 DEF ServerInv, CountsOK
  <2> QED BY <1>1, <2>1, <2>4, <2>5, OneConnection
<1>9. CASE ~(refusal # "none" \/ Full)
  <2> DEFINE late == o.client = "gone"
             r == [o EXCEPT !.at = "stream", !.late = late]
  <2>0. late \in BOOLEAN /\ (o.client = "gone" => late = TRUE)
    OBVIOUS
  <2>1. conn' = [conn EXCEPT ![c] = r] /\ subscribers' = subscribers \cup {c} /\ heartbeat' = TRUE
    BY <1>9 DEF subscribe, Set, refusal
  <2> HIDE DEF late
  <2>2. /\ r \in Conn /\ r.at = "stream" /\ r.late = late /\ r.client = o.client /\ r.req = o.req
        /\ r.answer = o.answer /\ r.stmt = o.stmt /\ r.effect = o.effect /\ r.audited = o.audited
        /\ r.stale = o.stale /\ r.shut = o.shut
    BY <1>2, <2>0 DEF Conn, Points
  <2> HIDE DEF r
  <2>3. Req(o).route \in DOMAIN EventRoutes
    BY <1>2 DEF subscribe
  <2>4. ConnOK(r, revoked)
    BY <1>1, <1>2, <1>6, <2>2, <2>3 DEF ConnOK, Consistent, Honest, Refused, Excused, Req
  <2>5. CountsOK'
    BY <1>1, <1>3, <1>7, <1>9, <2>1, SubscriberCount DEF ServerInv, CountsOK, Full
  <2>6. conn'[c] = r /\ \A d \in Connection \ {c} : conn'[d] = conn[d]
    BY <1>1, <2>1
  <2>7. ConnsOK'
    BY <1>1, <2>1, <2>2, <2>4, <2>6 DEF ServerInv, ConnsOK
  <2>8. OpenStreamIsFed' /\ ClientsFirst'
    <3>1. {d \in Connection : conn'[d].at = "stream"} = subscribers'
      BY <2>1, <2>2, <2>6 DEF ServerInv, OpenStreamIsFed
    <3>2. \A d \in subscribers' : conn'[d].client = "gone" => conn'[d].late
      BY <1>7, <2>0, <2>1, <2>2, <2>6 DEF ServerInv, OpenStreamIsFed
    <3> QED BY <1>1, <2>1, <2>2, <2>6, <3>1, <3>2 DEF ServerInv, OpenStreamIsFed, ClientsFirst
  <2> QED BY <2>5, <2>7, <2>8 DEF ServerInv
<1> QED BY <1>8, <1>9

LEMMA PublishKeeps ==
  ASSUME ServerInv, NEW slow \in SUBSET subscribers, publish(slow)
  PROVE  ServerInv'
<1>1. /\ conn' = [c \in Connection |-> IF c \in slow THEN Answered(conn[c], "ok") ELSE conn[c]]
      /\ subscribers' = subscribers \ slow
      /\ UNCHANGED <<phase, heartbeat, revoked, hits, failures>>
      /\ conn' \in [Connection -> Conn]
  BY EndedKeeps DEF publish, Ended
<1>2. \A c \in slow : /\ ConnOK(conn'[c], revoked) /\ conn'[c].at = "idle"
                      /\ conn'[c].client = conn[c].client
  <2>1. slow \subseteq Connection
    BY DEF ServerInv, CountsOK
  <2> QED BY <1>1, <2>1, EndedKeeps
<1>3. \A c \in Connection \ slow : conn'[c] = conn[c]
  BY <1>1
<1>4. CountsOK'
  <2>1. snapshots' \in 0..MaxSnapshots
    BY ServerAssumptions DEF publish, ServerInv, CountsOK
  <2>2. Cardinality(subscribers') <= MaxSubscribers
    BY <1>1, SubscriberCount DEF ServerInv, CountsOK
  <2> QED BY <1>1, <2>1, <2>2 DEF ServerInv, CountsOK
<1>5. ConnsOK'
  BY <1>1, <1>2, <1>3 DEF ServerInv, ConnsOK
<1>6. OpenStreamIsFed'
  <2>1. {c \in Connection : conn'[c].at = "stream"} = subscribers'
    BY <1>1, <1>2, <1>3 DEF ServerInv, OpenStreamIsFed
  <2>2. \A c \in subscribers' : c \in Connection \ slow /\ c \in subscribers
    BY <1>1 DEF ServerInv, CountsOK
  <2> QED BY <1>1, <1>3, <2>1, <2>2 DEF ServerInv, OpenStreamIsFed
<1>7. ClientsFirst'
  BY <1>1, <1>2, <1>3 DEF ServerInv, ClientsFirst
<1> QED BY <1>4, <1>5, <1>6, <1>7 DEF ServerInv

LEMMA LeaveKeeps ==
  ASSUME ServerInv, NEW c \in Connection, Leave(c)
  PROVE  ServerInv'
<1> DEFINE o == conn[c]
           r == IF o.at \in {"idle", "stream"} THEN Closed ELSE [o EXCEPT !.client = "gone"]
<1>1. /\ ConnOK(o, revoked) /\ o \in Conn /\ conn \in [Connection -> Conn]
      /\ conn' = [conn EXCEPT ![c] = r] /\ subscribers' = cleanup(c)
      /\ UNCHANGED <<phase, heartbeat, snapshots, revoked, hits, failures>>
  BY DEF ServerInv, ConnsOK, ConnOK, Leave, Set
<1>2. ConnOK(r, revoked) /\ r.client = "gone" /\ r.at # "stream"
  <2>1. CASE o.at \in {"idle", "stream"}
    BY <2>1, ClosedFacts
  <2>2. CASE o.at \notin {"idle", "stream"}
    <3>1. /\ r \in Conn /\ r.client = "gone" /\ r.at = o.at /\ r.req = o.req /\ r.answer = o.answer
          /\ r.effect = o.effect /\ r.audited = o.audited /\ r.stale = o.stale /\ r.stmt = o.stmt
          /\ r.found = o.found
      BY <1>1, <2>2 DEF Conn
    <3> HIDE DEF r
    <3>2. Consistent(r)
      BY <1>1, <3>1 DEF ConnOK, Consistent, Req
    <3>3. Honest(r) /\ Refused(r, revoked) /\ Excused(r)
      BY <1>1, <2>2, <3>1 DEF ConnOK, Honest, Refused, Excused, Req
    <3> QED BY <2>2, <3>1, <3>2, <3>3 DEF ConnOK
  <2> QED BY <2>1, <2>2
<1> HIDE DEF r
<1>3. conn'[c] = r /\ \A d \in Connection \ {c} : conn'[d] = conn[d]
  BY <1>1
<1>4. subscribers' = subscribers \ {c} /\ subscribers' \in SUBSET subscribers
  BY <1>1 DEF cleanup, ServerInv, OpenStreamIsFed
<1>5. CountsOK'
  BY <1>1, <1>4, SubscriberCount DEF ServerInv, CountsOK
<1>6. ConnsOK'
  BY <1>1, <1>2, <1>3 DEF ServerInv, ConnsOK, ConnOK
<1>7. OpenStreamIsFed'
  <2>1. {d \in Connection : conn'[d].at = "stream"} = subscribers'
    BY <1>2, <1>3, <1>4 DEF ServerInv, OpenStreamIsFed
  <2> QED BY <1>1, <1>3, <1>4, <2>1 DEF ServerInv, OpenStreamIsFed
<1>8. ClientsFirst'
  BY <1>1, <1>2, <1>3 DEF ServerInv, ClientsFirst
<1> QED BY <1>5, <1>6, <1>7, <1>8 DEF ServerInv

LEMMA ExitKeeps ==
  ASSUME ServerInv, Exit
  PROVE  ServerInv'
<1>1. \A c \in Connection : conn'[c] = Closed
  BY DEF Exit
<1>2. CountsOK'
  <2>1. subscribers' \subseteq Connection /\ Cardinality(subscribers') <= MaxSubscribers
    <3>1. subscribers' = {} /\ Cardinality(subscribers') = 0
      BY FS_EmptySet DEF Exit
    <3> QED BY <3>1, ServerAssumptions
  <2>2. snapshots' \in 0..MaxSnapshots
    BY ServerAssumptions DEF Exit
  <2> QED BY <2>1, <2>2 DEF Exit, ServerInv, CountsOK
<1>3. ConnsOK'
  BY ClosedFacts DEF Exit, ConnsOK, ConnOK
<1>4. OpenStreamIsFed' /\ ClientsFirst'
  BY <1>1, ClosedFacts DEF Exit, OpenStreamIsFed, ClientsFirst
<1> QED BY <1>2, <1>3, <1>4 DEF ServerInv

LEMMA SignalKeeps ==
  ASSUME ServerInv, Signal
  PROVE  ServerInv'
<1>1. CASE Exit
  BY <1>1, ExitKeeps
<1>2. CASE phase = "serving" /\ ~Exit
  <2>1. /\ phase' = "closing" /\ subscribers' = {} /\ heartbeat' = FALSE
        /\ UNCHANGED <<snapshots, revoked, hits, failures>>
    BY <1>2 DEF Signal
  <2>2. ASSUME NEW c \in Connection
        PROVE  ConnOK(conn'[c], revoked) /\ conn'[c] \in Conn /\ conn'[c].at # "stream"
    <3>1. CASE c \in subscribers
      <4>1. conn'[c] = Answered(conn[c], "ok")
        BY <1>2, <3>1 DEF Signal
      <4> QED BY <3>1, <4>1, EndedKeeps DEF ConnOK
    <3>2. CASE c \notin subscribers
      <4>1. conn'[c] \in {Closed, conn[c]}
        BY <1>2, <3>2 DEF Signal
      <4>2. conn[c].at # "stream" /\ ConnOK(conn[c], revoked)
        BY <3>2 DEF ServerInv, OpenStreamIsFed, ConnsOK
      <4> QED BY <4>1, <4>2, ClosedFacts DEF ConnOK
    <3> QED BY <3>1, <3>2
  <2>3. CountsOK'
    <3>1. Cardinality(subscribers') = 0
      BY <2>1, FS_EmptySet
    <3>2. subscribers' \subseteq Connection /\ Cardinality(subscribers') <= MaxSubscribers
      BY <2>1, <3>1, ServerAssumptions
    <3> QED BY <2>1, <3>2 DEF ServerInv, CountsOK
  <2>4. ConnsOK'
    <3>1. conn' = [c \in Connection |-> conn'[c]]
      BY <1>2 DEF Signal
    <3> QED BY <2>1, <2>2, <3>1 DEF ConnsOK
  <2>5. OpenStreamIsFed' /\ ClientsFirst'
    BY <2>1, <2>2 DEF OpenStreamIsFed, ClientsFirst
  <2> QED BY <2>3, <2>4, <2>5 DEF ServerInv
<1> QED BY <1>1, <1>2 DEF Signal

LEMMA ShutdownKeeps ==
  ASSUME ServerInv, Shutdown
  PROVE  ServerInv'
<1>1. CASE Close
  BY <1>1, ExitKeeps DEF Close
<1>2. CASE ServerClosed \/ LoopsStopped
  <2>1. /\ UNCHANGED <<conn, subscribers, heartbeat, snapshots, revoked, hits, failures>>
        /\ phase' \in {"stopping", "pool"}
        /\ \A c \in Connection : conn[c].client = "gone"
    BY <1>2 DEF ServerClosed, LoopsStopped, ServerInv, ClientsFirst
  <2> QED BY <2>1 DEF ServerInv, CountsOK, ConnsOK, OpenStreamIsFed, ClientsFirst
<1> QED BY <1>1, <1>2 DEF Shutdown

LEMMA StepKeeps ==
  ASSUME ServerInv, [ServerNext]_serverVars
  PROVE  ServerInv'
<1> USE ServerAssumptions
<1>1. ASSUME NEW c \in Connection, Handle(c) \/ QueryFails(c) \/ Leave(c)
      PROVE  ServerInv'
  BY <1>1, HandlersKeep, SubscribeKeeps, LeaveKeeps DEF Handle
<1>2. ASSUME NEW c \in Connection, NEW n \in DOMAIN Requests, Request(c, n)
      PROVE  ServerInv'
  BY <1>2, RequestKeeps
<1>3. CASE snapshotTimer \/ SnapshotFails
  <2>1. CountsOK' /\ UNCHANGED <<phase, conn, subscribers, heartbeat, revoked>>
    BY <1>3 DEF snapshotTimer, SnapshotFails, ServerInv, CountsOK
  <2> QED BY <2>1, QuietKeeps
<1>4. CASE HeartbeatStops \/ WindowEnds \/ \E k \in DOMAIN Key : revoke(k)
  <2>1. CASE HeartbeatStops
    <3>1. CountsOK'
      BY <2>1 DEF HeartbeatStops, ServerInv, CountsOK
    <3> QED BY <2>1, <3>1, QuietKeeps DEF HeartbeatStops
  <2>2. CASE WindowEnds
    <3>1. CountsOK'
      BY <2>2 DEF WindowEnds, ServerInv, CountsOK
    <3> QED BY <2>2, <3>1, QuietKeeps DEF WindowEnds
  <2>3. ASSUME NEW k \in DOMAIN Key, revoke(k)
        PROVE  ServerInv'
    <3>1. CountsOK'
      BY <2>3 DEF revoke, ServerInv, CountsOK
    <3> QED BY <2>3, <3>1, QuietKeeps DEF revoke
  <2> QED BY <1>4, <2>1, <2>2, <2>3
<1>5. ASSUME NEW slow \in SUBSET {c \in subscribers : conn[c].client = "open"}, publish(slow)
      PROVE  ServerInv'
  BY <1>5, PublishKeeps
<1>6. CASE UNCHANGED serverVars
  <2>1. CountsOK' /\ UNCHANGED <<phase, conn, subscribers, heartbeat, revoked>>
    BY <1>6 DEF serverVars, ServerInv, CountsOK
  <2> QED BY <2>1, QuietKeeps
<1> QED BY <1>1, <1>2, <1>3, <1>4, <1>5, <1>6, SignalKeeps, ShutdownKeeps DEF ServerNext

LEMMA InvHolds == ServerSpec => []ServerInv
  BY InitHolds, StepKeeps, PTL DEF ServerSpec

-----------------------------------------------------------------------------
(* Theorems.                                                               *)

\* Connections, counters and the limiter have their types, and there are never more
\* subscribers than the cap.
THEOREM ServerTypeCorrect == ServerSpec => []ServerTypeOK
<1>1. ASSUME ServerInv PROVE ServerTypeOK
  <2>1. \A c \in Connection : conn[c] \in Conn
    BY <1>1 DEF ServerInv, ConnsOK
  <2> QED BY <1>1, <2>1 DEF ServerInv, CountsOK, ServerTypeOK, Conn, Points, Answers
<1> QED BY <1>1, InvHolds, PTL

\* What a caller is told of a request that is audited: a success is a change that was
\* committed and then recorded, in every route; an error below 500 means that nothing
\* was changed, or that a retried or replayed job was removed after its entry was
\* written; and nothing is recorded that was not done.
THEOREM AnswersAreHonest == ServerSpec => []AnswerTellsEffect
<1>1. STATUS_BY_CODE["DATABASE_ERROR"] = 503
  BY DEF STATUS_BY_CODE, Errors
<1>2. ASSUME ServerInv PROVE AnswerTellsEffect
  <2> SUFFICES ASSUME NEW c \in Connection, conn[c].at = "idle", conn[c].answer # "none"
               PROVE  /\ conn[c].answer = "ok" /\ Audited(conn[c]) => conn[c].effect /\ conn[c].audited
                      /\ conn[c].answer \in Errors /\ STATUS_BY_CODE[conn[c].answer] < 500 /\ conn[c].effect =>
                           /\ conn[c].audited /\ conn[c].answer = "JOB_NOT_FOUND"
                           /\ RequestOf(c).route \in {"retryNow", "replay"}
                      /\ conn[c].audited => conn[c].effect
    BY DEF AnswerTellsEffect
  <2>1. Tells(conn[c], conn[c].answer) /\ Req(conn[c]) = RequestOf(c)
    BY <1>2 DEF ServerInv, ConnsOK, ConnOK, Honest, Req, RequestOf
  <2>2. "ok" \notin Errors
    BY DEF Errors
  <2> QED BY <1>1, <2>1, <2>2 DEF Tells
<1> QED BY <1>2, InvHolds, PTL

\* A request that comes in after the revocation of its key has no effect, no stream
\* and no answer of success.
THEOREM RevocationHolds == ServerSpec => []RevokedKeyIsRefused
<1>1. ASSUME ServerInv PROVE RevokedKeyIsRefused
  <2> SUFFICES ASSUME NEW c \in Connection, conn[c].stale
               PROVE  /\ ~conn[c].effect /\ conn[c].at # "stream"
                      /\ conn[c].answer = "ok" => RequestOf(c).route \in Probes
    BY DEF RevokedKeyIsRefused
  <2>1. ConnOK(conn[c], revoked) /\ Req(conn[c]) = RequestOf(c)
    BY <1>1 DEF ServerInv, ConnsOK, Req, RequestOf
  <2>2. conn[c].at = "stream" => RequestOf(c).route \notin Probes
    BY <2>1, RouteFacts DEF ConnOK, Consistent
  <2> QED BY <2>1, <2>2 DEF ConnOK, Refused
<1> QED BY <1>1, InvHolds, PTL

\* The subscribers are exactly the open streams, and the keepalive timer runs while
\* there are any.
THEOREM StreamsAreFed == ServerSpec => []OpenStreamIsFed
<1>1. ServerInv => OpenStreamIsFed
  BY DEF ServerInv
<1> QED BY <1>1, InvHolds, PTL

\* No caller who still waits is told of a database that the shutdown has closed.
THEOREM ShutdownIsPolite == ServerSpec => []ShutdownFailsNobody
<1>1. ServerInv => ShutdownFailsNobody
  BY DEF ServerInv, ConnsOK, ConnOK, Excused, ShutdownFailsNobody
<1> QED BY <1>1, InvHolds, PTL

=============================================================================
