---------------------------- MODULE RequestPipeline ----------------------------
(***************************************************************************)
(* What happens to a request around its handler, in Nest's order: body     *)
(* parser, pino's request id, routing, authentication guard, throttler     *)
(* guard, RequestIdInterceptor, ValidationPipe, handler; and, whatever     *)
(* stage throws, HypertronExceptionFilter, which answers.  Requests run    *)
(* beside each other and share the throttler's counters.                   *)
(***************************************************************************)
EXTENDS Integers, FiniteSets

CONSTANTS
    Calls,    \* the requests
    ApiKeys, Businesses, Addresses,  \* what requests are counted by
    Limit,    \* requests a caller may make in a window
    Window    \* length of a window, in ticks

VARIABLES
    call,   \* where each request is and what it carries
    hits,   \* the throttler storage, per route and tracker: calls in the window,
            \* ticks left of it, and ticks left of the block a refusal began
    \* history, read by properties only
    admitted,  \* ticks left of the window a call was let through in
    recent     \* per caller, ticks left of the two windows after each of its last
               \* Limit requests, the newest first

pipelineVars == <<call, hits, admitted, recent>>

ASSUME CallersAssumption == IsFiniteSet(Calls) /\ "none" \notin ApiKeys \cup Businesses
ASSUME BudgetAssumption == {Limit, Window} \subseteq Nat \ {0}

Routes == {"payments", "dashboard", "checkout", "internal", "health", "unknown"}
Trackers == {<<"apikey", k>> : k \in ApiKeys} \cup {<<"dashboard", b>> : b \in Businesses}
            \cup {<<"ip", a>> : a \in Addresses}

(* Each of these routes skips all but one of buildThrottlers' groups, and the     *)
(* storage keeps one counter for each handler, group and tracker.                 *)
ThrottledRoutes == {"payments", "dashboard", "checkout"}

-----------------------------------------------------------------------------
(* Errors *)

(* Types and statuses of the exception classes. *)
InvalidRequestException == [class |-> "hypertron", type |-> "invalid_request_error", status |-> 400]
AuthenticationException == [class |-> "hypertron", type |-> "authentication_error", status |-> 401]
ResourceNotFoundException == [class |-> "hypertron", type |-> "resource_missing", status |-> 404]
IdempotencyException == [class |-> "hypertron", type |-> "idempotency_error", status |-> 409]
StateTransitionException == [class |-> "hypertron", type |-> "invalid_state_transition", status |-> 409]
ApiException == [class |-> "hypertron", type |-> "api_error", status |-> 500]

HttpException(status, body) == [class |-> "http", status |-> status, body |-> body]
ThrottlerException == [class |-> "throttler"]
UniqueViolation == [class |-> "P2002"]
Unexpected == [class |-> "other"]

statusType(status) ==
    CASE status = 401 -> "authentication_error"
      [] status = 403 -> "permission_error"
      [] status = 404 -> "resource_missing"
      [] status = 409 -> "idempotency_error"
      [] status = 422 -> "unprocessable_entity"
      [] status = 429 -> "rate_limit_error"
      [] status >= 500 -> "api_error"
      [] OTHER -> "invalid_request_error"

(* An error that is an object is passed on with its own fields, and terminus' *)
(* report of what is down has no type.  Messages of a ValidationPipe make a   *)
(* validation error, whatever the status.                                     *)
shapeHttpException(status, body) ==
    CASE body = "report" -> "untyped"
      [] body = "messages" -> "invalid_request_error"
      [] OTHER -> statusType(status)

(* { error } without statusCode and message: the hosted checkout's own shape *)
collectStyleBody(body) == body = "collect"

-----------------------------------------------------------------------------
(* Request ids *)

(* The X-Request-Id a client sends: none, of a wrong length, of 8 to 128 characters *)
(* some of which are not allowed, or good.                                          *)
Headers == {"absent", "short", "illFormed", "good"}
FromClient(h) == <<"client", h>>
Generated(stage) == <<"req_", stage>>
NoId == <<"none">>

genReqId(h) == IF h \in {"illFormed", "good"} THEN FromClient(h) ELSE Generated("pino")

isValidClientRequestId(h) == h = "good"

(* Mutant: the client's header goes before the id of the request. *)
resolveFromHeader(c) ==
    IF c.header # "absent" THEN FromClient(c.header) ELSE c.id

(* The request's id, then the header, then the response's, then req_unknown. *)
resolveRequestId(c) ==
    CASE c.id # NoId -> c.id
      [] c.id = NoId /\ c.header # "absent" -> FromClient(c.header)
      [] OTHER -> Generated("unknown")

-----------------------------------------------------------------------------
(* Stages *)

NewCall == [stage |-> "new", route |-> "unknown", header |-> "absent", id |-> NoId,
            key |-> "none", business |-> "none", address |-> "none",
            responseId |-> NoId, retryAfter |-> 0, status |-> 0, type |-> "none",
            bodyId |-> NoId, thrown |-> "none"]

NoHits == [count |-> 0, left |-> 0, blocked |-> 0]

PipelineInit ==
    /\ call = [c \in Calls |-> NewCall]
    /\ hits = [slot \in ThrottledRoutes \X Trackers |-> NoHits]
    /\ admitted = [c \in Calls |-> 0]
    /\ recent = [slot \in ThrottledRoutes \X Trackers |-> [i \in 1..Limit |-> 0]]

Go(c, fields) == call' = [call EXCEPT ![c] = fields]

(* write: the header is set unless the interceptor has set it. *)
Write(c, from, status, type) ==
    LET id == resolveRequestId(from)
    IN Go(c, [from EXCEPT !.stage = "done", !.status = status, !.type = type, !.bodyId = id,
                          !.thrown = from.stage,
                          !.responseId = IF @ = NoId THEN id ELSE @])

(* A body without request_id, in the shape the hosted checkout reads. *)
WriteCollect(c, from, status) ==
    LET id == resolveRequestId(from)
    IN Go(c, [from EXCEPT !.stage = "done", !.status = status, !.type = "collect",
                          !.thrown = from.stage,
                          !.responseId = IF @ = NoId THEN id ELSE @])

(* HypertronExceptionFilter.catch *)
Catch(c, from, e) ==
    CASE e.class = "throttler" -> Write(c, from, 429, "rate_limit_error")
      [] e.class = "hypertron" -> Write(c, from, e.status, e.type)
      [] e.class = "http" /\ collectStyleBody(e.body) -> WriteCollect(c, from, e.status)
      [] e.class = "http" /\ ~collectStyleBody(e.body)
            -> Write(c, from, e.status, shapeHttpException(e.status, e.body))
      [] e.class = "P2002" -> Write(c, from, 409, "idempotency_error")
      [] OTHER -> Write(c, from, 500, "api_error")

Throw(c, e) == Catch(c, call[c], e)

(* The body parser runs before pino gives the request its id. *)
Arrive(c, route, header, address) ==
    LET arrived == [call[c] EXCEPT !.stage = "parse", !.route = route, !.header = header,
                                   !.address = address]
    IN /\ call[c].stage = "new"
       /\ \/ Catch(c, arrived, HttpException(400, "message"))
          \/ Go(c, [arrived EXCEPT !.stage = "routed", !.id = genReqId(header)])
       /\ UNCHANGED <<hits, admitted, recent>>

(* A client that was refused for the rate tries once more, with the same key. *)
Retry(c) ==
    /\ call[c].status = 429
    /\ Go(c, [NewCall EXCEPT !.stage = "throttle", !.id = Generated("pino"),
                             !.route = call[c].route, !.key = call[c].key,
                             !.business = call[c].business, !.address = call[c].address])
    /\ UNCHANGED <<hits, admitted, recent>>

(* No route, or a guard that refuses; the throttler comes after authentication. *)
Guards(c) ==
    /\ call[c].stage = "routed"
    /\ CASE call[c].route = "unknown" -> Throw(c, HttpException(404, "message"))
         [] call[c].route = "payments" ->
              \/ Throw(c, AuthenticationException)
              \/ \E k \in ApiKeys : Go(c, [call[c] EXCEPT !.stage = "throttle", !.key = k])
         [] call[c].route = "dashboard" ->
              \/ Throw(c, AuthenticationException)
              \/ \E b \in Businesses :
                    Go(c, [call[c] EXCEPT !.stage = "throttle", !.business = b])
         [] call[c].route = "internal" ->
              \/ Throw(c, AuthenticationException)
              \/ Go(c, [call[c] EXCEPT !.stage = "intercept"])
         [] call[c].route = "health" -> Go(c, [call[c] EXCEPT !.stage = "intercept"])
         [] OTHER -> Go(c, [call[c] EXCEPT !.stage = "throttle"])
    /\ UNCHANGED <<hits, admitted, recent>>

(* Who makes a request of a route: a key, a business of the dashboard, or else an *)
(* address.  For the history only.                                                *)
Caller(r) ==
    <<r.route, IF r.key # "none" THEN <<"apikey", r.key>>
               ELSE IF r.business # "none" THEN <<"dashboard", r.business>>
               ELSE <<"ip", r.address>> >>

(* Mutant: every request is counted by its address. *)
getTrackerByAddress(r) == <<"ip", r.address>>

getTracker(r) ==
    CASE r.key # "none" -> <<"apikey", r.key>>
      [] r.key = "none" /\ r.business # "none" -> <<"dashboard", r.business>>
      [] OTHER -> <<"ip", r.address>>

Increment(entry) ==
    LET count == IF entry.count > Limit THEN entry.count ELSE entry.count + 1
    IN [count |-> count,
        left |-> IF entry.left = 0 THEN Window ELSE entry.left,
        blocked |-> CASE entry.blocked > 0 -> entry.blocked
                      [] entry.blocked = 0 /\ count > Limit -> Window
                      [] OTHER -> 0]

retryAfterSeconds(timeToExpire) == IF timeToExpire < 1 THEN 1 ELSE timeToExpire

ThrottlerGuard(c) ==
    LET slot == <<call[c].route, getTracker(call[c])>>
        after == Increment(hits[slot])
    IN /\ call[c].stage = "throttle"
       /\ hits' = [hits EXCEPT ![slot] = after]
       /\ IF after.blocked > 0
          THEN Catch(c, [call[c] EXCEPT !.retryAfter = retryAfterSeconds(after.left)],
                     ThrottlerException)
          ELSE Go(c, [call[c] EXCEPT !.stage = "intercept"])
       /\ admitted' = [admitted EXCEPT ![c] = IF after.blocked > 0 THEN 0 ELSE after.left]
       /\ recent' = [recent EXCEPT ![Caller(call[c])] =
              [i \in 1..Limit |-> IF i = 1 THEN 2 * Window ELSE @[i - 1]]]

ResponseId(header) ==
    IF isValidClientRequestId(header) THEN FromClient("good") ELSE Generated("interceptor")

(* RequestIdInterceptor, and then the ValidationPipe, which may refuse what the *)
(* handler takes; that of /health takes nothing.                                *)
Intercept(c) ==
    LET id == ResponseId(call[c].header)
        named == [call[c] EXCEPT !.stage = "pipe", !.id = id, !.responseId = id]
    IN /\ call[c].stage = "intercept"
       /\ \/ call[c].route # "health" /\ Catch(c, named, HttpException(400, "messages"))
          \/ Go(c, [named EXCEPT !.stage = "handler"])
       /\ UNCHANGED <<hits, admitted, recent>>

(* CheckoutLinksController.getPublic: not a link, or one that has expired unpaid *)
getPublic == {HttpException(404, "collect"), HttpException(410, "collect")}

(* HealthController.check: the database does not answer. *)
HealthReport == HttpException(503, "report")

Thrown(route) ==
    {Unexpected} \cup
    CASE route = "payments" -> {InvalidRequestException, ResourceNotFoundException, UniqueViolation,
                                IdempotencyException, StateTransitionException}
      [] route = "dashboard" -> {InvalidRequestException, ResourceNotFoundException, UniqueViolation,
                                 ApiException}
      [] route = "checkout" -> getPublic
      [] route = "health" -> {HealthReport}
      [] OTHER -> {UniqueViolation}

Handle(c) ==
    /\ call[c].stage = "handler"
    /\ \/ \E e \in Thrown(call[c].route) : Throw(c, e)
       \/ Go(c, [call[c] EXCEPT !.stage = "done", !.status = 200])
    /\ UNCHANGED <<hits, admitted, recent>>

(* Time: windows run out. *)
Down(n) == IF n = 0 THEN 0 ELSE n - 1
WindowTick ==
    /\ \E s \in DOMAIN hits : hits[s].left + hits[s].blocked > 0
    /\ hits' = [s \in DOMAIN hits |->
                  [count |-> IF hits[s].left <= 1 THEN 0 ELSE hits[s].count,
                   left |-> Down(hits[s].left), blocked |-> Down(hits[s].blocked)]]
    /\ admitted' = [c \in Calls |-> Down(admitted[c])]
    /\ recent' = [s \in DOMAIN recent |-> [i \in 1..Limit |-> Down(recent[s][i])]]
    /\ UNCHANGED call

PipelineNext ==
    \/ \E c \in Calls, route \in Routes, h \in Headers, a \in Addresses : Arrive(c, route, h, a)
    \/ \E c \in Calls : Retry(c) \/ Guards(c) \/ ThrottlerGuard(c) \/ Intercept(c) \/ Handle(c)
    \/ WindowTick

PipelineSpec == PipelineInit /\ [][PipelineNext]_pipelineVars

-----------------------------------------------------------------------------
(* Properties *)

FitsStatus(type, status) ==
    CASE type = "invalid_request_error" -> status = 400
      [] type = "authentication_error" -> status = 401
      [] type = "permission_error" -> status = 403
      [] type = "resource_missing" -> status = 404
      [] type \in {"idempotency_error", "invalid_state_transition"} -> status = 409
      [] type = "rate_limit_error" -> status = 429
      [] type = "api_error" -> status = 500
      [] OTHER -> FALSE

Documented(r) ==
    IF r.type = "untyped" THEN r.route = "health" /\ r.status = 503 ELSE FitsStatus(r.type, r.status)

(* Whatever stage fails, an error names the id the response header carries, and   *)
(* its type is the one its status stands for; the one error without a type is the *)
(* report of /health.  A refusal for the rate says when to come back, and the     *)
(* hosted checkout's shape is used for checkout links only.  From the interceptor *)
(* on, the id is well formed whatever the client sent.                            *)
ErrorContract ==
    \A c \in Calls :
        LET r == call[c]
        IN /\ r.type \notin {"none", "collect"} =>
                 r.bodyId = r.responseId /\ Documented(r)
           /\ r.type = "collect" => r.route = "checkout" /\ r.responseId # NoId
           /\ r.status = 429 => r.retryAfter \in 1..Window
           /\ r.stage = "done" /\ r.thrown \in {"pipe", "handler", "none"} =>
                 r.responseId \in {FromClient("good"), Generated("interceptor")}

(* No caller spends another's budget, which is that of a key, business or address *)
(* at one handler (a caller is both: the throttler counts every handler apart):   *)
(* never are more than Limit of its requests let through in a window, and one is  *)
(* refused for the rate only if that caller itself made Limit others in the last  *)
(* two.                                                                           *)
BudgetsAreSeparate ==
    [][\A c \in Calls :
         /\ Cardinality({d \in Calls : Caller(call[d]) = Caller(call[c]) /\ admitted[d] > 0}) <= Limit
         /\ call'[c].status = 429 /\ call[c].status # 429
               => \A i \in 1..Limit : recent[Caller(call[c])][i] > 0]_pipelineVars
=============================================================================
