------------------------ MODULE RequestPipelineProofs ------------------------
(***************************************************************************)
(* For any calls, keys, businesses and addresses, any limit and window:    *)
(* every answer keeps the contract of errors, and no caller spends the     *)
(* budget of another or is refused before its own is spent.                *)
(***************************************************************************)
EXTENDS RequestPipeline, FiniteSetTheorems, TLAPS

Callers == ThrottledRoutes \X Trackers

Ids == {NoId, Generated("pino"), Generated("interceptor"), Generated("unknown")}
       \cup {FromClient(h) : h \in Headers}
WellFormed == {FromClient("good"), Generated("interceptor")}

Stages == {"new", "parse", "routed", "throttle", "intercept", "pipe", "handler", "done"}

Types == {"invalid_request_error", "authentication_error", "resource_missing", "idempotency_error",
          "invalid_state_transition", "rate_limit_error", "api_error"}

Records ==
  [stage : Stages, route : Routes, header : Headers, id : Ids,
   key : ApiKeys \cup {"none"}, business : Businesses \cup {"none"},
   address : Addresses \cup {"none"}, responseId : Ids, retryAfter : Nat, status : Nat,
   type : Types \cup {"none", "collect", "untyped"}, bodyId : Ids, thrown : Stages \cup {"none"}]

(* Before the answer. *)
UnderWay(r) ==
  /\ r.type = "none" /\ r.status = 0 /\ r.thrown = "none"
  /\ r.stage # "handler" => r.responseId = NoId
  /\ r.stage = "handler" => r.id = r.responseId /\ r.responseId \in WellFormed
  /\ r.stage = "routed" => r.address \in Addresses
  /\ r.stage = "throttle" => Caller(r) \in Callers

(* What answered, and with what. *)
Answered(r) ==
  /\ r.type \notin {"none", "collect"} => r.bodyId = r.responseId /\ Documented(r)
  /\ r.type = "collect" => r.route = "checkout" /\ r.responseId # NoId
  /\ r.status = 429 => r.retryAfter \in 1..Window /\ Caller(r) \in Callers
  /\ r.thrown \in {"pipe", "handler", "none"} => r.responseId \in WellFormed

CallOK(r) == IF r.stage = "done" THEN Answered(r) ELSE UnderWay(r)

(* A call let through stays what it was counted for. *)
AdmittedOK(c) ==
  admitted[c] > 0 => /\ call[c].stage \in {"intercept", "handler", "done"}
                     /\ call[c].status # 429 /\ Caller(call[c]) \in Callers

(* The calls let through in the window that runs. *)
LetThrough(s) == {c \in Calls : Caller(call[c]) = s /\ admitted[c] > 0}

(* The counter of a caller is what the history says: its window holds the  *)
(* last requests, and a block began with Limit requests before it.         *)
BudgetOK(s) ==
  /\ hits[s].count > 0 => hits[s].left > 0
  /\ \A i \in 1..Limit : i <= hits[s].count => recent[s][i] >= Window + hits[s].left
  /\ hits[s].blocked > 0 => \A i \in 1..Limit : recent[s][i] >= hits[s].blocked
  /\ \A c \in LetThrough(s) : admitted[c] <= hits[s].left
  /\ Cardinality(LetThrough(s)) <= hits[s].count /\ Cardinality(LetThrough(s)) <= Limit

Entries == [count : 0..Limit + 1, left : 0..Window, blocked : 0..Window]

TypeOK ==
  /\ call \in [Calls -> Records]
  /\ hits \in [Callers -> Entries]
  /\ admitted \in [Calls -> 0..Window]
  /\ recent \in [Callers -> [1..Limit -> 0..2 * Window]]

IInv ==
  /\ TypeOK
  /\ \A c \in Calls : CallOK(call[c]) /\ AdmittedOK(c)
  /\ \A s \in Callers : BudgetOK(s)

-----------------------------------------------------------------------------
(* Answers *)

LEMMA IdFacts ==
  /\ WellFormed \subseteq Ids /\ NoId \notin WellFormed
  /\ \A h \in Headers : FromClient(h) \in Ids /\ FromClient(h) # NoId /\ ResponseId(h) \in WellFormed
                        /\ genReqId(h) \in Ids
  /\ \A x \in {"pino", "interceptor", "unknown"} : Generated(x) \in Ids /\ Generated(x) # NoId
<1>1. \A x : FromClient(x) # NoId /\ Generated(x) # NoId
  BY DEF FromClient, Generated, NoId
<1>2. WellFormed \subseteq Ids /\ NoId \notin WellFormed
  BY <1>1 DEF WellFormed, Ids, Headers
<1>3. \A h \in Headers : FromClient(h) \in Ids
  BY DEF Ids
<1>4. \A h : ResponseId(h) \in WellFormed
  BY DEF ResponseId, WellFormed, isValidClientRequestId
<1>5. \A x \in {"pino", "interceptor", "unknown"} : Generated(x) \in Ids
  BY DEF Ids
<1>6. \A h \in Headers : genReqId(h) \in Ids
  BY <1>3, <1>5 DEF genReqId
<1> QED BY <1>1, <1>2, <1>3, <1>4, <1>5, <1>6

(* The id an answer names is the one a header set before it carries. *)
LEMMA ResolveOK ==
  ASSUME NEW r \in Records
  PROVE  /\ resolveRequestId(r) \in Ids /\ resolveRequestId(r) # NoId
         /\ r.responseId # NoId /\ r.id = r.responseId => resolveRequestId(r) = r.responseId
<1>1. r.id \in Ids /\ r.header \in Headers
  BY DEF Records
<1> QED BY <1>1, IdFacts DEF resolveRequestId

(* The same caller, whatever became of the call. *)
Same(r, s) == /\ r.route = s.route /\ r.key = s.key
              /\ r.business = s.business /\ r.address = s.address

LEMMA SameCaller ==
  ASSUME NEW r, NEW s, Same(r, s)
  PROVE  Caller(r) = Caller(s)
  BY DEF Same, Caller

(* A call that something may be thrown from. *)
Throwing(r) ==
  /\ r.responseId # NoId => r.id = r.responseId
  /\ r.stage \in {"pipe", "handler"} => r.responseId \in WellFormed
  /\ r.stage \in Stages

(* The call is answered, with this status, as the contract asks. *)
Answers(c, from, status) ==
  \E r \in Records : /\ Go(c, r) /\ r.stage = "done" /\ Answered(r) /\ Same(r, from)
                     /\ r.status = status

(* A record of a call stays one when the stage that threw is noted. *)
LEMMA SetThrown ==
  ASSUME NEW r \in Records, NEW stage \in Stages \cup {"none"}
  PROVE  [r EXCEPT !.thrown = stage] \in Records
  BY DEF Records

LEMMA WriteOK ==
  ASSUME NEW c \in Calls, NEW from \in Records, Throwing(from),
         NEW status \in Nat, NEW type \in Types \cup {"untyped"},
         IF type = "untyped" THEN from.route = "health" /\ status = 503
                             ELSE FitsStatus(type, status),
         status = 429 => from.retryAfter \in 1..Window /\ Caller(from) \in Callers,
         Write(c, from, status, type)
  PROVE  Answers(c, from, status)
<1> DEFINE id == resolveRequestId(from)
           r == [from EXCEPT !.stage = "done", !.status = status, !.type = type, !.bodyId = id,
                             !.thrown = from.stage,
                             !.responseId = IF @ = NoId THEN id ELSE @]
<1>1. id \in Ids /\ id # NoId /\ from.stage \in Stages /\ from.responseId \in Ids
      /\ (from.responseId # NoId => id = from.responseId)
  BY ResolveOK DEF Throwing, Records
<1>2. Go(c, r)
  BY DEF Write
<1> HIDE DEF id
<1>3. /\ r.stage = "done" /\ r.status = status /\ r.type = type /\ r.bodyId = id
      /\ r.thrown = from.stage /\ r.retryAfter = from.retryAfter /\ Same(r, from)
      /\ r.responseId = IF from.responseId = NoId THEN id ELSE from.responseId
  BY DEF Records, Same
<1>4. r \in Records
  <2> DEFINE a == [from EXCEPT !.stage = "done", !.status = status, !.type = type]
             b == [a EXCEPT !.bodyId = id, !.thrown = from.stage]
  <2>1. a \in Records
    <3>1. type \in Types \cup {"collect", "untyped", "none"} /\ "done" \in Stages
      BY DEF Stages
    <3> QED BY <3>1 DEF Records
  <2>2. b \in Records
    <3> DEFINE k == [a EXCEPT !.bodyId = id]
    <3>1. from.stage \in Stages \cup {"none"}
      BY <1>1
    <3>2. b = [k EXCEPT !.thrown = from.stage]
      OBVIOUS
    <3> HIDE DEF a
    <3>3. k \in Records
      BY <1>1, <2>1 DEF Records
    <3> HIDE DEF b, k
    <3>4. [k EXCEPT !.thrown = from.stage] \in Records
      BY <3>1, <3>3, SetThrown
    <3> QED BY <3>2, <3>4
  <2>3. [b EXCEPT !.responseId = IF from.responseId = NoId THEN id ELSE from.responseId] \in Records
    <3> HIDE DEF b
    <3> QED BY <1>1, <2>2 DEF Records
  <2>4. r = [b EXCEPT !.responseId = IF from.responseId = NoId THEN id ELSE from.responseId]
    BY DEF Records
  <2> QED BY <2>3, <2>4
<1> HIDE DEF r
<1>5. r.responseId = id
  BY <1>1, <1>3
<1>6. Caller(r) = Caller(from)
  BY <1>3, SameCaller
<1>7. r.thrown \in {"pipe", "handler", "none"} => r.responseId \in WellFormed
  BY <1>1, <1>3, <1>5, IdFacts DEF Throwing, Stages
<1>8. Answered(r)
  BY <1>3, <1>5, <1>6, <1>7 DEF Answered, Documented, Same, Types
<1>9. /\ Go(c, r) /\ r.stage = "done" /\ Answered(r) /\ Same(r, from) /\ r.status = status
  BY <1>2, <1>3, <1>8
<1> QED BY <1>4, <1>9 DEF Go, Answers

LEMMA WriteCollectOK ==
  ASSUME NEW c \in Calls, NEW from \in Records, Throwing(from), from.route = "checkout",
         NEW status \in Nat \ {429}, WriteCollect(c, from, status)
  PROVE  Answers(c, from, status)
<1> DEFINE id == resolveRequestId(from)
           r == [from EXCEPT !.stage = "done", !.status = status, !.type = "collect",
                             !.thrown = from.stage,
                             !.responseId = IF @ = NoId THEN id ELSE @]
<1>1. id \in Ids /\ id # NoId /\ from.stage \in Stages /\ from.responseId \in Ids
  BY ResolveOK DEF Throwing, Records
<1>2. Go(c, r)
  BY DEF WriteCollect
<1> HIDE DEF id
<1>3. /\ r.stage = "done" /\ r.status = status /\ r.type = "collect"
      /\ r.thrown = from.stage /\ Same(r, from)
      /\ r.responseId = IF from.responseId = NoId THEN id ELSE from.responseId
  BY DEF Records, Same
<1>4. r \in Records
  <2> DEFINE a == [from EXCEPT !.stage = "done", !.status = status, !.type = "collect"]
  <2>1. a \in Records
    BY DEF Records, Stages
  <2>2. [a EXCEPT !.thrown = from.stage,
                  !.responseId = IF from.responseId = NoId THEN id ELSE from.responseId] \in Records
    <3> DEFINE k == IF from.responseId = NoId THEN id ELSE from.responseId
    <3>1. k \in Ids
      BY <1>1
    <3> HIDE DEF a, k
    <3>2. [a EXCEPT !.thrown = from.stage, !.responseId = k] \in Records
      BY <1>1, <2>1, <3>1 DEF Records
    <3> QED BY <3>2 DEF k
  <2>3. r = [a EXCEPT !.thrown = from.stage,
                      !.responseId = IF from.responseId = NoId THEN id ELSE from.responseId]
    BY DEF Records
  <2> QED BY <2>2, <2>3
<1> HIDE DEF r
<1>5. r.thrown \in {"pipe", "handler", "none"} => r.responseId \in WellFormed
  BY <1>1, <1>3, IdFacts DEF Throwing, Stages
<1>6. r.route = "checkout" /\ r.responseId # NoId
  BY <1>1, <1>3 DEF Same
<1>7. Answered(r)
  BY <1>3, <1>5, <1>6 DEF Answered
<1>8. /\ Go(c, r) /\ r.stage = "done" /\ Answered(r) /\ Same(r, from) /\ r.status = status
  BY <1>2, <1>3, <1>7
<1> QED BY <1>4, <1>8 DEF Go, Answers

(* The errors the stages throw. *)
HypertronExceptions ==
  {InvalidRequestException, AuthenticationException, ResourceNotFoundException,
   IdempotencyException, StateTransitionException, ApiException}
HttpErrors == {HttpException(400, "message"), HttpException(404, "message"),
               HttpException(400, "messages")}

CanThrow(e, from) ==
  \/ /\ e = ThrottlerException
     /\ from.retryAfter \in 1..Window /\ Caller(from) \in Callers
  \/ e \in HypertronExceptions \cup HttpErrors \cup {UniqueViolation, Unexpected}
  \/ e \in getPublic /\ from.route = "checkout"
  \/ e = HealthReport /\ from.route = "health"

(* Whatever is thrown, the filter answers it, and keeps the contract. *)
LEMMA CatchOK ==
  ASSUME NEW c \in Calls, NEW from \in Records, Throwing(from), NEW e, CanThrow(e, from),
         Catch(c, from, e)
  PROVE  \E status \in Nat : /\ Answers(c, from, status)
                             /\ (status = 429 => e = ThrottlerException)
<1>1. CASE e = ThrottlerException
  <2>1. Write(c, from, 429, "rate_limit_error") /\ FitsStatus("rate_limit_error", 429)
    BY <1>1 DEF Catch, ThrottlerException, FitsStatus
  <2>2. from.retryAfter \in 1..Window /\ Caller(from) \in Callers
    BY <1>1 DEF CanThrow, ThrottlerException, HypertronExceptions, HttpErrors, UniqueViolation,
                Unexpected, getPublic, HealthReport, HttpException, InvalidRequestException,
                AuthenticationException, ResourceNotFoundException, IdempotencyException,
                StateTransitionException, ApiException
  <2> QED BY <1>1, <2>1, <2>2, WriteOK DEF Types
<1>2. CASE e \in HypertronExceptions
  <2>1. /\ e.class = "hypertron" /\ e.status \in Nat \ {429}
        /\ e.type \in Types /\ FitsStatus(e.type, e.status)
    BY <1>2 DEF HypertronExceptions, InvalidRequestException, AuthenticationException,
                ResourceNotFoundException, IdempotencyException, StateTransitionException,
                ApiException, FitsStatus, Types
  <2>2. Write(c, from, e.status, e.type)
    BY <2>1 DEF Catch
  <2>3. e.type # "untyped"
    BY <2>1 DEF Types
  <2>4. Answers(c, from, e.status)
    BY <2>1, <2>2, <2>3, WriteOK
  <2> QED BY <2>1, <2>4
<1>3. CASE e \in HttpErrors
  <2>1. /\ e.class = "http" /\ ~collectStyleBody(e.body) /\ e.status \in {400, 404}
    BY <1>3 DEF HttpErrors, HttpException, collectStyleBody
  <2>2. shapeHttpException(e.status, e.body) \in {"invalid_request_error", "resource_missing"}
        /\ FitsStatus(shapeHttpException(e.status, e.body), e.status)
    <3>1. CASE e = HttpException(400, "message")
      BY <3>1 DEF HttpException, shapeHttpException, statusType, FitsStatus
    <3>2. CASE e = HttpException(404, "message")
      BY <3>2 DEF HttpException, shapeHttpException, statusType, FitsStatus
    <3>3. CASE e = HttpException(400, "messages")
      BY <3>3 DEF HttpException, shapeHttpException, statusType, FitsStatus
    <3> QED BY <1>3, <3>1, <3>2, <3>3 DEF HttpErrors
  <2>3. Write(c, from, e.status, shapeHttpException(e.status, e.body))
    BY <2>1 DEF Catch
  <2>4. Answers(c, from, e.status)
    BY <2>1, <2>2, <2>3, WriteOK DEF Types
  <2> QED BY <2>1, <2>4
<1>4. CASE e \in {UniqueViolation, Unexpected}
  <2>1. \/ Write(c, from, 409, "idempotency_error")
        \/ Write(c, from, 500, "api_error")
    BY <1>4 DEF Catch, UniqueViolation, Unexpected
  <2>2. FitsStatus("idempotency_error", 409) /\ FitsStatus("api_error", 500)
    BY DEF FitsStatus
  <2>3. CASE Write(c, from, 409, "idempotency_error")
    BY <2>2, <2>3, WriteOK DEF Types
  <2>4. CASE Write(c, from, 500, "api_error")
    BY <2>2, <2>4, WriteOK DEF Types
  <2> QED BY <2>1, <2>3, <2>4
<1>5. CASE e \in getPublic /\ from.route = "checkout"
  <2>1. WriteCollect(c, from, e.status) /\ e.status \in {404, 410}
    BY <1>5 DEF Catch, getPublic, HttpException, collectStyleBody
  <2> QED BY <1>5, <2>1, WriteCollectOK
<1>6. CASE e = HealthReport /\ from.route = "health"
  <2>1. Write(c, from, 503, "untyped")
    BY <1>6 DEF Catch, HealthReport, HttpException, collectStyleBody, shapeHttpException
  <2>2. Answers(c, from, 503)
    BY <1>6, <2>1, WriteOK
  <2> QED BY <2>2
<1> QED BY <1>1, <1>2, <1>3, <1>4, <1>5, <1>6 DEF CanThrow

-----------------------------------------------------------------------------
(* The steps of one call *)

LEMMA NewCallOK ==
  /\ NewCall \in Records /\ UnderWay(NewCall) /\ NewCall.stage = "new"
  /\ NewCall.responseId = NoId /\ NewCall.type = "none" /\ NewCall.status = 0
  /\ NewCall.thrown = "none"
<1>1. NoId \in Ids
  BY DEF Ids
<1> QED BY <1>1 DEF NewCall, Records, UnderWay, Stages, Headers, Routes

(* No call becomes one that was refused for the rate. *)
NoRefusal == \A d \in Calls : call'[d].status = 429 => call[d].status = 429

(* A call that moves on, and the counters that do not. *)
LEMMA Moved ==
  ASSUME IInv, NEW c \in Calls, NEW r \in Records, Go(c, r), UNCHANGED <<hits, admitted, recent>>,
         CallOK(r),
         r.status # 429,
         admitted[c] > 0 => /\ Same(r, call[c])
                            /\ r.stage \in {"intercept", "handler", "done"}
  PROVE  IInv' /\ NoRefusal
<1>1. /\ call' = [call EXCEPT ![c] = r] /\ call \in [Calls -> Records]
      /\ admitted \in [Calls -> 0..Window]
  BY DEF Go, IInv, TypeOK
<1>2. /\ call' \in [Calls -> Records] /\ call'[c] = r
      /\ \A d \in Calls \ {c} : call'[d] = call[d]
  BY <1>1
<1>3. TypeOK'
  BY <1>2 DEF IInv, TypeOK
<1>4. admitted[c] > 0 => Caller(r) = Caller(call[c])
  BY SameCaller
<1>5. ASSUME NEW d \in Calls
      PROVE  CallOK(call[d])' /\ AdmittedOK(d)'
  <2>1. CASE d = c
    BY <1>2, <1>4, <2>1 DEF IInv, AdmittedOK
  <2>2. CASE d # c
    BY <1>2, <2>2 DEF IInv, AdmittedOK
  <2> QED BY <2>1, <2>2
<1>6. ASSUME NEW s \in Callers
      PROVE  LetThrough(s)' = LetThrough(s)
  <2>1. \A d \in Calls : admitted[d] > 0 => Caller(call'[d]) = Caller(call[d])
    BY <1>2, <1>4
  <2> QED BY <2>1 DEF LetThrough
<1>7. ASSUME NEW s \in Callers
      PROVE  BudgetOK(s)'
  BY <1>6 DEF IInv, BudgetOK
<1>8. NoRefusal
  BY <1>2 DEF NoRefusal
<1> QED BY <1>3, <1>5, <1>7, <1>8 DEF IInv

(* A call that is answered without being counted. *)
LEMMA Refused ==
  ASSUME IInv, NEW c \in Calls, NEW from \in Records, Throwing(from), NEW e, CanThrow(e, from),
         e # ThrottlerException, Same(from, call[c]) \/ admitted[c] = 0, Catch(c, from, e),
         UNCHANGED <<hits, admitted, recent>>
  PROVE  IInv' /\ NoRefusal
<1>1. PICK status \in Nat : Answers(c, from, status) /\ status # 429
  BY CatchOK
<1>2. PICK r \in Records : /\ Go(c, r) /\ r.stage = "done" /\ Answered(r) /\ Same(r, from)
                           /\ r.status = status
  BY <1>1 DEF Answers
<1>3. admitted[c] \in Nat
  BY DEF IInv, TypeOK
<1>4. admitted[c] > 0 => Same(r, call[c])
  BY <1>2, <1>3 DEF Same
<1> QED BY <1>1, <1>2, <1>4, Moved DEF CallOK

(* A call that is not counted stays so while it waits for its turn. *)
LEMMA NotCounted ==
  ASSUME IInv, NEW c \in Calls,
         call[c].stage \in {"new", "parse", "routed", "throttle"} \/ call[c].status = 429
  PROVE  admitted[c] = 0
<1>1. admitted[c] \in Nat /\ AdmittedOK(c)
  BY DEF IInv, TypeOK
<1> QED BY <1>1 DEF AdmittedOK

LEMMA ArriveKeeps ==
  ASSUME IInv, NEW c \in Calls, NEW route \in Routes, NEW header \in Headers,
         NEW address \in Addresses, Arrive(c, route, header, address)
  PROVE  IInv' /\ NoRefusal
<1> DEFINE arrived == [call[c] EXCEPT !.stage = "parse", !.route = route, !.header = header,
                                      !.address = address]
           r == [arrived EXCEPT !.stage = "routed", !.id = genReqId(header)]
           e == HttpException(400, "message")
<1>1. call[c] \in Records /\ call[c].stage = "new" /\ UnderWay(call[c])
  BY DEF Arrive, IInv, TypeOK, CallOK
<1>2. admitted[c] = 0
  BY <1>1, NotCounted
<1>3. Catch(c, arrived, e) \/ Go(c, r)
  BY DEF Arrive
<1>4. UNCHANGED <<hits, admitted, recent>>
  BY DEF Arrive
<1>5. /\ arrived \in Records /\ arrived.stage = "parse" /\ arrived.responseId = NoId
      /\ arrived.type = "none" /\ arrived.status = 0 /\ arrived.thrown = "none"
      /\ arrived.address \in Addresses
  BY <1>1 DEF Records, Stages, UnderWay
<1> HIDE DEF arrived
<1>6. CASE Catch(c, arrived, e)
  <2>1. Throwing(arrived)
    BY <1>5 DEF Throwing, Stages
  <2>2. CanThrow(e, arrived) /\ e # ThrottlerException
    BY DEF CanThrow, HttpErrors, HttpException, ThrottlerException
  <2> QED BY <1>2, <1>4, <1>5, <1>6, <2>1, <2>2, Refused
<1>7. CASE Go(c, r)
  <2>1. /\ r \in Records /\ r.stage = "routed" /\ r.responseId = NoId
        /\ r.type = "none" /\ r.status = 0 /\ r.thrown = "none" /\ r.address \in Addresses
    BY <1>5, IdFacts DEF Records, Stages
  <2> HIDE DEF r, e
  <2>2. CallOK(r)
    BY <2>1 DEF CallOK, UnderWay
  <2> QED BY <1>2, <1>4, <1>7, <2>1, <2>2, Moved
<1> QED BY <1>3, <1>6, <1>7

LEMMA RetryKeeps ==
  ASSUME IInv, NEW c \in Calls, Retry(c)
  PROVE  IInv' /\ NoRefusal
<1> DEFINE r == [NewCall EXCEPT !.stage = "throttle", !.id = Generated("pino"),
                                !.route = call[c].route, !.key = call[c].key,
                                !.business = call[c].business, !.address = call[c].address]
<1>1. Go(c, r) /\ call[c].status = 429 /\ UNCHANGED <<hits, admitted, recent>>
  BY DEF Retry
<1>2. call[c] \in Records /\ CallOK(call[c])
  BY DEF IInv, TypeOK
<1>3. Caller(call[c]) \in Callers
  BY <1>1, <1>2 DEF CallOK, Answered, UnderWay
<1>4. /\ r \in Records /\ r.stage = "throttle" /\ r.responseId = NoId /\ r.type = "none"
      /\ r.status = 0 /\ r.thrown = "none" /\ Same(r, call[c])
  <2> DEFINE a == [NewCall EXCEPT !.stage = "throttle", !.id = Generated("pino")]
  <2>1. /\ a \in Records /\ a.stage = "throttle" /\ a.responseId = NoId /\ a.type = "none"
        /\ a.status = 0 /\ a.thrown = "none"
    BY NewCallOK, IdFacts DEF Records, Stages
  <2> HIDE DEF a
  <2>2. [a EXCEPT !.route = call[c].route, !.key = call[c].key,
                  !.business = call[c].business, !.address = call[c].address] = r
    BY DEF a
  <2> HIDE DEF r
  <2> QED BY <1>2, <2>1, <2>2 DEF Records, Same
<1> HIDE DEF r
<1>5. Caller(r) = Caller(call[c])
  BY <1>4, SameCaller
<1>6. CallOK(r)
  BY <1>3, <1>4, <1>5 DEF CallOK, UnderWay
<1>7. admitted[c] = 0
  BY <1>1, NotCounted
<1> QED BY <1>1, <1>4, <1>6, <1>7, Moved

(* A call past the guards, and not yet counted. *)
LEMMA Authenticated ==
  ASSUME IInv, NEW c \in Calls, call[c].stage = "routed", NEW r \in Records, Go(c, r),
         UNCHANGED <<hits, admitted, recent>>,
         \/ r.stage = "throttle" /\ Caller(r) \in Callers
         \/ r.stage = "intercept",
         r.type = "none", r.status = 0, r.thrown = "none", r.responseId = NoId
  PROVE  IInv' /\ NoRefusal
<1>1. admitted[c] = 0
  BY NotCounted
<1>2. CallOK(r)
  BY DEF CallOK, UnderWay
<1> QED BY <1>1, <1>2, Moved

LEMMA GuardsKeep ==
  ASSUME IInv, NEW c \in Calls, Guards(c)
  PROVE  IInv' /\ NoRefusal
<1> DEFINE from == call[c]
<1>1. /\ from \in Records /\ from.stage = "routed" /\ UnderWay(from)
      /\ UNCHANGED <<hits, admitted, recent>>
  BY DEF Guards, IInv, TypeOK, CallOK
<1>2. /\ from.type = "none" /\ from.status = 0 /\ from.thrown = "none" /\ from.responseId = NoId
      /\ from.address \in Addresses /\ from.route \in Routes
      /\ from.key \in ApiKeys \cup {"none"} /\ from.business \in Businesses \cup {"none"}
  BY <1>1 DEF UnderWay, Records
<1>3. ASSUME NEW e \in {HttpException(404, "message"), AuthenticationException}, Throw(c, e)
      PROVE  IInv' /\ NoRefusal
  <2>1. Throwing(from) /\ Same(from, call[c])
    BY <1>1, <1>2 DEF Throwing, Stages, Same
  <2>2. CanThrow(e, from)
    BY <1>3 DEF CanThrow, HttpErrors, HypertronExceptions
  <2>3. e # ThrottlerException
    BY <1>3 DEF HttpException, ThrottlerException, AuthenticationException
  <2>4. Catch(c, from, e)
    BY <1>3 DEF Throw
  <2> QED BY <1>1, <2>1, <2>2, <2>3, <2>4, Refused
<1>4. ASSUME from.route = "payments", NEW k \in ApiKeys,
             Go(c, [call[c] EXCEPT !.stage = "throttle", !.key = k])
      PROVE  IInv' /\ NoRefusal
  <2> DEFINE r == [call[c] EXCEPT !.stage = "throttle", !.key = k]
  <2>1. /\ r \in Records /\ r.stage = "throttle" /\ r.type = "none" /\ r.status = 0
        /\ r.thrown = "none" /\ r.responseId = NoId /\ r.key = k /\ r.route = "payments"
    BY <1>1, <1>2, <1>4 DEF Records, Stages
  <2> HIDE DEF r
  <2>2. Caller(r) = <<"payments", <<"apikey", k>> >>
    BY <2>1, CallersAssumption DEF Caller
  <2>3. Caller(r) \in Callers
    BY <2>2 DEF Callers, ThrottledRoutes, Trackers
  <2>4. Go(c, r)
    BY <1>4 DEF r
  <2> QED BY <1>1, <2>1, <2>3, <2>4, Authenticated
<1>5. ASSUME from.route = "dashboard", NEW b \in Businesses,
             Go(c, [call[c] EXCEPT !.stage = "throttle", !.business = b])
      PROVE  IInv' /\ NoRefusal
  <2> DEFINE r == [call[c] EXCEPT !.stage = "throttle", !.business = b]
  <2>1. /\ r \in Records /\ r.stage = "throttle" /\ r.type = "none" /\ r.status = 0
        /\ r.thrown = "none" /\ r.responseId = NoId /\ r.business = b /\ r.route = "dashboard"
        /\ r.key \in ApiKeys \cup {"none"}
    BY <1>1, <1>2, <1>5 DEF Records, Stages
  <2> HIDE DEF r
  <2>2. \/ Caller(r) = <<"dashboard", <<"apikey", r.key>> >> /\ r.key \in ApiKeys
        \/ Caller(r) = <<"dashboard", <<"dashboard", b>> >>
    BY <2>1, CallersAssumption DEF Caller
  <2>3. Caller(r) \in Callers
    BY <2>2 DEF Callers, ThrottledRoutes, Trackers
  <2>4. Go(c, r)
    BY <1>5 DEF r
  <2> QED BY <1>1, <2>1, <2>3, <2>4, Authenticated
<1>6. ASSUME from.route = "checkout", Go(c, [call[c] EXCEPT !.stage = "throttle"])
      PROVE  IInv' /\ NoRefusal
  <2> DEFINE r == [call[c] EXCEPT !.stage = "throttle"]
  <2>1. /\ r \in Records /\ r.stage = "throttle" /\ r.type = "none" /\ r.status = 0
        /\ r.thrown = "none" /\ r.responseId = NoId /\ r.route = "checkout"
        /\ r.key \in ApiKeys \cup {"none"} /\ r.business \in Businesses \cup {"none"}
        /\ r.address \in Addresses
    BY <1>1, <1>2, <1>6 DEF Records, Stages
  <2> HIDE DEF r
  <2>2. \/ Caller(r) = <<"checkout", <<"apikey", r.key>> >> /\ r.key \in ApiKeys
        \/ Caller(r) = <<"checkout", <<"dashboard", r.business>> >> /\ r.business \in Businesses
        \/ Caller(r) = <<"checkout", <<"ip", r.address>> >>
    BY <2>1 DEF Caller
  <2>3. Caller(r) \in Callers
    BY <2>1, <2>2 DEF Callers, ThrottledRoutes, Trackers
  <2>4. Go(c, r)
    BY <1>6 DEF r
  <2> QED BY <1>1, <2>1, <2>3, <2>4, Authenticated
<1>7. ASSUME from.route \in {"internal", "health"}, Go(c, [call[c] EXCEPT !.stage = "intercept"])
      PROVE  IInv' /\ NoRefusal
  <2> DEFINE r == [call[c] EXCEPT !.stage = "intercept"]
  <2>1. /\ r \in Records /\ r.stage = "intercept" /\ r.type = "none" /\ r.status = 0
        /\ r.thrown = "none" /\ r.responseId = NoId
    BY <1>1, <1>2 DEF Records, Stages
  <2>2. Go(c, r)
    BY <1>7
  <2> QED BY <1>1, <2>1, <2>2, Authenticated
<1>8. CASE from.route = "payments"
  BY <1>3, <1>4, <1>8 DEF Guards
<1>9. CASE from.route = "dashboard"
  BY <1>3, <1>5, <1>9 DEF Guards
<1>10. CASE from.route = "checkout"
  BY <1>6, <1>10 DEF Guards
<1>11. CASE from.route = "internal"
  BY <1>3, <1>7, <1>11 DEF Guards
<1>12. CASE from.route = "unknown"
  BY <1>3, <1>12 DEF Guards
<1>13. CASE from.route = "health"
  BY <1>7, <1>13 DEF Guards
<1> QED BY <1>2, <1>8, <1>9, <1>10, <1>11, <1>12, <1>13 DEF Routes

LEMMA InterceptKeeps ==
  ASSUME IInv, NEW c \in Calls, Intercept(c)
  PROVE  IInv' /\ NoRefusal
<1> DEFINE from == call[c]
           id == ResponseId(call[c].header)
           named == [call[c] EXCEPT !.stage = "pipe", !.id = id, !.responseId = id]
           r == [named EXCEPT !.stage = "handler"]
           e == HttpException(400, "messages")
<1>1. /\ from \in Records /\ from.stage = "intercept" /\ UnderWay(from)
      /\ UNCHANGED <<hits, admitted, recent>>
      /\ Catch(c, named, e) \/ Go(c, r)
  BY DEF Intercept, IInv, TypeOK, CallOK
<1>2. id \in WellFormed /\ id \in Ids
  BY <1>1, IdFacts DEF Records
<1> HIDE DEF id
<1>3. /\ named \in Records /\ named.stage = "pipe" /\ named.id = id /\ named.responseId = id
      /\ Same(named, from) /\ named.type = "none" /\ named.status = 0 /\ named.thrown = "none"
  BY <1>1, <1>2 DEF Records, Stages, Same, UnderWay
<1> HIDE DEF named
<1>4. CASE Catch(c, named, e)
  <2>1. Throwing(named)
    BY <1>2, <1>3 DEF Throwing, Stages
  <2>2. CanThrow(e, named) /\ e # ThrottlerException
    BY DEF CanThrow, HttpErrors, HttpException, ThrottlerException
  <2> QED BY <1>1, <1>3, <1>4, <2>1, <2>2, Refused
<1>5. CASE Go(c, r)
  <2>1. /\ r \in Records /\ r.stage = "handler" /\ r.id = id /\ r.responseId = id
        /\ Same(r, from) /\ r.type = "none" /\ r.status = 0 /\ r.thrown = "none"
    BY <1>3 DEF Records, Stages, Same
  <2>2. CallOK(r)
    BY <1>2, <2>1 DEF CallOK, UnderWay
  <2> HIDE DEF r
  <2> QED BY <1>1, <1>5, <2>1, <2>2, Moved
<1> QED BY <1>1, <1>4, <1>5

LEMMA HandleKeeps ==
  ASSUME IInv, NEW c \in Calls, Handle(c)
  PROVE  IInv' /\ NoRefusal
<1> DEFINE from == call[c]
           r == [call[c] EXCEPT !.stage = "done", !.status = 200]
<1>1. /\ from \in Records /\ from.stage = "handler" /\ UnderWay(from)
      /\ UNCHANGED <<hits, admitted, recent>>
      /\ Go(c, r) \/ \E e \in Thrown(from.route) : Throw(c, e)
  BY DEF Handle, IInv, TypeOK, CallOK
<1>2. CASE Go(c, r)
  <2>1. /\ r \in Records /\ r.stage = "done" /\ r.status = 200 /\ r.type = "none"
        /\ Same(r, from) /\ r.responseId \in WellFormed
    <3>1. from.type = "none" /\ from.responseId \in WellFormed
      BY <1>1 DEF UnderWay
    <3>2. r \in Records
      <4> DEFINE ok == 200
      <4>1. ok \in Nat
        OBVIOUS
      <4> HIDE DEF ok
      <4>2. [from EXCEPT !.stage = "done", !.status = ok] \in Records
        BY <1>1, <4>1 DEF Records, Stages
      <4> QED BY <4>2 DEF ok
    <3> QED BY <1>1, <3>1, <3>2 DEF Records, Same
  <2>2. CallOK(r)
    BY <2>1 DEF CallOK, Answered
  <2> HIDE DEF r
  <2> QED BY <1>1, <1>2, <2>1, <2>2, Moved
<1>3. ASSUME NEW e \in Thrown(from.route), Throw(c, e)
      PROVE  IInv' /\ NoRefusal
  <2>1. Throwing(from) /\ Same(from, call[c])
    BY <1>1 DEF Throwing, Stages, Same, UnderWay
  <2>2. \/ e \in HypertronExceptions \cup {UniqueViolation, Unexpected}
        \/ e \in getPublic /\ from.route = "checkout"
        \/ e = HealthReport /\ from.route = "health"
    BY <1>1, <1>3 DEF Thrown, HypertronExceptions
  <2>3. CanThrow(e, from)
    BY <2>2 DEF CanThrow
  <2>4. e # ThrottlerException
    BY <2>2 DEF HypertronExceptions, getPublic, HealthReport, HttpException, InvalidRequestException,
                AuthenticationException, ResourceNotFoundException, IdempotencyException,
                StateTransitionException, ApiException, UniqueViolation, Unexpected,
                ThrottlerException
  <2>5. Catch(c, from, e)
    BY <1>3 DEF Throw
  <2> QED BY <1>1, <2>1, <2>3, <2>4, <2>5, Refused
<1> QED BY <1>1, <1>2, <1>3

-----------------------------------------------------------------------------
(* Counters *)

LEMMA BudgetFacts == Limit \in Nat /\ Window \in Nat /\ Limit > 0 /\ Window > 0
  BY BudgetAssumption

LEMMA LetThroughFinite ==
  ASSUME NEW s
  PROVE  IsFiniteSet(LetThrough(s)) /\ IsFiniteSet(LetThrough(s)')
  BY CallersAssumption, FS_Subset DEF LetThrough

LEMMA IncrementOK ==
  ASSUME NEW h \in Entries
  PROVE  /\ Increment(h) \in Entries
         /\ Increment(h).left = IF h.left = 0 THEN Window ELSE h.left
         /\ Increment(h).left \in 1..Window
         /\ Increment(h).count \in {h.count, h.count + 1} \ {0}
         /\ Increment(h).blocked > 0 
              => Increment(h).blocked = h.blocked
                 \/ (Increment(h).blocked = Window /\ Increment(h).count > Limit)
         /\ Increment(h).blocked = 0 => Increment(h).count = h.count + 1 /\ Increment(h).count <= Limit
<1>1. /\ h.count \in 0..Limit + 1 /\ h.left \in 0..Window /\ h.blocked \in 0..Window
  BY DEF Entries
<1> DEFINE count == IF h.count > Limit THEN h.count ELSE h.count + 1
           left == IF h.left = 0 THEN Window ELSE h.left
           blocked == CASE h.blocked > 0 -> h.blocked
                        [] h.blocked = 0 /\ count > Limit -> Window
                        [] OTHER -> 0
<1>2. count \in 1..Limit + 1 /\ count \in {h.count, h.count + 1} \ {0} /\ left \in 1..Window
      /\ (count <= Limit => count = h.count + 1)
  BY <1>1, BudgetFacts
<1>3. Increment(h) = [count |-> count, left |-> left, blocked |-> blocked]
  BY DEF Increment
<1> HIDE DEF count
<1>4. /\ blocked \in 0..Window
      /\ blocked > 0 => blocked = h.blocked \/ (blocked = Window /\ count > Limit)
      /\ blocked = 0 => count <= Limit
  <2>1. CASE h.blocked > 0
    <3>1. blocked = h.blocked
      BY <2>1
    <3> HIDE DEF blocked
    <3> QED BY <1>1, <2>1, <3>1, BudgetFacts
  <2>2. CASE h.blocked = 0 /\ count > Limit
    <3>1. blocked = Window
      BY <2>2
    <3> HIDE DEF blocked
    <3> QED BY <2>2, <3>1, BudgetFacts
  <2>3. CASE h.blocked = 0 /\ count <= Limit
    <3>1. blocked = 0
      BY <1>2, <2>3, BudgetFacts
    <3> HIDE DEF blocked
    <3> QED BY <2>3, <3>1, BudgetFacts
  <2> QED BY <1>1, <1>2, <2>1, <2>2, <2>3, BudgetFacts
<1> HIDE DEF blocked
<1>5. /\ Increment(h).count = count /\ Increment(h).left = left /\ Increment(h).blocked = blocked
      /\ Increment(h) \in Entries
  BY <1>2, <1>3, <1>4, BudgetFacts DEF Entries
<1> QED BY <1>1, <1>2, <1>4, <1>5, BudgetFacts

(* What the guard does to the caller's own counter. *)
Counts(c, s, r) ==
  /\ Go(c, r)
  /\ hits' = [hits EXCEPT ![s] = Increment(hits[s])]
  /\ admitted' = [admitted EXCEPT ![c] = IF Increment(hits[s]).blocked > 0 THEN 0
                                         ELSE Increment(hits[s]).left]
  /\ recent' = [recent EXCEPT ![s] = [i \in 1..Limit |-> IF i = 1 THEN 2 * Window
                                                                  ELSE recent[s][i - 1]]]

LEMMA ThrottlerCounts ==
  ASSUME IInv, NEW c \in Calls, ThrottlerGuard(c)
  PROVE  /\ Caller(call[c]) \in Callers /\ admitted[c] = 0
         /\ \E r \in Records : /\ Counts(c, Caller(call[c]), r) /\ CallOK(r) /\ Same(r, call[c])
                               /\ r.stage \in {"intercept", "done"}
                               /\ r.status = 429 => Increment(hits[Caller(call[c])]).blocked > 0
<1> DEFINE from == call[c]
           s == Caller(call[c])
           after == Increment(hits[s])
           late == [call[c] EXCEPT !.retryAfter = retryAfterSeconds(after.left)]
           on == [call[c] EXCEPT !.stage = "intercept"]
<1>1. /\ from \in Records /\ from.stage = "throttle" /\ UnderWay(from)
  BY DEF ThrottlerGuard, IInv, TypeOK, CallOK
<1>2. s \in Callers /\ admitted[c] = 0
  BY <1>1, NotCounted DEF UnderWay
<1>3. <<call[c].route, getTracker(call[c])>> = s
  BY DEF Caller, getTracker
<1>4. /\ hits' = [hits EXCEPT ![s] = after]
      /\ admitted' = [admitted EXCEPT ![c] = IF after.blocked > 0 THEN 0 ELSE after.left]
  BY <1>3 DEF ThrottlerGuard
<1>5. recent' = [recent EXCEPT ![s] = [i \in 1..Limit |-> IF i = 1 THEN 2 * Window
                                                                    ELSE recent[s][i - 1]]]
  BY <1>2 DEF ThrottlerGuard, IInv, TypeOK
<1>6. IF after.blocked > 0 THEN Catch(c, late, ThrottlerException) ELSE Go(c, on)
  BY <1>3 DEF ThrottlerGuard
<1>7. hits[s] \in Entries
  BY <1>2 DEF IInv, TypeOK
<1>8. after.left \in 1..Window /\ after.blocked \in Nat
  BY <1>7, IncrementOK, BudgetFacts DEF Entries
<1>9. ASSUME NEW r \in Records, Go(c, r)
      PROVE  Counts(c, s, r)
  BY <1>4, <1>5, <1>9 DEF Counts
<1> HIDE DEF after
<1>10. CASE after.blocked > 0
  <2>1. /\ late \in Records /\ late.retryAfter \in 1..Window /\ Same(late, from)
        /\ late.stage = "throttle" /\ late.responseId = NoId
    <3>1. retryAfterSeconds(after.left) \in 1..Window /\ retryAfterSeconds(after.left) \in Nat
      BY <1>8, BudgetFacts DEF retryAfterSeconds
    <3> QED BY <1>1, <3>1 DEF Records, Same, UnderWay
  <2> HIDE DEF late
  <2>2. Throwing(late)
    BY <2>1 DEF Throwing, Stages
  <2>3. Caller(late) = s
    BY <2>1, SameCaller
  <2>4. CanThrow(ThrottlerException, late)
    BY <1>2, <2>1, <2>3 DEF CanThrow
  <2>5. Catch(c, late, ThrottlerException)
    BY <1>6, <1>10
  <2>6. PICK status \in Nat : Answers(c, late, status)
    BY <2>1, <2>2, <2>4, <2>5, CatchOK
  <2>7. PICK r \in Records : Go(c, r) /\ r.stage = "done" /\ Answered(r) /\ Same(r, late)
    BY <2>6 DEF Answers
  <2>8. CallOK(r) /\ Same(r, from) /\ Counts(c, s, r)
    BY <1>9, <2>1, <2>7 DEF CallOK, Same
  <2> QED BY <1>2, <1>10, <2>7, <2>8 DEF after
<1>11. CASE after.blocked = 0
  <2>1. /\ on \in Records /\ on.stage = "intercept" /\ Same(on, from) /\ on.type = "none"
        /\ on.status = 0 /\ on.thrown = "none" /\ on.responseId = NoId
    BY <1>1 DEF Records, Stages, Same, UnderWay
  <2> HIDE DEF on
  <2>2. CallOK(on)
    BY <2>1 DEF CallOK, UnderWay
  <2>3. Counts(c, s, on)
    BY <1>6, <1>9, <1>11, <2>1
  <2> QED BY <1>2, <2>1, <2>2, <2>3
<1> QED BY <1>8, <1>10, <1>11

(* The calls let through after a request is counted. *)
LEMMA CountedThrough ==
  ASSUME IInv, NEW c \in Calls, admitted[c] = 0, NEW r \in Records, Same(r, call[c]),
         Counts(c, Caller(call[c]), r), Caller(call[c]) \in Callers, NEW s \in Callers
  PROVE  LetThrough(s)' = IF s = Caller(call[c]) /\ Increment(hits[s]).blocked = 0
                          THEN LetThrough(s) \cup {c} ELSE LetThrough(s)
<1> DEFINE after == Increment(hits[Caller(call[c])])
<1>1. /\ call' = [call EXCEPT ![c] = r] /\ call \in [Calls -> Records]
      /\ admitted' = [admitted EXCEPT ![c] = IF after.blocked > 0 THEN 0 ELSE after.left]
      /\ admitted \in [Calls -> 0..Window]
  BY DEF Counts, Go, IInv, TypeOK
<1>2. hits[Caller(call[c])] \in Entries
  BY DEF IInv, TypeOK
<1>3. after.blocked \in Nat /\ after.left \in 1..Window
  BY <1>2, IncrementOK, BudgetFacts DEF Entries
<1> HIDE DEF after
<1>4. Caller(r) = Caller(call[c])
  BY SameCaller
<1>5. \A d \in Calls : Caller(call'[d]) = Caller(call[d])
  BY <1>1, <1>4
<1>6. \A d \in Calls \ {c} : admitted'[d] = admitted[d]
  BY <1>1
<1>7. admitted'[c] = IF after.blocked > 0 THEN 0 ELSE after.left
  BY <1>1
<1>8. admitted'[c] > 0 <=> after.blocked = 0
  BY <1>3, <1>7
<1>9. \A d \in Calls : d \in LetThrough(s)' <=> Caller(call[d]) = s /\ admitted'[d] > 0
  BY <1>5 DEF LetThrough
<1>10. \A d \in Calls : d \in LetThrough(s) <=> Caller(call[d]) = s /\ admitted[d] > 0
  BY DEF LetThrough
<1>11. c \notin LetThrough(s)
  BY <1>10
<1>12. \A d \in Calls \ {c} : d \in LetThrough(s)' <=> d \in LetThrough(s)
  BY <1>6, <1>9, <1>10
<1>13. c \in LetThrough(s)' <=> s = Caller(call[c]) /\ after.blocked = 0
  BY <1>8, <1>9
<1>14. LetThrough(s)' \subseteq Calls /\ LetThrough(s) \subseteq Calls
  BY DEF LetThrough
<1> QED BY <1>11, <1>12, <1>13, <1>14 DEF after

LEMMA CountedBudget ==
  ASSUME IInv, NEW c \in Calls, admitted[c] = 0, NEW r \in Records, Same(r, call[c]),
         NEW s \in Callers, s = Caller(call[c]), Counts(c, s, r)
  PROVE  BudgetOK(s)'
<1> DEFINE h == hits[s]
           a == Increment(h)
           last == recent[s]
           lastp == recent'[s]
<1>1. BudgetOK(s) /\ h \in Entries /\ last \in [1..Limit -> 0..2 * Window]
      /\ admitted \in [Calls -> 0..Window]
  BY DEF IInv, TypeOK
<1>2. hits'[s] = a
  BY DEF Counts, IInv, TypeOK
<1>3. lastp = [i \in 1..Limit |-> IF i = 1 THEN 2 * Window ELSE last[i - 1]]
  BY DEF Counts, IInv, TypeOK
<1>4. LetThrough(s)' = IF a.blocked = 0 THEN LetThrough(s) \cup {c} ELSE LetThrough(s)
  BY CountedThrough
<1>5. admitted' = [admitted EXCEPT ![c] = IF a.blocked > 0 THEN 0 ELSE a.left]
  BY DEF Counts
<1>6. /\ h.count > 0 => h.left > 0
      /\ \A i \in 1..Limit : i <= h.count => last[i] >= Window + h.left
      /\ h.blocked > 0 => \A i \in 1..Limit : last[i] >= h.blocked
      /\ \A d \in LetThrough(s) : admitted[d] <= h.left
      /\ Cardinality(LetThrough(s)) <= h.count /\ Cardinality(LetThrough(s)) <= Limit
  BY <1>1 DEF BudgetOK
<1>7. /\ h.count \in 0..Limit + 1 /\ h.left \in 0..Window /\ h.blocked \in 0..Window
      /\ a.count \in 0..Limit + 1 /\ a.blocked \in 0..Window
  BY <1>1, IncrementOK DEF Entries
<1>8. /\ a.left = IF h.left = 0 THEN Window ELSE h.left
      /\ a.left \in 1..Window
      /\ a.count \in {h.count, h.count + 1} \ {0}
      /\ a.blocked > 0 => a.blocked = h.blocked \/ (a.blocked = Window /\ a.count > Limit)
      /\ a.blocked = 0 => a.count = h.count + 1 /\ a.count <= Limit
  BY <1>1, IncrementOK
<1> HIDE DEF a, h, last, lastp
<1>9. ASSUME NEW i \in 1..Limit, i <= a.count
      PROVE  lastp[i] >= Window + a.left
  <2>1. CASE i = 1
    BY <1>3, <1>8, <2>1, BudgetFacts
  <2>2. CASE i # 1
    <3>1. i - 1 \in 1..Limit /\ i - 1 <= h.count /\ h.count > 0
      BY <1>7, <1>8, <1>9, <2>2, BudgetFacts
    <3>2. last[i - 1] >= Window + h.left /\ h.left > 0
      BY <1>6, <3>1
    <3>3. a.left = h.left
      BY <1>8, <3>2
    <3>4. lastp[i] = last[i - 1]
      BY <1>3, <2>2
    <3> QED BY <3>2, <3>3, <3>4
  <2> QED BY <2>1, <2>2
<1>10. ASSUME a.blocked > 0, NEW i \in 1..Limit
       PROVE  lastp[i] >= a.blocked
  <2>1. CASE a.blocked = Window /\ a.count > Limit
    <3>1. i <= a.count
      BY <1>7, <2>1, BudgetFacts
    <3>2. lastp[i] >= Window + a.left /\ a.left \in 1..Window
      BY <1>8, <1>9, <3>1
    <3>3. lastp[i] \in Int
      BY <1>1, <1>3, BudgetFacts
    <3> QED BY <2>1, <3>2, <3>3, BudgetFacts
  <2>2. CASE a.blocked = h.blocked
    <3>1. CASE i = 1
      BY <1>3, <1>7, <3>1, BudgetFacts
    <3>2. CASE i # 1
      <4>1. i - 1 \in 1..Limit /\ lastp[i] = last[i - 1]
        BY <1>3, <3>2, BudgetFacts
      <4>2. last[i - 1] >= h.blocked
        BY <1>6, <1>10, <2>2, <4>1
      <4> QED BY <2>2, <4>1, <4>2
    <3> QED BY <3>1, <3>2
  <2> QED BY <1>8, <1>10, <2>1, <2>2
<1>11. ASSUME NEW d \in LetThrough(s)'
       PROVE  admitted'[d] <= a.left
  <2>1. d \in Calls
    BY <1>11 DEF LetThrough
  <2>2. CASE d = c
    BY <1>1, <1>5, <1>7, <1>8, <2>1, <2>2
  <2>3. CASE d # c
    <3>1. admitted'[d] = admitted[d] /\ d \in LetThrough(s)
      BY <1>1, <1>4, <1>5, <1>11, <2>1, <2>3
    <3>2. admitted[d] <= h.left /\ admitted[d] > 0
      BY <1>6, <3>1 DEF LetThrough
    <3>3. admitted[d] \in Nat
      BY <1>1, <2>1
    <3> QED BY <1>7, <1>8, <3>1, <3>2, <3>3
  <2> QED BY <2>2, <2>3
<1>12. Cardinality(LetThrough(s)') <= a.count /\ Cardinality(LetThrough(s)') <= Limit
  <2>1. IsFiniteSet(LetThrough(s)) /\ Cardinality(LetThrough(s)) \in Nat
    BY LetThroughFinite, FS_CardinalityType
  <2>2. CASE a.blocked = 0
    <3>1. LetThrough(s)' = LetThrough(s) \cup {c} /\ c \notin LetThrough(s)
      BY <1>4, <2>2 DEF LetThrough
    <3> DEFINE n == Cardinality(LetThrough(s))
               np == Cardinality(LetThrough(s)')
    <3>2. np = n + 1
      <4>1. Cardinality(LetThrough(s) \cup {c}) = n + 1
        <5> DEFINE A == LetThrough(s)
        <5>1. IsFiniteSet(A) /\ c \notin A
          BY <2>1, <3>1
        <5> HIDE DEF A
        <5>2. Cardinality(A \cup {c}) = Cardinality(A) + 1
          BY <5>1, FS_AddElement
        <5> QED BY <5>2 DEF A
      <4> QED BY <3>1, <4>1
    <3>3. n \in Nat /\ n <= h.count /\ a.count = h.count + 1 /\ a.count <= Limit
      BY <1>6, <1>8, <2>1, <2>2
    <3> HIDE DEF n, np
    <3>4. np <= a.count /\ np <= Limit
      BY <1>7, <3>2, <3>3, BudgetFacts
    <3> QED BY <3>4 DEF np
  <2>3. CASE a.blocked # 0
    BY <1>4, <1>6, <1>7, <1>8, <2>1, <2>3, BudgetFacts
  <2> QED BY <2>2, <2>3
<1>13. a.count > 0 => a.left > 0
  BY <1>8
<1> QED BY <1>2, <1>9, <1>10, <1>11, <1>12, <1>13 DEF BudgetOK, lastp

LEMMA ThrottlerKeeps ==
  ASSUME IInv, NEW c \in Calls, ThrottlerGuard(c)
  PROVE  IInv'
<1> DEFINE s == Caller(call[c])
           a == Increment(hits[s])
<1>1. s \in Callers /\ admitted[c] = 0
  BY ThrottlerCounts
<1>2. PICK r \in Records : /\ Counts(c, s, r) /\ CallOK(r) /\ Same(r, call[c])
                           /\ r.stage \in {"intercept", "done"}
                           /\ r.status = 429 => a.blocked > 0
  BY ThrottlerCounts
<1>3. a \in Entries /\ a.left \in 1..Window /\ a.blocked \in Nat
  <2>1. hits[s] \in Entries
    BY <1>1 DEF IInv, TypeOK
  <2> QED BY <2>1, IncrementOK, BudgetFacts DEF Entries
<1>4. /\ call' = [call EXCEPT ![c] = r]
      /\ hits' = [hits EXCEPT ![s] = a]
      /\ admitted' = [admitted EXCEPT ![c] = IF a.blocked > 0 THEN 0 ELSE a.left]
      /\ recent' = [recent EXCEPT ![s] = [i \in 1..Limit |-> IF i = 1 THEN 2 * Window
                                                                    ELSE recent[s][i - 1]]]
  BY <1>2 DEF Counts, Go
<1>5. TypeOK /\ \A d \in Calls : CallOK(call[d]) /\ AdmittedOK(d)
  BY DEF IInv
<1>6. Caller(r) = s
  BY <1>2, SameCaller
<1>7. ASSUME NEW t \in Callers
      PROVE  BudgetOK(t)'
  <2>1. CASE t = s
    BY <1>1, <1>2, <2>1, CountedBudget
  <2>2. CASE t # s
    <3>1. LetThrough(t)' = LetThrough(t)
      BY <1>1, <1>2, <2>2, CountedThrough
    <3>2. hits'[t] = hits[t] /\ recent'[t] = recent[t]
      BY <1>4, <1>5, <2>2 DEF TypeOK
    <3>3. c \notin LetThrough(t)
      BY <1>1 DEF LetThrough
    <3>4. \A d \in LetThrough(t) : admitted'[d] = admitted[d]
      BY <1>4, <1>5, <3>3 DEF LetThrough, TypeOK
    <3>5. BudgetOK(t)
      BY DEF IInv
    <3> QED BY <3>1, <3>2, <3>4, <3>5 DEF BudgetOK
  <2> QED BY <2>1, <2>2
<1> HIDE DEF s, a
<1>8. TypeOK'
  <2>1. call' \in [Calls -> Records]
    BY <1>4, <1>5 DEF TypeOK
  <2>2. hits' \in [Callers -> Entries]
    BY <1>3, <1>4, <1>5 DEF TypeOK
  <2>3. admitted' \in [Calls -> 0..Window]
    <3> DEFINE n == IF a.blocked > 0 THEN 0 ELSE a.left
    <3>1. n \in 0..Window
      BY <1>3, BudgetFacts
    <3> HIDE DEF n
    <3>2. [admitted EXCEPT ![c] = n] \in [Calls -> 0..Window]
      BY <1>5, <3>1 DEF TypeOK
    <3> QED BY <1>4, <3>2 DEF n
  <2>4. recent' \in [Callers -> [1..Limit -> 0..2 * Window]]
    <3> DEFINE last == [i \in 1..Limit |-> IF i = 1 THEN 2 * Window ELSE recent[s][i - 1]]
    <3>1. recent[s] \in [1..Limit -> 0..2 * Window]
      BY <1>1, <1>5 DEF TypeOK
    <3>2. last \in [1..Limit -> 0..2 * Window]
      BY <3>1, BudgetFacts
    <3> HIDE DEF last
    <3>3. [recent EXCEPT ![s] = last] \in [Callers -> [1..Limit -> 0..2 * Window]]
      BY <1>5, <3>2 DEF TypeOK
    <3> QED BY <1>4, <3>3 DEF last
  <2> QED BY <2>1, <2>2, <2>3, <2>4 DEF TypeOK
<1>9. ASSUME NEW d \in Calls
      PROVE  CallOK(call[d])' /\ AdmittedOK(d)'
  <2>1. CASE d = c
    <3>1. call'[c] = r /\ admitted'[c] = IF a.blocked > 0 THEN 0 ELSE a.left
      BY <1>4, <1>5 DEF TypeOK
    <3>2. admitted'[c] > 0 => r.status # 429
      BY <1>2, <1>3, <3>1 DEF a
    <3> QED BY <1>1, <1>2, <1>6, <2>1, <3>1, <3>2 DEF AdmittedOK, s
  <2>2. CASE d # c
    <3>1. call'[d] = call[d] /\ admitted'[d] = admitted[d]
      BY <1>4, <1>5, <2>2 DEF TypeOK
    <3> QED BY <1>5, <3>1 DEF AdmittedOK
  <2> QED BY <2>1, <2>2
<1> QED BY <1>7, <1>8, <1>9 DEF IInv

LEMMA TickKeeps ==
  ASSUME IInv, WindowTick
  PROVE  IInv'
<1>1. /\ call' = call
      /\ admitted' = [c \in Calls |-> Down(admitted[c])]
      /\ recent' = [s \in Callers |-> [i \in 1..Limit |-> Down(recent[s][i])]]
      /\ hits' = [s \in Callers |->
                    [count |-> IF hits[s].left <= 1 THEN 0 ELSE hits[s].count,
                     left |-> Down(hits[s].left), blocked |-> Down(hits[s].blocked)]]
  BY DEF WindowTick, IInv, TypeOK
<1>2. TypeOK
  BY DEF IInv
<1>3. TypeOK'
  <2>1. admitted' \in [Calls -> 0..Window]
    BY <1>1, <1>2, BudgetFacts DEF TypeOK, Down
  <2>2. recent' \in [Callers -> [1..Limit -> 0..2 * Window]]
    <3>1. \A n \in 0..2 * Window : Down(n) \in 0..2 * Window
      BY BudgetFacts DEF Down
    <3>2. \A s \in Callers : [i \in 1..Limit |-> Down(recent[s][i])] \in [1..Limit -> 0..2 * Window]
      BY <1>2, <3>1 DEF TypeOK
    <3> QED BY <1>1, <3>2
  <2>3. hits' \in [Callers -> Entries]
    <3> DEFINE next(h) == [count |-> IF h.left <= 1 THEN 0 ELSE h.count,
                           left |-> Down(h.left), blocked |-> Down(h.blocked)]
    <3>1. \A n \in 0..Window : Down(n) \in 0..Window
      BY BudgetFacts DEF Down
    <3>2. \A h \in Entries : next(h) \in Entries
      BY <3>1, BudgetFacts DEF Entries
    <3>3. hits' = [s \in Callers |-> next(hits[s])]
      BY <1>1
    <3> HIDE DEF next
    <3> QED BY <1>2, <3>2, <3>3 DEF TypeOK
  <2> QED BY <1>1, <1>2, <2>1, <2>2, <2>3 DEF TypeOK
<1>4. ASSUME NEW d \in Calls
      PROVE  CallOK(call[d])' /\ AdmittedOK(d)'
  <2>1. admitted'[d] = Down(admitted[d]) /\ admitted[d] \in Nat
    BY <1>1, <1>2 DEF TypeOK
  <2>2. admitted'[d] > 0 => admitted[d] > 0
    BY <2>1 DEF Down
  <2> QED BY <1>1, <2>2 DEF IInv, AdmittedOK
<1>5. ASSUME NEW s \in Callers
      PROVE  BudgetOK(s)'
  <2> DEFINE h == hits[s]
             hp == hits'[s]
             n == Cardinality(LetThrough(s))
             np == Cardinality(LetThrough(s)')
  <2>1. /\ h.count \in 0..Limit + 1 /\ h.left \in 0..Window /\ h.blocked \in 0..Window
        /\ recent[s] \in [1..Limit -> 0..2 * Window]
    BY <1>2 DEF TypeOK, Entries
  <2>2. /\ hp.count = (IF h.left <= 1 THEN 0 ELSE h.count)
        /\ hp.left = Down(h.left) /\ hp.blocked = Down(h.blocked)
        /\ recent'[s] = [i \in 1..Limit |-> Down(recent[s][i])]
    BY <1>1
  <2>3. /\ h.count > 0 => h.left > 0
        /\ \A i \in 1..Limit : i <= h.count => recent[s][i] >= Window + h.left
        /\ h.blocked > 0 => \A i \in 1..Limit : recent[s][i] >= h.blocked
        /\ \A d \in LetThrough(s) : admitted[d] <= h.left
        /\ n <= h.count /\ n <= Limit
    BY DEF IInv, BudgetOK
  <2>4. \A d \in LetThrough(s)' : /\ d \in LetThrough(s) /\ admitted'[d] = admitted[d] - 1
                                  /\ admitted[d] > 1 /\ admitted[d] \in Nat
    BY <1>1, <1>2 DEF LetThrough, TypeOK, Down
  <2>5. n \in Nat /\ np \in Nat /\ np <= n
    <3>1. LetThrough(s)' \subseteq LetThrough(s)
      BY <2>4
    <3> QED BY <3>1, LetThroughFinite, FS_CardinalityType, FS_Subset
  <2>6. h.left <= 1 => np = 0
    <3> SUFFICES ASSUME h.left <= 1
                 PROVE  np = 0
      OBVIOUS
    <3>1. LetThrough(s)' = {}
      BY <2>1, <2>3, <2>4
    <3> QED BY <3>1, FS_EmptySet
  <2> HIDE DEF h, hp, n, np
  <2>7. hp.count > 0 => hp.left > 0
    BY <2>1, <2>2, <2>3 DEF Down
  <2>8. ASSUME NEW i \in 1..Limit, i <= hp.count
        PROVE  recent'[s][i] >= Window + hp.left
    <3>1. h.left > 1 /\ hp.count = h.count /\ hp.left = h.left - 1
      BY <2>1, <2>2, <2>8 DEF Down
    <3>2. recent[s][i] \in Nat
      BY <2>1, BudgetFacts
    <3>3. recent[s][i] >= Window + h.left
      BY <2>3, <2>8, <3>1
    <3>4. recent'[s][i] = Down(recent[s][i])
      BY <2>2
    <3> DEFINE was == recent[s][i]
               after == recent'[s][i]
    <3> HIDE DEF was, after
    <3>5. after = Down(was) /\ was \in Nat /\ was >= Window + h.left
      BY <3>2, <3>3, <3>4 DEF was, after
    <3>6. after = was - 1
      BY <2>1, <3>1, <3>5, BudgetFacts DEF Down
    <3>7. after >= Window + hp.left
      BY <2>1, <3>1, <3>5, <3>6, BudgetFacts
    <3> QED BY <3>7 DEF after
  <2>9. ASSUME hp.blocked > 0, NEW i \in 1..Limit
        PROVE  recent'[s][i] >= hp.blocked
    <3>1. hp.blocked = h.blocked - 1 /\ h.blocked > 1
      BY <2>1, <2>2, <2>9 DEF Down
    <3>2. recent[s][i] >= h.blocked /\ recent[s][i] \in Nat
      <4>1. recent[s][i] \in Nat
        BY <2>1, BudgetFacts
      <4> QED BY <2>1, <2>3, <3>1, <4>1
    <3>3. recent'[s][i] = recent[s][i] - 1
      BY <2>1, <2>2, <3>1, <3>2 DEF Down
    <3> QED BY <2>1, <3>1, <3>2, <3>3
  <2>10. ASSUME NEW d \in LetThrough(s)'
         PROVE  admitted'[d] <= hp.left
    <3>1. admitted'[d] = admitted[d] - 1 /\ admitted[d] <= h.left /\ admitted[d] > 1
          /\ admitted[d] \in Nat
      BY <2>3, <2>4
    <3> QED BY <2>1, <2>2, <3>1 DEF Down
  <2>11. np <= hp.count /\ np <= Limit
    BY <2>1, <2>2, <2>3, <2>5, <2>6, BudgetFacts
  <2> QED BY <2>7, <2>8, <2>9, <2>10, <2>11 DEF BudgetOK, hp, np
<1> QED BY <1>3, <1>4, <1>5 DEF IInv

-----------------------------------------------------------------------------
(* Theorems *)

LEMMA InitOK ==
  ASSUME PipelineInit
  PROVE  IInv
<1>1. /\ call = [c \in Calls |-> NewCall] /\ admitted = [c \in Calls |-> 0]
      /\ hits = [s \in Callers |-> NoHits]
      /\ recent = [s \in Callers |-> [i \in 1..Limit |-> 0]]
  BY DEF PipelineInit, Callers
<1>2. NoHits \in Entries
  BY BudgetFacts DEF NoHits, Entries
<1>3. TypeOK
  BY <1>1, <1>2, NewCallOK, BudgetFacts DEF TypeOK
<1>4. \A c \in Calls : CallOK(call[c]) /\ AdmittedOK(c)
  BY <1>1, NewCallOK DEF CallOK, AdmittedOK
<1>5. ASSUME NEW s \in Callers
      PROVE  BudgetOK(s)
  <2>1. LetThrough(s) = {}
    BY <1>1 DEF LetThrough
  <2>2. Cardinality(LetThrough(s)) = 0
    BY <2>1, FS_EmptySet
  <2> QED BY <1>1, <2>1, <2>2, BudgetFacts DEF BudgetOK, NoHits
<1> QED BY <1>3, <1>4, <1>5 DEF IInv

(* The inductive invariant: every stage, every failure and every tick of the *)
(* throttler's windows preserves it.                                         *)
THEOREM Invariance == PipelineSpec => []IInv
<1>1. PipelineInit => IInv
  BY InitOK
<1>2. IInv /\ [PipelineNext]_pipelineVars => IInv'
  <2> SUFFICES ASSUME IInv, [PipelineNext]_pipelineVars
               PROVE  IInv'
    OBVIOUS
  <2>1. ASSUME NEW c \in Calls, NEW route \in Routes, NEW h \in Headers, NEW a \in Addresses,
               Arrive(c, route, h, a)
        PROVE  IInv'
    BY <2>1, ArriveKeeps
  <2>2. ASSUME NEW c \in Calls, Retry(c)
        PROVE  IInv'
    BY <2>2, RetryKeeps
  <2>3. ASSUME NEW c \in Calls, Guards(c)
        PROVE  IInv'
    BY <2>3, GuardsKeep
  <2>4. ASSUME NEW c \in Calls, ThrottlerGuard(c)
        PROVE  IInv'
    BY <2>4, ThrottlerKeeps
  <2>5. ASSUME NEW c \in Calls, Intercept(c)
        PROVE  IInv'
    BY <2>5, InterceptKeeps
  <2>6. ASSUME NEW c \in Calls, Handle(c)
        PROVE  IInv'
    BY <2>6, HandleKeeps
  <2>7. CASE WindowTick
    BY <2>7, TickKeeps
  <2>8. CASE UNCHANGED pipelineVars
    <3>1. call' = call /\ hits' = hits /\ admitted' = admitted /\ recent' = recent
      BY <2>8 DEF pipelineVars
    <3>2. TypeOK'
      BY <3>1 DEF IInv, TypeOK
    <3>3. \A c \in Calls : CallOK(call[c])' /\ AdmittedOK(c)'
      BY <3>1 DEF IInv, AdmittedOK
    <3>4. ASSUME NEW s \in Callers
          PROVE  BudgetOK(s)'
      <4>1. LetThrough(s)' = LetThrough(s)
        BY <3>1 DEF LetThrough
      <4> QED BY <3>1, <4>1 DEF IInv, BudgetOK
    <3> QED BY <3>2, <3>3, <3>4 DEF IInv
  <2> QED BY <2>1, <2>2, <2>3, <2>4, <2>5, <2>6, <2>7, <2>8 DEF PipelineNext
<1> QED BY <1>1, <1>2, PTL DEF PipelineSpec

(* Calls, counters and histories keep their types. *)
THEOREM TypeCorrect == PipelineSpec => []TypeOK
<1>1. IInv => TypeOK
  BY DEF IInv
<1> QED BY <1>1, Invariance, PTL

(* Whatever stage of whichever call fails, HypertronExceptionFilter answers with the    *)
(* id the response carries, a type that fits the status (or none, for the report of     *)
(* /health and for nothing else), a time to come back after a refusal for the rate, and *)
(* the checkout's own shape for checkout links only.                                    *)
THEOREM ErrorContractHolds == PipelineSpec => []ErrorContract
<1>1. IInv => ErrorContract
  <2> SUFFICES ASSUME IInv
               PROVE  ErrorContract
    OBVIOUS
  <2>1. ASSUME NEW c \in Calls
        PROVE  LET r == call[c]
               IN /\ r.type \notin {"none", "collect"} =>
                        r.bodyId = r.responseId /\ Documented(r)
                  /\ r.type = "collect" => r.route = "checkout" /\ r.responseId # NoId
                  /\ r.status = 429 => r.retryAfter \in 1..Window
                  /\ r.stage = "done" /\ r.thrown \in {"pipe", "handler", "none"} =>
                        r.responseId \in {FromClient("good"), Generated("interceptor")}
    BY DEF IInv, CallOK, Answered, UnderWay, WellFormed
  <2> QED BY <2>1 DEF ErrorContract
<1> QED BY <1>1, Invariance, PTL

(* However the requests of several callers, their retries and the ticks of the windows  *)
(* interleave, at most Limit requests of one caller are let through in a window, and    *)
(* the throttler refuses a caller only for what that caller itself has used up.         *)
THEOREM BudgetsAreSeparateHolds == PipelineSpec => BudgetsAreSeparate
<1>1. IInv /\ [PipelineNext]_pipelineVars
         => [\A c \in Calls :
               /\ Cardinality({d \in Calls : Caller(call[d]) = Caller(call[c]) /\ admitted[d] > 0})
                     <= Limit
               /\ call'[c].status = 429 /\ call[c].status # 429
                     => \A i \in 1..Limit : recent[Caller(call[c])][i] > 0]_pipelineVars
  <2> SUFFICES ASSUME IInv, [PipelineNext]_pipelineVars, NEW c \in Calls
               PROVE  /\ Cardinality(LetThrough(Caller(call[c]))) <= Limit
                      /\ call'[c].status = 429 /\ call[c].status # 429 /\ PipelineNext
                            => \A i \in 1..Limit : recent[Caller(call[c])][i] > 0
    BY DEF LetThrough
  <2>1. Cardinality(LetThrough(Caller(call[c]))) <= Limit
    <3>1. CASE Caller(call[c]) \in Callers
      BY <3>1 DEF IInv, BudgetOK
    <3>2. CASE Caller(call[c]) \notin Callers
      <4>1. LetThrough(Caller(call[c])) = {}
        BY <3>2 DEF IInv, AdmittedOK, LetThrough
      <4> QED BY <4>1, FS_EmptySet, BudgetFacts
    <3> QED BY <3>1, <3>2
  <2>2. ASSUME PipelineNext, call'[c].status = 429, call[c].status # 429, NEW i \in 1..Limit
        PROVE  recent[Caller(call[c])][i] > 0
    <3>1. ~ NoRefusal
      BY <2>2 DEF NoRefusal
    <3>2. PICK d \in Calls : ThrottlerGuard(d)
      BY <2>2, <3>1, ArriveKeeps, RetryKeeps, GuardsKeep, InterceptKeeps, HandleKeeps
         DEF PipelineNext, WindowTick
    <3> DEFINE s == Caller(call[d])
               h == hits[s]
    <3>3. PICK r \in Records : /\ s \in Callers /\ Counts(d, s, r)
                               /\ r.status = 429 => Increment(h).blocked > 0
      BY <3>2, ThrottlerCounts
    <3>4. call \in [Calls -> Records] /\ h \in Entries /\ recent[s] \in [1..Limit -> 0..2 * Window]
          /\ BudgetOK(s)
      BY <3>3 DEF IInv, TypeOK
    <3>5. c = d /\ r.status = 429
      BY <2>2, <3>3, <3>4 DEF Counts, Go
    <3>6. h.blocked \in Nat /\ h.left \in Nat /\ h.count \in Nat
      BY <3>4, BudgetFacts DEF Entries
    <3>7. h.blocked > 0 \/ Limit <= h.count
      <4> DEFINE a == Increment(h)
      <4>1. /\ a.blocked > 0
            /\ a.blocked > 0 => a.blocked = h.blocked \/ (a.blocked = Window /\ a.count > Limit)
            /\ a.count \in {h.count, h.count + 1}
        BY <3>3, <3>4, <3>5, IncrementOK
      <4> HIDE DEF a, h
      <4> QED BY <3>6, <4>1, BudgetFacts
    <3>8. recent[s][i] > 0
      <4>1. /\ h.blocked > 0 => recent[s][i] >= h.blocked
            /\ i <= h.count => recent[s][i] >= Window + h.left
        BY <3>4 DEF BudgetOK
      <4>2. recent[s][i] \in Nat
        BY <3>4, BudgetFacts
      <4> DEFINE n == recent[s][i]
      <4> HIDE DEF h, s, n
      <4> QED BY <3>6, <3>7, <4>1, <4>2, BudgetFacts DEF n
    <3> QED BY <3>5, <3>8
  <2> QED BY <2>1, <2>2
<1> QED BY <1>1, Invariance, PTL DEF PipelineSpec, BudgetsAreSeparate
=============================================================================
