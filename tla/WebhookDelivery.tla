--------------------------- MODULE WebhookDelivery ---------------------------
(***************************************************************************)
(* WebhookDeliveryService and WebhookEndpointService on the pods that      *)
(* serve the webhook-delivery queue: the fan-out of an event to the        *)
(* subscribed endpoints, the attempts of each delivery and their schedule, *)
(* beside the merchant's manual retries and changes of the endpoints.  One *)
(* action per await that matters.  The events are of one merchant and one  *)
(* type; their rows are never deleted.  A delivery is named by its         *)
(* endpoint and event, which are unique among the rows there are at a time.*)
(***************************************************************************)
EXTENDS Integers, Sequences

CONSTANTS Endpoints,       \* rows of webhook_endpoints
          Events,          \* rows of payment_events
          Workers,         \* tasks of the pods: a job or a dashboard request
          None,            \* no event, no delivery
          MaxDeliveryAttempts,
          FanoutAttempts,  \* attempts of a fan-out job
          MaxRequests,     \* bound: dashboard requests that change something
          MaxFailures      \* bound: failing calls, dying pods, lost locks

Deliveries == Endpoints \X Events

ASSUME NoneAssumption == None \notin Events \cup Deliveries
ASSUME BoundsAssumption ==
  /\ MaxDeliveryAttempts \in Nat \ {0}
  /\ FanoutAttempts \in Nat \ {0}
  /\ {MaxRequests, MaxFailures} \subseteq Nat

VARIABLES
  endpoint,  \* active and events of each endpoint, in one word
  purges,    \* how often each endpoint's deliveries were deleted
  delivery,  \* the WebhookDelivery rows
  fanout,    \* the BullMQ job fanout_<event>
  jobs,      \* the BullMQ jobs of each delivery, by the suffix of their id
  requests,  \* those so far
  failures,  \* failing calls, dying pods and lost locks so far
  worker,    \* what each task is doing
  steady,    \* history: endpoints nobody has changed
  answers,   \* history: answers to a delivery, in order, until it is redone
  acked,     \* history: deliveries answered with 2xx
  redone,    \* history: deliveries retried by hand, redelivered or deleted
  broken     \* history: deliveries a failure or a taken job id left without a job

history == <<steady, answers, acked, redone, broken>>
vars == <<endpoint, purges, delivery, fanout, jobs, requests, failures, worker, history>>

Statuses == {"pending", "delivered", "failed"}
NoRow == [status |-> "none", attempts |-> 0]
NewRow == [status |-> "pending", attempts |-> 0]

(* jobId: the public id alone, with _r<attemptCount> or with manual_<now>.  *)
JobIds == ({"r"} \X (0 .. MaxDeliveryAttempts)) \cup ({"manual"} \X (1 .. MaxRequests))

NoJob == [state |-> "none", attempts |-> 0, stalled |-> FALSE]
Waiting == [NoJob EXCEPT !.state = "waiting"]
Jobs == [state : {"none", "waiting", "active", "failed", "done"},
         attempts : Nat, stalled : BOOLEAN]

(* epoch tells the row a task has read from one created after a removal.   *)
Idle == [pc |-> "idle", kind |-> "none", lost |-> FALSE, event |-> None, todo |-> {},
         delivery |-> None, epoch |-> 0, id |-> None, read |-> 0, result |-> "none"]

Results == {"ok", "retryable", "rejected"}

Tasks == [pc : {"idle", "findEndpoints", "create", "enqueue", "load", "findEndpoint", "send",
                "record", "markFailed", "finish", "reset", "deleteRows", "deleteEndpoint"},
          kind : {"none", "fanout", "deliver", "request"},
          lost : BOOLEAN, event : Events \cup {None}, todo : SUBSET Endpoints,
          delivery : Deliveries \cup {None}, epoch : Nat, id : JobIds \cup {None},
          read : Nat, result : Results \cup {"none"}]

TypeOK ==
  /\ endpoint \in [Endpoints -> {"subscribed", "unsubscribed", "inactive", "removed"}]
  /\ purges \in [Endpoints -> Nat]
  /\ delivery \in [Deliveries -> [status : Statuses \cup {"none"}, attempts : Nat]]
  /\ fanout \in [Events -> Jobs]
  /\ jobs \in [Deliveries -> [JobIds -> Jobs]]
  /\ requests \in 0 .. MaxRequests
  /\ failures \in 0 .. MaxFailures
  /\ worker \in [Workers -> Tasks]
  /\ steady \subseteq Endpoints
  /\ answers \in [Deliveries -> Seq(Results)]
  /\ {acked, redone, broken} \subseteq SUBSET Deliveries

(* An endpoint the merchant creates later is unsubscribed until then.      *)
Init ==
  /\ endpoint \in [Endpoints -> {"subscribed", "unsubscribed"}]
  /\ purges = [e \in Endpoints |-> 0]
  /\ delivery = [d \in Deliveries |-> NoRow]
  /\ fanout = [v \in Events |-> NoJob]
  /\ jobs = [d \in Deliveries |-> [id \in JobIds |-> NoJob]]
  /\ requests = 0 /\ failures = 0
  /\ worker = [w \in Workers |-> Idle]
  /\ steady = {e \in Endpoints : endpoint[e] = "subscribed"}
  /\ answers = [d \in Deliveries |-> <<>>]
  /\ acked = {} /\ redone = {} /\ broken = {}

EndpointOf(d) == d[1]
GoTo(w, pc) == worker' = [worker EXCEPT ![w].pc = pc]

(* The row the task has read is still there, under the id it knows.        *)
Current(t) == t.epoch = purges[EndpointOf(t.delivery)]
RowExists(t) == Current(t) /\ delivery[t.delivery] # NoRow

rows == <<endpoint, purges, delivery>>
queue == <<fanout, jobs>>

bounds == <<requests, failures>>

Fails == failures < MaxFailures /\ failures' = failures + 1

-----------------------------------------------------------------------------
(* The BullMQ queue.  A task is done with its job: the job is handed to    *)
(* OnFanout or OnDeliver, unless it was taken from the task or its row and *)
(* with it its name are gone.                                              *)
Holds(t) == ~t.lost /\ (t.kind = "deliver" => Current(t))

Settle(t, OnFanout(_), OnDeliver(_)) ==
  /\ fanout' = IF t.kind = "fanout" /\ Holds(t)
                 THEN [fanout EXCEPT ![t.event] = OnFanout(@)] ELSE fanout
  /\ jobs' = IF t.kind = "deliver" /\ Holds(t)
               THEN [jobs EXCEPT ![t.delivery][t.id] = OnDeliver(@)] ELSE jobs

Completed(job) == [job EXCEPT !.state = "done"]
Removed(job) == NoJob
Failed(job) == [job EXCEPT !.state = "failed"]
Retried(job) ==
  [state |-> IF job.attempts + 1 < FanoutAttempts THEN "waiting" ELSE "failed",
   attempts |-> job.attempts + 1, stalled |-> job.stalled]

(* The lock of an active job expired: the job goes back to the queue, the  *)
(* second time it fails (maxStalledCount).                                 *)
Redelivered(job) ==
  [state |-> IF job.stalled THEN "failed" ELSE "waiting",
   attempts |-> job.attempts, stalled |-> TRUE]

(* removeOnComplete; a fan-out job is not added again, its event being new. *)
Return(w) ==
  /\ worker' = [worker EXCEPT ![w] = Idle]
  /\ Settle(worker[w], Completed, Removed)

(* The delivery a fan-out or a manual retry was to enqueue. *)
NotEnqueued(t) == t.kind # "deliver" /\ t.pc = "enqueue"

(* attempts: 5 for a fan-out job, 1 for an attempt.  What it leaves without *)
(* a job is the delivery of the attempt, or the one it was to enqueue.     *)
Throw(w) ==
  LET t == worker[w] IN
  /\ worker' = [worker EXCEPT ![w] = Idle]
  /\ Settle(t, Retried, Failed)
  /\ broken' = IF (t.kind = "deliver" /\ Holds(t)) \/ NotEnqueued(t)
                 THEN broken \cup {t.delivery} ELSE broken

-----------------------------------------------------------------------------
(* dispatchEvent: a failure to add the job is logged and swallowed by      *)
(* EventsService, and the event is not fanned out.                         *)
DispatchEvent(v) ==
  /\ fanout[v] = NoJob
  /\ \/ fanout' = [fanout EXCEPT ![v] = Waiting] /\ UNCHANGED failures
     \/ fanout' = [fanout EXCEPT ![v] = Failed(NoJob)] /\ Fails
  /\ UNCHANGED <<rows, jobs, requests, worker, history>>

TakeFanout(w, v) ==
  /\ worker[w].pc = "idle"
  /\ fanout[v].state = "waiting"
  /\ fanout' = [fanout EXCEPT ![v].state = "active"]
  /\ worker' = [worker EXCEPT ![w] = [Idle EXCEPT !.pc = "findEndpoints", !.kind = "fanout",
                                                  !.event = v]]
  /\ UNCHANGED <<rows, jobs, bounds, history>>

(* enqueueDeliveries: one snapshot of the active endpoints subscribed to   *)
(* the event, worked off in a loop.                                        *)
FindEndpoints(w) ==
  /\ worker[w].pc = "findEndpoints"
  /\ worker' = [worker EXCEPT ![w].pc = "create",
                  ![w].todo = {e \in Endpoints : endpoint[e] = "subscribed"}]
  /\ UNCHANGED <<rows, queue, bounds, history>>

AtEnd(t) == [t EXCEPT !.pc = "finish", !.read = 0, !.result = "none"]

FirstId == <<"r", 0>>

(* The task has the row of d, which it has created or read.                *)
WithRow(t, d, pc, id) ==
  [t EXCEPT !.pc = pc, !.delivery = d, !.epoch = purges[EndpointOf(d)], !.id = id]

(* Mutants: a delivery that exists is returned instead of null, and gets a *)
(* first attempt; the loop stops at a delivery that exists.                *)
CreateOrFind(w) ==
  LET t == worker[w] IN
  /\ t.pc = "create"
  /\ \E e \in t.todo :
       LET d == <<e, t.event>> IN
       /\ worker' = [worker EXCEPT ![w] = WithRow([t EXCEPT !.todo = @ \ {e}], d, "enqueue", FirstId)]
       /\ delivery' = IF delivery[d] = NoRow THEN [delivery EXCEPT ![d] = NewRow] ELSE delivery
  /\ UNCHANGED <<endpoint, purges, queue, bounds, history>>

CreateOrStop(w) ==
  LET t == worker[w] IN
  /\ t.pc = "create"
  /\ \E e \in t.todo :
       LET d == <<e, t.event>> IN
       IF delivery[d] = NoRow
         THEN /\ delivery' = [delivery EXCEPT ![d] = NewRow]
              /\ worker' = [worker EXCEPT ![w] =
                              WithRow([t EXCEPT !.todo = @ \ {e}], d, "enqueue", FirstId)]
         ELSE /\ worker' = [worker EXCEPT ![w].todo = {}]
              /\ UNCHANGED delivery
  /\ UNCHANGED <<endpoint, purges, queue, bounds, history>>

(* createDelivery, for the next endpoint of the snapshot, whatever has     *)
(* become of it: the unique index refuses a second row, and the loop goes  *)
(* on.                                                                     *)
CreateDelivery(w) ==
  LET t == worker[w] IN
  /\ t.pc = "create"
  /\ \E e \in t.todo :
       LET d == <<e, t.event>> IN
       IF delivery[d] = NoRow
         THEN /\ delivery' = [delivery EXCEPT ![d] = NewRow]
              /\ worker' = [worker EXCEPT ![w] =
                              WithRow([t EXCEPT !.todo = @ \ {e}], d, "enqueue", FirstId)]
         ELSE /\ worker' = [worker EXCEPT ![w].todo = @ \ {e}]
              /\ UNCHANGED delivery
  /\ UNCHANGED <<endpoint, purges, queue, bounds, history>>

FanoutDone(w) ==
  /\ worker[w].pc = "create" /\ worker[w].todo = {}
  /\ GoTo(w, "finish")
  /\ UNCHANGED <<rows, queue, bounds, history>>

NextId(t) == IF t.kind = "deliver" THEN <<"r", t.read + 1>> ELSE t.id

(* enqueueAttempt: add() is a no-op while a job of that id is in the       *)
(* queue, one about to complete and a failed one included.  A job whose    *)
(* row is gone finds nothing.                                              *)
EnqueueAttempt(w) ==
  LET t == worker[w] id == NextId(t) IN
  /\ t.pc = "enqueue"
  /\ jobs' = IF Current(t) /\ jobs[t.delivery][id] = NoJob
               THEN [jobs EXCEPT ![t.delivery][id] = Waiting] ELSE jobs
  /\ worker' = [worker EXCEPT ![w] =
       CASE t.kind = "fanout" -> [Idle EXCEPT !.pc = "create", !.kind = "fanout",
                                    !.lost = t.lost, !.event = t.event, !.todo = t.todo]
         [] t.kind = "deliver" -> AtEnd(t)
         [] t.kind = "request" -> Idle]
  /\ broken' = IF Current(t) /\ jobs[t.delivery][id].state \in {"active", "failed"}
                 THEN broken \cup {t.delivery} ELSE broken
  /\ UNCHANGED <<rows, fanout, bounds, steady, answers, acked, redone>>

-----------------------------------------------------------------------------
(* attemptDelivery.  Retries wait for their delay, which is not modelled.  *)
TakeDeliver(w, d, id) ==
  /\ worker[w].pc = "idle"
  /\ jobs[d][id].state = "waiting"
  /\ jobs' = [jobs EXCEPT ![d][id].state = "active"]
  /\ worker' = [worker EXCEPT ![w] = WithRow([Idle EXCEPT !.kind = "deliver"], d, "load", id)]
  /\ UNCHANGED <<rows, fanout, bounds, history>>

Load(w) ==
  LET t == worker[w] IN
  /\ t.pc = "load"
  /\ IF RowExists(t) /\ delivery[t.delivery].status = "pending"
       THEN worker' = [worker EXCEPT ![w].pc = "findEndpoint",
                                     ![w].read = delivery[t.delivery].attempts]
       ELSE GoTo(w, "finish")
  /\ UNCHANGED <<rows, queue, bounds, history>>

(* Mutant: an inactive endpoint is skipped. *)
FindEndpointOrSkip(w) ==
  LET t == worker[w] IN
  /\ t.pc = "findEndpoint"
  /\ GoTo(w, IF endpoint[EndpointOf(t.delivery)] \in {"subscribed", "unsubscribed"}
                THEN "send" ELSE "finish")
  /\ UNCHANGED <<rows, queue, bounds, history>>

FindEndpoint(w) ==
  LET t == worker[w] IN
  /\ t.pc = "findEndpoint"
  /\ GoTo(w, IF endpoint[EndpointOf(t.delivery)] \in {"subscribed", "unsubscribed"}
                THEN "send" ELSE "markFailed")
  /\ UNCHANGED <<rows, queue, bounds, history>>

(* send: 2xx; no answer, 408, 409, 425, 429 or 5xx; any other answer.      *)
Send(w) ==
  LET t == worker[w] d == t.delivery IN
  /\ t.pc = "send"
  /\ \E result \in Results :
       /\ worker' = [worker EXCEPT ![w].pc = "record", ![w].result = result]
       /\ answers' = IF d \in redone THEN answers
                                     ELSE [answers EXCEPT ![d] = Append(@, result)]
       /\ acked' = IF result = "ok" THEN acked \cup {d} ELSE acked
  /\ UNCHANGED <<rows, queue, bounds, steady, redone, broken>>

(* retryDelayMs is null. *)
Exhausted(completed) == completed >= MaxDeliveryAttempts

(* Mutant: an answer below 400 counts as success. *)
OutcomeBelow400(result, completed) ==
  CASE result \in {"ok", "rejected"} -> "delivered"
    [] result = "retryable" /\ ~Exhausted(completed) -> "pending"
    [] OTHER -> "failed"

Outcome(result, completed) ==
  CASE result = "ok" -> "delivered"
    [] result = "retryable" /\ ~Exhausted(completed) -> "pending"
    [] OTHER -> "failed"

(* Mutant: only failures are counted. *)
AttemptCountOfFailures(t) == IF t.result = "ok" THEN t.read ELSE t.read + 1

AttemptCount(t) == t.read + 1

(* The update by id.  Rescheduling leaves the status as it is, whoever has *)
(* changed it.                                                             *)
Record(w) ==
  LET t == worker[w]
      count == AttemptCount(t)
      outcome == Outcome(t.result, count) IN
  /\ t.pc = "record"
  /\ RowExists(t)
  /\ delivery' = [delivery EXCEPT ![t.delivery] =
       [status |-> IF outcome = "pending" THEN @.status ELSE outcome, attempts |-> count]]
  /\ worker' = [worker EXCEPT ![w] =
       IF outcome = "pending" THEN [t EXCEPT !.pc = "enqueue", !.result = "none"]
                              ELSE AtEnd(t)]
  /\ UNCHANGED <<endpoint, purges, queue, bounds, history>>

(* markFailed: the attempt an inactive endpoint is spared counts as made. *)
MarkFailed(w) ==
  LET t == worker[w] IN
  /\ t.pc = "markFailed"
  /\ RowExists(t)
  /\ delivery' = [delivery EXCEPT ![t.delivery] =
                    [status |-> "failed", attempts |-> AttemptCount(t)]]
  /\ worker' = [worker EXCEPT ![w] = AtEnd(t)]
  /\ UNCHANGED <<endpoint, purges, queue, bounds, history>>

(* The handler has returned and BullMQ completes the job. *)
Finish(w) ==
  /\ worker[w].pc = "finish"
  /\ Return(w)
  /\ UNCHANGED <<rows, bounds, history>>

-----------------------------------------------------------------------------
(* retryDelivery: the checks, the reset of the row, the first attempt. *)
RetryDelivery(w, d) ==
  /\ requests < MaxRequests
  /\ worker[w].pc = "idle"
  /\ endpoint[EndpointOf(d)] # "removed"
  /\ delivery[d].status \in {"pending", "failed"}
  /\ requests' = requests + 1
  /\ worker' = [worker EXCEPT ![w] =
       WithRow([Idle EXCEPT !.kind = "request"], d, "reset", <<"manual", requests + 1>>)]
  /\ UNCHANGED <<rows, queue, failures, history>>

(* Mutant: the count goes on where it was. *)
ResetStatusOnly(w) ==
  LET t == worker[w] IN
  /\ t.pc = "reset"
  /\ RowExists(t)
  /\ delivery' = [delivery EXCEPT ![t.delivery].status = "pending"]
  /\ GoTo(w, "enqueue")
  /\ redone' = redone \cup {t.delivery}
  /\ UNCHANGED <<endpoint, purges, queue, bounds, steady, answers, acked, broken>>

Reset(w) ==
  LET t == worker[w] IN
  /\ t.pc = "reset"
  /\ RowExists(t)
  /\ delivery' = [delivery EXCEPT ![t.delivery] = NewRow]
  /\ GoTo(w, "enqueue")
  /\ redone' = redone \cup {t.delivery}
  /\ UNCHANGED <<endpoint, purges, queue, bounds, steady, answers, acked, broken>>

(* Prisma's update of a row that is gone throws. *)
RowGone(w) ==
  /\ worker[w].pc \in {"record", "markFailed", "reset"}
  /\ ~RowExists(worker[w])
  /\ Throw(w)
  /\ UNCHANGED <<rows, bounds, steady, answers, acked, redone>>

(* WebhookEndpointService.update: active and events. *)
UpdateEndpoint(e, setting) ==
  /\ requests < MaxRequests
  /\ endpoint[e] \notin {"removed", setting}
  /\ requests' = requests + 1
  /\ endpoint' = [endpoint EXCEPT ![e] = setting]
  /\ steady' = steady \ {e}
  /\ UNCHANGED <<purges, delivery, queue, failures, worker, answers, acked, redone, broken>>

(* remove: the deliveries of the endpoint, then the endpoint. *)
RemoveEndpoint(w, e) ==
  /\ requests < MaxRequests
  /\ worker[w].pc = "idle"
  /\ endpoint[e] # "removed"
  /\ requests' = requests + 1
  /\ worker' = [worker EXCEPT ![w] = [Idle EXCEPT !.pc = "deleteRows", !.kind = "request",
                                                  !.todo = {e}]]
  /\ UNCHANGED <<rows, queue, failures, history>>

DeliveriesOf(e) == {e} \X Events

(* Jobs of a deleted row find nothing and are dropped. *)
DeleteRows(w, e) ==
  /\ worker[w].pc = "deleteRows" /\ e \in worker[w].todo
  /\ purges' = [purges EXCEPT ![e] = @ + 1]
  /\ delivery' = [d \in Deliveries |-> IF EndpointOf(d) = e THEN NoRow ELSE delivery[d]]
  /\ jobs' = [d \in Deliveries |->
                IF EndpointOf(d) = e THEN [id \in JobIds |-> NoJob] ELSE jobs[d]]
  /\ GoTo(w, "deleteEndpoint")
  /\ steady' = steady \ {e}
  /\ redone' = redone \cup DeliveriesOf(e)
  /\ UNCHANGED <<endpoint, fanout, bounds, answers, acked, broken>>

(* The relation to the deliveries is required: Prisma refuses to delete an *)
(* endpoint that has got one since (onDelete: Restrict).                   *)
DeleteEndpoint(w, e) ==
  /\ worker[w].pc = "deleteEndpoint" /\ e \in worker[w].todo
  /\ endpoint' = IF \E d \in DeliveriesOf(e) : delivery[d] # NoRow
                   THEN endpoint ELSE [endpoint EXCEPT ![e] = "removed"]
  /\ worker' = [worker EXCEPT ![w] = Idle]
  /\ UNCHANGED <<purges, delivery, queue, bounds, history>>

-----------------------------------------------------------------------------
(* An awaited database or queue call rejects.  (A failed send is a result.) *)
Reject(w) ==
  /\ Fails
  /\ worker[w].pc \notin {"idle", "send", "finish"}
  /\ Throw(w)
  /\ UNCHANGED <<rows, requests, steady, answers, acked, redone>>

Redone(t) == IF t.kind = "deliver" /\ Holds(t) THEN redone \cup {t.delivery} ELSE redone

(* The job of a delivery has been taken from its task for the second time. *)
SecondStall(t) == t.kind = "deliver" /\ Holds(t) /\ jobs[t.delivery][t.id].stalled

(* The pod dies and comes back without the task. *)
Die(w) ==
  LET t == worker[w] IN
  /\ Fails
  /\ t.pc # "idle"
  /\ worker' = [worker EXCEPT ![w] = Idle]
  /\ Settle(t, Redelivered, Redelivered)
  /\ redone' = Redone(t)
  /\ broken' = IF SecondStall(t) \/ NotEnqueued(t)
                 THEN broken \cup {t.delivery} ELSE broken
  /\ UNCHANGED <<rows, requests, steady, answers, acked>>

(* A pod too busy, or cut off from Redis, to renew the lock of its job. *)
Stall(w) ==
  LET t == worker[w] IN
  /\ Fails
  /\ t.kind \in {"fanout", "deliver"} /\ Holds(t)
  /\ worker' = [worker EXCEPT ![w].lost = TRUE]
  /\ Settle(t, Redelivered, Redelivered)
  /\ redone' = Redone(t)
  /\ broken' = IF SecondStall(t) THEN broken \cup {t.delivery} ELSE broken
  /\ UNCHANGED <<rows, requests, steady, answers, acked>>

-----------------------------------------------------------------------------
Continue(w) ==
  \/ FindEndpoints(w) \/ CreateDelivery(w) \/ FanoutDone(w) \/ EnqueueAttempt(w)
  \/ Load(w) \/ FindEndpoint(w) \/ Send(w) \/ Record(w) \/ MarkFailed(w) \/ Finish(w)
  \/ Reset(w) \/ RowGone(w)
  \/ \E e \in Endpoints : DeleteRows(w, e) \/ DeleteEndpoint(w, e)

TakeJob(w) ==
  \/ \E v \in Events : TakeFanout(w, v)
  \/ \E d \in Deliveries, id \in JobIds : TakeDeliver(w, d, id)

Next ==
  \/ \E v \in Events : DispatchEvent(v)
  \/ \E w \in Workers :
       \/ TakeJob(w) \/ Continue(w) \/ Reject(w) \/ Die(w) \/ Stall(w)
       \/ \E d \in Deliveries : RetryDelivery(w, d)
       \/ \E e \in Endpoints : RemoveEndpoint(w, e)
  \/ \E e \in Endpoints, setting \in {"subscribed", "unsubscribed", "inactive"} :
       UpdateEndpoint(e, setting)

Spec == Init /\ [][Next]_vars

(* A running handler goes on, and the queue gives a waiting job to a task   *)
(* that is free.                                                           *)
FairSpec ==
  /\ Spec
  /\ \A w \in Workers : WF_vars(Continue(w))
  /\ WF_vars(\E w \in Workers : TakeJob(w))

-----------------------------------------------------------------------------
(* The retry schedule ends: a delivery that is pending has attempts left,  *)
(* and the count the merchant sees never passes the limit (retryDelayMs),  *)
(* whatever manual retries, redelivered jobs and removals run beside it.   *)
ScheduleEnds ==
  \A d \in Deliveries :
    /\ delivery[d].attempts <= MaxDeliveryAttempts
    /\ delivery[d].status = "pending" => delivery[d].attempts < MaxDeliveryAttempts

(* "delivered" is never written without a 2xx answer of that endpoint to   *)
(* that event (the update in attemptDelivery).                             *)
DeliveredWasAcked == \A d \in Deliveries : delivery[d].status = "delivered" => d \in acked

(* "a replayed fan-out job never double-delivers": of a delivery nobody    *)
(* has retried by hand and whose attempts no pod lost, nothing is sent     *)
(* after a 2xx or a final refusal, nor more often than the schedule says,  *)
(* however often the fan-out is replayed, in parallel too.                 *)
NeverDoubleDelivers ==
  \A d \in Deliveries \ redone :
    /\ Len(answers[d]) <= MaxDeliveryAttempts
    /\ \A i \in 1 .. Len(answers[d]) - 1 : answers[d][i] = "retryable"

BeingRecorded(d) == \E w \in Workers : worker[w].pc = "record" /\ worker[w].delivery = d

(* "the merchant-visible attempt count stays authoritative": it is the     *)
(* number of sends, but for the one an inactive endpoint was spared.       *)
CountIsAuthoritative ==
  \A d \in Deliveries \ (redone \cup broken) :
    BeingRecorded(d) \/ delivery[d] = NoRow
      \/ delivery[d].attempts = Len(answers[d])
      \/ delivery[d] = [status |-> "failed", attempts |-> Len(answers[d]) + 1]

(* A fan-out that has completed, however often it failed or was replayed,  *)
(* has a delivery for every endpoint that was subscribed all the time.     *)
FanoutIsComplete ==
  \A e \in steady, v \in Events :
    fanout[v].state = "done" => delivery[<<e, v>>] # NoRow

(* Every pending delivery comes to an end, retried by hand, redelivered or *)
(* of an endpoint that was disabled, unless a failure or an id that was    *)
(* still in use has left it without a job.                                 *)
DeliverySettles ==
  \A d \in Deliveries :
    delivery[d].status = "pending" ~> delivery[d].status # "pending" \/ d \in broken
=============================================================================
