------------------------ MODULE WebhookDeliveryProofs ------------------------
(***************************************************************************)
(* For any endpoints, events, tasks and limits, with failing calls, dying  *)
(* pods, lost locks, manual retries and removals: schedules end, what is   *)
(* marked delivered was acknowledged, nothing is sent twice or counted     *)
(* wrongly, and a completed fan-out is complete.                           *)
(***************************************************************************)
EXTENDS WebhookDelivery, TLAPS

(* A row of the deliveries. *)
RowOK(d) ==
  /\ delivery[d].attempts <= MaxDeliveryAttempts
  /\ delivery[d].status = "pending" => delivery[d].attempts < MaxDeliveryAttempts
  /\ delivery[d].status = "delivered" => d \in acked

(* What a task has done and read. *)
AttemptPCs == {"load", "findEndpoint", "send", "record", "markFailed"}

PlaceOK(t) ==
  /\ t.pc = "idle" <=> t.kind = "none"
  /\ t.kind = "fanout" => t.pc \in {"findEndpoints", "create", "enqueue", "finish"} /\ t.event \in Events
  /\ t.kind = "deliver" => /\ t.pc \in AttemptPCs \cup {"enqueue", "finish"}
                           /\ t.delivery \in Deliveries /\ t.id \in JobIds
  /\ t.kind = "request" => t.pc \in {"reset", "enqueue", "deleteRows", "deleteEndpoint"}
  /\ t.pc \in {"enqueue", "reset"} => t.delivery \in Deliveries /\ t.id \in JobIds
  /\ t.pc \in AttemptPCs \ {"load"} => t.read < MaxDeliveryAttempts
  /\ t.kind = "deliver" /\ t.pc = "enqueue" => t.read + 1 < MaxDeliveryAttempts
  /\ t.pc = "record" => t.result \in Results
  /\ t.pc = "deleteRows" => \E e \in Endpoints : t.todo = {e}

RowReadOK(t) ==
  t.delivery \in Deliveries \ redone =>
    /\ t.epoch = 0 /\ delivery[t.delivery] # NoRow
    /\ t.kind = "deliver" => ~t.lost
    /\ t.kind = "request" => t.pc # "enqueue"

FanoutTaskOK(t) ==
  t.kind = "fanout" /\ t.pc # "findEndpoints" =>
    /\ \A e \in steady : e \in t.todo \/ delivery[<<e, t.event>>] # NoRow
    /\ t.pc = "finish" => t.todo = {}

TaskOK(w) ==
  LET t == worker[w] IN
  /\ PlaceOK(t) /\ RowReadOK(t) /\ FanoutTaskOK(t)
  /\ t.pc = "record" /\ t.result = "ok" => t.delivery \in acked
  /\ t.pc = "deleteEndpoint" => t.todo \cap steady = {}

FanoutOK(v) == fanout[v].state = "done" => \A e \in steady : delivery[<<e, v>>] # NoRow

(* A delivery that nobody redid goes through its attempts one by one: the next *)
(* one is in one pair of hands, a task that carries it or a job that waits.     *)
Carries(w, d) ==
  /\ worker[w].delivery = d
  /\ worker[w].pc \in AttemptPCs \cup {"enqueue"} /\ worker[w].kind # "request"

Queued(d, id) == jobs[d][id].state = "waiting"

(* All answers asked for another attempt, and the row counts them. *)
Going(d) == /\ delivery[d] # NoRow /\ delivery[d].attempts = Len(answers[d])
            /\ \A i \in 1..Len(answers[d]) : answers[d][i] = "retryable"

CarrierOK(t, d) ==
  /\ t.pc # "record" => Going(d)
  /\ t.pc \in AttemptPCs \ {"load"} => t.read = delivery[d].attempts
  /\ t.pc = "record" => /\ delivery[d] # NoRow /\ Len(answers[d]) = t.read + 1
                        /\ answers[d][t.read + 1] = t.result

HistoryOK(d) ==
  /\ purges[EndpointOf(d)] = 0
  /\ delivery[d] = NoRow => answers[d] = <<>>
  /\ Len(answers[d]) <= MaxDeliveryAttempts
  /\ \A i \in 1..Len(answers[d]) - 1 : answers[d][i] = "retryable"

CountOK(d) ==
  d \notin broken =>
    BeingRecorded(d) \/ delivery[d] = NoRow
      \/ delivery[d].attempts = Len(answers[d])
      \/ delivery[d] = [status |-> "failed", attempts |-> Len(answers[d]) + 1]

ChainOK(d) ==
  d \notin redone =>
    /\ HistoryOK(d) /\ CountOK(d)
    /\ \A w \in Workers : Carries(w, d) => CarrierOK(worker[w], d)
    /\ \A id \in JobIds : Queued(d, id) => Going(d)
    /\ \A v, w \in Workers : Carries(v, d) /\ Carries(w, d) => v = w
    /\ \A w \in Workers, id \in JobIds : ~(Carries(w, d) /\ Queued(d, id))
    /\ \A i, j \in JobIds : Queued(d, i) /\ Queued(d, j) => i = j

IInv ==
  /\ TypeOK
  /\ \A d \in Deliveries : RowOK(d) /\ ChainOK(d)
  /\ \A e \in steady : endpoint[e] = "subscribed"
  /\ \A v \in Events : FanoutOK(v)
  /\ \A w \in Workers : TaskOK(w)

-----------------------------------------------------------------------------
(* Facts of the types *)

LEMMA Pairs ==
  /\ \A e \in Endpoints, v \in Events : <<e, v>> \in Deliveries /\ EndpointOf(<<e, v>>) = e
  /\ \A d \in Deliveries : EndpointOf(d) \in Endpoints /\ d # None
  BY NoneAssumption DEF Deliveries, EndpointOf

LEMMA Ids ==
  /\ FirstId \in JobIds
  /\ \A n \in Nat : n + 1 <= MaxDeliveryAttempts => <<"r", n + 1>> \in JobIds
  /\ \A k \in Nat : k + 1 <= MaxRequests => <<"manual", k + 1>> \in JobIds
  BY BoundsAssumption DEF FirstId, JobIds

LEMMA Limits ==
  /\ MaxDeliveryAttempts \in Nat /\ MaxDeliveryAttempts > 0
  /\ MaxRequests \in Nat /\ MaxFailures \in Nat
  BY BoundsAssumption

LEMMA JobTypes ==
  /\ NoJob \in Jobs /\ NoJob.state = "none" /\ Waiting \in Jobs /\ Waiting.state = "waiting"
  /\ Failed(NoJob) \in Jobs /\ Failed(NoJob).state = "failed"
  /\ \A j \in Jobs :
       /\ [j EXCEPT !.state = "active"] \in Jobs /\ [j EXCEPT !.state = "active"].state = "active"
       /\ Completed(j) \in Jobs /\ Removed(j) = NoJob
       /\ Failed(j) \in Jobs /\ Failed(j).state = "failed"
       /\ Retried(j) \in Jobs /\ Retried(j).state \in {"waiting", "failed"}
       /\ Redelivered(j) \in Jobs /\ Redelivered(j).state \in {"waiting", "failed"}
<1>1. \A x \in {"none", "waiting", "active", "failed", "done"}, n \in Nat, b \in BOOLEAN :
        [state |-> x, attempts |-> n, stalled |-> b] \in Jobs
  BY DEF Jobs
<1>2. /\ NoJob \in Jobs /\ NoJob.state = "none" /\ Waiting \in Jobs /\ Waiting.state = "waiting"
      /\ Failed(NoJob) \in Jobs /\ Failed(NoJob).state = "failed"
  BY DEF NoJob, Waiting, Jobs, Failed
<1>3. ASSUME NEW j \in Jobs
      PROVE  /\ [j EXCEPT !.state = "active"] \in Jobs /\ [j EXCEPT !.state = "active"].state = "active"
             /\ Completed(j) \in Jobs /\ Removed(j) = NoJob
             /\ Failed(j) \in Jobs /\ Failed(j).state = "failed"
  BY DEF Jobs, Completed, Removed, Failed
<1>4. ASSUME NEW j \in Jobs PROVE j.attempts \in Nat /\ j.attempts + 1 \in Nat /\ j.stalled \in BOOLEAN
  BY DEF Jobs
<1>5. ASSUME NEW j \in Jobs
      PROVE  /\ Retried(j) \in Jobs /\ Retried(j).state \in {"waiting", "failed"}
             /\ Redelivered(j) \in Jobs /\ Redelivered(j).state \in {"waiting", "failed"}
  BY <1>1, <1>4 DEF Retried, Redelivered
<1> QED BY <1>2, <1>3, <1>5

LEMMA IdleType == /\ Idle \in Tasks /\ Idle.pc = "idle" /\ Idle.kind = "none" /\ Idle.delivery = None
                  /\ Idle.todo = {} /\ Idle.lost = FALSE /\ Idle.epoch = 0
  BY DEF Idle, Tasks

LEMMA State ==
  ASSUME IInv
  PROVE  /\ worker \in [Workers -> Tasks] /\ fanout \in [Events -> Jobs]
         /\ jobs \in [Deliveries -> [JobIds -> Jobs]] /\ purges \in [Endpoints -> Nat]
         /\ delivery \in [Deliveries -> [status : Statuses \cup {"none"}, attempts : Nat]]
         /\ answers \in [Deliveries -> Seq(Results)] /\ requests \in Nat /\ failures \in Nat
         /\ \A d \in Deliveries : RowOK(d) /\ ChainOK(d)
         /\ \A w \in Workers : TaskOK(w) /\ worker[w] \in Tasks
  BY BoundsAssumption DEF IInv, TypeOK

(* No other task moves. *)
Others(w) == /\ worker' \in [Workers -> Tasks]
             /\ \A v \in Workers : v # w => worker'[v] = worker[v]

LEMMA MoveType ==
  ASSUME IInv, NEW w \in Workers, NEW t \in Tasks, worker' = [worker EXCEPT ![w] = t]
  PROVE  Others(w) /\ worker'[w] = t
  BY DEF Others, IInv, TypeOK

(* Kept whole for the provers. *)
SetJob(d, id, j) == jobs' = [jobs EXCEPT ![d][id] = j]

LEMMA JobChange ==
  ASSUME IInv, NEW d \in Deliveries, NEW id \in JobIds, NEW j \in Jobs, SetJob(d, id, j)
  PROVE  /\ jobs' \in [Deliveries -> [JobIds -> Jobs]] /\ jobs'[d][id] = j
         /\ \A c \in Deliveries, i \in JobIds : c # d \/ i # id => jobs'[c][i] = jobs[c][i]
  BY DEF IInv, TypeOK, SetJob

LEMMA FanoutChange ==
  ASSUME IInv, NEW v \in Events, NEW j \in Jobs, fanout' = [fanout EXCEPT ![v] = j]
  PROVE  /\ fanout' \in [Events -> Jobs] /\ fanout'[v] = j
         /\ \A u \in Events : u # v => fanout'[u] = fanout[u]
  BY DEF IInv, TypeOK

-----------------------------------------------------------------------------
(* What no step undoes keeps the tasks that do not move. *)
Kept ==
  /\ acked \subseteq acked' /\ redone \subseteq redone' /\ steady' \subseteq steady
  /\ \A d \in Deliveries :
       delivery[d] # NoRow /\ delivery'[d] = NoRow => d \in redone' /\ EndpointOf(d) \notin steady'

LEMMA TaskKept ==
  ASSUME IInv, Kept, NEW w \in Workers, worker'[w] = worker[w]
  PROVE  TaskOK(w)'
<1> DEFINE t == worker[w]
<1>1. t \in Tasks /\ TaskOK(w)
  BY State
<1>2. PlaceOK(worker[w])'
  BY <1>1 DEF TaskOK, PlaceOK
<1>3. RowReadOK(worker[w])'
  BY <1>1 DEF TaskOK, RowReadOK, Kept
<1>4. FanoutTaskOK(worker[w])'
  <2> SUFFICES ASSUME t.kind = "fanout", t.pc # "findEndpoints"
               PROVE  /\ \A e \in steady' : e \in t.todo \/ delivery'[<<e, t.event>>] # NoRow
                      /\ t.pc = "finish" => t.todo = {}
    BY DEF FanoutTaskOK
  <2>1. /\ t.event \in Events /\ (t.pc = "finish" => t.todo = {})
        /\ \A e \in steady : e \in t.todo \/ delivery[<<e, t.event>>] # NoRow
    BY <1>1 DEF TaskOK, PlaceOK, FanoutTaskOK
  <2>2. ASSUME NEW e \in steady', e \notin t.todo PROVE delivery'[<<e, t.event>>] # NoRow
    <3>1. e \in steady /\ e \in Endpoints
      BY DEF Kept, IInv, TypeOK
    <3>2. <<e, t.event>> \in Deliveries /\ EndpointOf(<<e, t.event>>) = e
      BY <2>1, <3>1, Pairs
    <3> QED BY <2>1, <2>2, <3>1, <3>2 DEF Kept
  <2> QED BY <2>1, <2>2
<1>5. /\ t.pc = "record" /\ t.result = "ok" => t.delivery \in acked'
      /\ t.pc = "deleteEndpoint" => t.todo \cap steady' = {}
  BY <1>1 DEF TaskOK, Kept
<1> QED BY <1>2, <1>3, <1>4, <1>5 DEF TaskOK

LEMMA PodStep ==
  ASSUME IInv, NEW w \in Workers, Others(w), Kept, TypeOK', TaskOK(w)',
         \A d \in Deliveries : RowOK(d)' /\ ChainOK(d)',
         \A e \in steady' : endpoint'[e] = "subscribed",
         \A v \in Events : FanoutOK(v)'
  PROVE  IInv'
<1>1. ASSUME NEW v \in Workers PROVE TaskOK(v)'
  BY TaskKept DEF Others
<1> QED BY <1>1 DEF IInv

(* What a step of w may do to the chain of a delivery. *)
Tokens(w, d) ==
  /\ Carries(w, d)' => CarrierOK(worker[w], d)' /\ \A id \in JobIds : ~Queued(d, id)'
  /\ \A id \in JobIds : Queued(d, id)' => Going(d)'
  /\ \A i, j \in JobIds : Queued(d, i)' /\ Queued(d, j)' => i = j
  /\ Carries(w, d)' => Carries(w, d) \/ delivery[d] = NoRow \/ \E id \in JobIds : Queued(d, id)
  /\ \A id \in JobIds : Queued(d, id)' => Carries(w, d) \/ Queued(d, id)

LEMMA ChainStep ==
  ASSUME IInv, NEW w \in Workers, Others(w), NEW d \in Deliveries, redone \subseteq redone',
         d \notin redone' => /\ HistoryOK(d)' /\ CountOK(d)' /\ Tokens(w, d)
                             /\ \/ Carries(w, d) \/ delivery[d] = NoRow
                                \/ answers'[d] = answers[d] /\ delivery'[d] = delivery[d]
  PROVE  ChainOK(d)'
<1> SUFFICES ASSUME d \notin redone'
             PROVE  /\ \A v \in Workers : Carries(v, d)' => CarrierOK(worker[v], d)'
                    /\ \A id \in JobIds : Queued(d, id)' => Going(d)'
                    /\ \A u, v \in Workers : Carries(u, d)' /\ Carries(v, d)' => u = v
                    /\ \A v \in Workers, id \in JobIds : ~(Carries(v, d)' /\ Queued(d, id)')
                    /\ \A i, j \in JobIds : Queued(d, i)' /\ Queued(d, j)' => i = j
  BY DEF ChainOK
<1>1. /\ \A v \in Workers : Carries(v, d) => CarrierOK(worker[v], d)
      /\ \A u, v \in Workers : Carries(u, d) /\ Carries(v, d) => u = v
      /\ \A v \in Workers, id \in JobIds : ~(Carries(v, d) /\ Queued(d, id))
  BY State DEF ChainOK
<1>2. \A v \in Workers : Carries(v, d) => delivery[d] # NoRow
  BY <1>1 DEF CarrierOK, Going
<1>3. ASSUME NEW v \in Workers, v # w, Carries(v, d)'
      PROVE  /\ CarrierOK(worker[v], d)' /\ ~Carries(w, d)'
             /\ \A id \in JobIds : ~Queued(d, id)'
  <2>1. worker'[v] = worker[v] /\ Carries(v, d)
    BY <1>3 DEF Others, Carries
  <2>2. ~Carries(w, d) /\ delivery[d] # NoRow /\ \A id \in JobIds : ~Queued(d, id)
    BY <1>1, <1>2, <1>3, <2>1
  <2>3. ~Carries(w, d)' /\ \A id \in JobIds : ~Queued(d, id)'
    BY <2>2 DEF Tokens
  <2>4. answers'[d] = answers[d] /\ delivery'[d] = delivery[d] /\ CarrierOK(worker[v], d)
    BY <1>1, <2>1, <2>2
  <2>5. CarrierOK(worker[v], d)'
    BY <2>1, <2>4 DEF CarrierOK, Going
  <2> QED BY <2>3, <2>5
<1>4. ASSUME NEW v \in Workers, Carries(v, d)'
      PROVE  CarrierOK(worker[v], d)' /\ \A id \in JobIds : ~Queued(d, id)'
  <2>1. CASE v = w
    BY <1>4, <2>1 DEF Tokens
  <2>2. CASE v # w
    BY <1>3, <1>4, <2>2
  <2> QED BY <2>1, <2>2
<1>5. ASSUME NEW u \in Workers, NEW v \in Workers, Carries(u, d)', Carries(v, d)', u # v
      PROVE  FALSE
  <2>1. CASE v = w
    BY <1>3, <1>5, <2>1
  <2>2. CASE v # w
    <3>1. Carries(v, d) /\ ~Carries(w, d)'
      BY <1>3, <1>5, <2>2 DEF Others, Carries
    <3>2. u # w /\ Carries(u, d)
      BY <1>5, <3>1 DEF Others, Carries
    <3> QED BY <1>1, <1>5, <3>1, <3>2
  <2> QED BY <2>1, <2>2
<1> QED BY <1>4, <1>5 DEF Tokens

-----------------------------------------------------------------------------
(* Steps that leave the rows and the answers alone *)

ChoresOK ==
  /\ requests' \in 0..MaxRequests /\ failures' \in 0..MaxFailures
  /\ fanout' \in [Events -> Jobs] /\ jobs' \in [Deliveries -> [JobIds -> Jobs]]
  /\ redone \subseteq redone' /\ redone' \subseteq Deliveries
  /\ broken \subseteq broken' /\ broken' \subseteq Deliveries

LEMMA QuietStep ==
  ASSUME IInv, NEW w \in Workers, Others(w), UNCHANGED <<rows, steady, answers, acked>>, ChoresOK,
         TaskOK(w)', \A v \in Events : FanoutOK(v)',
         \A d \in Deliveries \ redone' :
           Tokens(w, d) /\ (worker[w].pc = "record" /\ worker[w].delivery = d => d \in broken')
  PROVE  IInv'
<1>1. TypeOK'
  BY DEF IInv, TypeOK, ChoresOK, Others, rows
<1>2. Kept
  BY DEF Kept, ChoresOK, rows
<1>3. \A d \in Deliveries : RowOK(d)'
  BY State DEF RowOK, rows
<1>4. \A e \in steady' : endpoint'[e] = "subscribed"
  BY DEF IInv, rows
<1>5. ASSUME NEW d \in Deliveries PROVE ChainOK(d)'
  <2>1. d \notin redone' => HistoryOK(d) /\ CountOK(d)
    BY State DEF ChainOK, ChoresOK
  <2>2. d \notin redone' => HistoryOK(d)'
    BY <2>1 DEF HistoryOK, rows
  <2>3. ASSUME d \notin redone', d \notin broken', BeingRecorded(d) PROVE BeingRecorded(d)'
    <3>1. PICK v \in Workers : worker[v].pc = "record" /\ worker[v].delivery = d
      BY <2>3 DEF BeingRecorded
    <3>2. v # w
      BY <2>3, <3>1
    <3> QED BY <3>1, <3>2 DEF BeingRecorded, Others
  <2>4. d \notin redone' => CountOK(d)'
    <3> SUFFICES ASSUME d \notin redone', d \notin broken'
                 PROVE  BeingRecorded(d)' \/ delivery'[d] = NoRow
                          \/ delivery'[d].attempts = Len(answers'[d])
                          \/ delivery'[d] = [status |-> "failed", attempts |-> Len(answers'[d]) + 1]
      BY DEF CountOK
    <3>1. CountOK(d) /\ d \notin broken
      BY <2>1 DEF ChoresOK
    <3> QED BY <2>3, <3>1 DEF CountOK, rows
  <2> QED BY <2>2, <2>4, ChainStep DEF ChoresOK, rows
<1> QED BY <1>1, <1>2, <1>3, <1>4, <1>5, PodStep

FanoutKept == \A v \in Events : fanout'[v].state = "done" => fanout[v].state = "done"

LEMMA FanoutKeptOK ==
  ASSUME IInv, FanoutKept, UNCHANGED <<rows, steady>>
  PROVE  \A v \in Events : FanoutOK(v)'
  BY DEF IInv, FanoutKept, FanoutOK, rows

(* Task w lets go of what it had, and no job is added. *)
LEMMA LeaveStep ==
  ASSUME IInv, NEW w \in Workers, Others(w), UNCHANGED <<rows, steady, answers, acked>>, ChoresOK,
         TaskOK(w)', \A v \in Events : FanoutOK(v)',
         \A d \in Deliveries, id \in JobIds : d \notin redone' /\ Queued(d, id)' => Queued(d, id),
         \A d \in Deliveries : ~Carries(w, d)',
         worker[w].pc = "record" => worker[w].delivery \in redone' \cup broken'
  PROVE  IInv'
<1>1. ASSUME NEW d \in Deliveries \ redone' PROVE Tokens(w, d)
  <2>1. ChainOK(d) /\ d \notin redone
    BY State DEF ChoresOK
  <2>2. \A id \in JobIds : Queued(d, id) => Going(d)'
    BY <2>1 DEF ChainOK, Going, rows
  <2> QED BY <1>1, <2>1, <2>2 DEF Tokens, ChainOK
<1> QED BY <1>1, QuietStep

LEMMA IdleTask ==
  ASSUME NEW w \in Workers, worker'[w] = Idle
  PROVE  TaskOK(w)' /\ \A d \in Deliveries : ~Carries(w, d)'
<1>1. PlaceOK(Idle)
  BY IdleType DEF PlaceOK, AttemptPCs
<1>2. RowReadOK(worker[w])' /\ FanoutTaskOK(worker[w])'
  BY IdleType, Pairs DEF RowReadOK, FanoutTaskOK
<1>3. PlaceOK(worker[w])'
  BY <1>1 DEF PlaceOK
<1>4. TaskOK(w)'
  BY <1>2, <1>3, IdleType DEF TaskOK
<1> QED BY <1>4, IdleType DEF Carries, AttemptPCs

(* What is known of a task. *)
LEMMA Task ==
  ASSUME IInv, NEW w \in Workers
  PROVE  /\ worker[w] \in Tasks /\ TaskOK(w) /\ PlaceOK(worker[w]) /\ RowReadOK(worker[w])
         /\ worker[w].kind \in {"none", "fanout", "deliver", "request"}
         /\ worker[w].pc \in AttemptPCs => worker[w].kind = "deliver"
         /\ worker[w].pc = "finish" => worker[w].kind \in {"fanout", "deliver"}
         /\ worker[w].pc = "enqueue" => worker[w].delivery \in Deliveries
<1>1. worker[w] \in Tasks /\ TaskOK(w)
  BY State
<1>2. PlaceOK(worker[w]) /\ RowReadOK(worker[w])
  BY <1>1 DEF TaskOK
<1>3. worker[w].kind \in {"none", "fanout", "deliver", "request"}
  BY <1>1 DEF Tasks
<1> QED BY <1>1, <1>2, <1>3 DEF PlaceOK, AttemptPCs

LEMMA HoldsOK ==
  ASSUME IInv, NEW w \in Workers, worker[w].kind = "deliver"
  PROVE  /\ worker[w].delivery \in Deliveries /\ worker[w].id \in JobIds
         /\ worker[w].delivery \notin redone => Holds(worker[w]) /\ Current(worker[w])
<1>1. PlaceOK(worker[w]) /\ RowReadOK(worker[w])
  BY Task
<1>2. worker[w].delivery \in Deliveries /\ worker[w].id \in JobIds
  BY <1>1 DEF PlaceOK
<1>3. ASSUME worker[w].delivery \notin redone PROVE Holds(worker[w]) /\ Current(worker[w])
  <2>1. HistoryOK(worker[w].delivery)
    BY <1>2, <1>3, State DEF ChainOK
  <2>2. worker[w].epoch = 0 /\ ~worker[w].lost
    BY <1>1, <1>2, <1>3 DEF RowReadOK
  <2> QED BY <2>1, <2>2 DEF Holds, Current, HistoryOK
<1> QED BY <1>2, <1>3

(* What Settle does to the queue. *)
QueueKept == /\ fanout' \in [Events -> Jobs] /\ jobs' \in [Deliveries -> [JobIds -> Jobs]]
             /\ FanoutKept
             /\ \A d \in Deliveries, id \in JobIds :
                  d \notin redone' /\ Queued(d, id)' => Queued(d, id)

LEMMA OneJob ==
  ASSUME IInv, NEW w \in Workers,
         \/ fanout' = fanout
         \/ /\ worker[w].kind = "fanout"
            /\ \E j \in Jobs : j.state # "done" /\ fanout' = [fanout EXCEPT ![worker[w].event] = j],
         \/ jobs' = jobs
         \/ /\ worker[w].kind = "deliver"
            /\ \E j \in Jobs : /\ j.state # "waiting" \/ worker[w].delivery \in redone'
                               /\ jobs' = [jobs EXCEPT ![worker[w].delivery][worker[w].id] = j]
  PROVE  QueueKept
<1>1. fanout' \in [Events -> Jobs] /\ FanoutKept
  <2>1. CASE fanout' = fanout
    BY <2>1, State DEF FanoutKept
  <2>2. CASE fanout' # fanout
    <3>1. worker[w].event \in Events
      BY <2>2, Task DEF PlaceOK
    <3> QED BY <2>2, <3>1, FanoutChange DEF FanoutKept
  <2> QED BY <2>1, <2>2
<1>2. /\ jobs' \in [Deliveries -> [JobIds -> Jobs]]
      /\ \A d \in Deliveries, id \in JobIds : d \notin redone' /\ Queued(d, id)' => Queued(d, id)
  <2>1. CASE jobs' = jobs
    BY <2>1, State DEF Queued
  <2>2. CASE jobs' # jobs
    <3>1. worker[w].delivery \in Deliveries /\ worker[w].id \in JobIds
      BY <2>2, HoldsOK
    <3>2. PICK j \in Jobs :
            /\ j.state # "waiting" \/ worker[w].delivery \in redone'
            /\ SetJob(worker[w].delivery, worker[w].id, j)
      BY <2>2 DEF SetJob
    <3>3. /\ jobs' \in [Deliveries -> [JobIds -> Jobs]] /\ jobs'[worker[w].delivery][worker[w].id] = j
          /\ \A c \in Deliveries, i \in JobIds :
               c # worker[w].delivery \/ i # worker[w].id => jobs'[c][i] = jobs[c][i]
      BY <3>1, <3>2, JobChange
    <3> QED BY <3>2, <3>3 DEF Queued
  <2> QED BY <2>1, <2>2
<1> QED BY <1>1, <1>2 DEF QueueKept

LEMMA JobsOf ==
  ASSUME IInv, NEW w \in Workers
  PROVE  /\ worker[w].kind = "fanout" => worker[w].event \in Events /\ fanout[worker[w].event] \in Jobs
         /\ worker[w].kind = "deliver" => jobs[worker[w].delivery][worker[w].id] \in Jobs
  BY Task, HoldsOK, State DEF PlaceOK

LEMMA ThrowQueue ==
  ASSUME IInv, NEW w \in Workers, Settle(worker[w], Retried, Failed)
  PROVE  QueueKept
<1>1. \/ fanout' = fanout
      \/ /\ worker[w].kind = "fanout"
         /\ fanout' = [fanout EXCEPT ![worker[w].event] = Retried(fanout[worker[w].event])]
  BY DEF Settle
<1>2. \/ jobs' = jobs
      \/ /\ worker[w].kind = "deliver"
         /\ jobs' = [jobs EXCEPT ![worker[w].delivery][worker[w].id] =
                                   Failed(jobs[worker[w].delivery][worker[w].id])]
  BY DEF Settle
<1>3. \/ fanout' = fanout
      \/ /\ worker[w].kind = "fanout"
         /\ \E j \in Jobs : j.state # "done" /\ fanout' = [fanout EXCEPT ![worker[w].event] = j]
  BY <1>1, JobsOf, JobTypes
<1>4. \/ jobs' = jobs
      \/ /\ worker[w].kind = "deliver"
         /\ \E j \in Jobs : /\ j.state # "waiting" \/ worker[w].delivery \in redone'
                            /\ jobs' = [jobs EXCEPT ![worker[w].delivery][worker[w].id] = j]
  BY <1>2, JobsOf, JobTypes
<1> QED BY <1>3, <1>4, OneJob

LEMMA RedeliveredQueue ==
  ASSUME IInv, NEW w \in Workers, Settle(worker[w], Redelivered, Redelivered),
         redone' = Redone(worker[w])
  PROVE  QueueKept
<1>1. \/ fanout' = fanout
      \/ /\ worker[w].kind = "fanout"
         /\ fanout' = [fanout EXCEPT ![worker[w].event] = Redelivered(fanout[worker[w].event])]
  BY DEF Settle
<1>2. \/ jobs' = jobs
      \/ /\ worker[w].kind = "deliver" /\ worker[w].delivery \in redone'
         /\ jobs' = [jobs EXCEPT ![worker[w].delivery][worker[w].id] =
                                   Redelivered(jobs[worker[w].delivery][worker[w].id])]
  BY DEF Settle, Redone
<1>3. \/ fanout' = fanout
      \/ /\ worker[w].kind = "fanout"
         /\ \E j \in Jobs : j.state # "done" /\ fanout' = [fanout EXCEPT ![worker[w].event] = j]
  BY <1>1, JobsOf, JobTypes
<1>4. \/ jobs' = jobs
      \/ /\ worker[w].kind = "deliver"
         /\ \E j \in Jobs : /\ j.state # "waiting" \/ worker[w].delivery \in redone'
                            /\ jobs' = [jobs EXCEPT ![worker[w].delivery][worker[w].id] = j]
  BY <1>2, JobsOf, JobTypes
<1> QED BY <1>3, <1>4, OneJob

-----------------------------------------------------------------------------
(* Tasks that end *)

LEMMA EndStep ==
  ASSUME IInv, NEW w \in Workers, worker' = [worker EXCEPT ![w] = Idle], QueueKept,
         UNCHANGED <<rows, steady, answers, acked, requests>>,
         failures' \in 0..MaxFailures, redone \subseteq redone', redone' \subseteq Deliveries,
         broken \subseteq broken', broken' \subseteq Deliveries,
         worker[w].pc = "record" => worker[w].delivery \in redone' \cup broken'
  PROVE  IInv'
<1>1. Others(w) /\ worker'[w] = Idle
  BY IdleType, MoveType
<1>2. TaskOK(w)' /\ \A d \in Deliveries : ~Carries(w, d)'
  BY <1>1, IdleTask
<1>3. \A v \in Events : FanoutOK(v)'
  BY FanoutKeptOK DEF QueueKept
<1>4. requests' \in 0..MaxRequests
  BY DEF IInv, TypeOK
<1>5. ChoresOK
  BY <1>4 DEF ChoresOK, QueueKept
<1> QED BY <1>1, <1>2, <1>3, <1>5, LeaveStep DEF QueueKept

LEMMA ThrowStep ==
  ASSUME IInv, NEW w \in Workers, Throw(w),
         UNCHANGED <<rows, requests, steady, answers, acked, redone>>, failures' \in 0..MaxFailures
  PROVE  IInv'
<1> DEFINE t == worker[w]
<1>1. worker' = [worker EXCEPT ![w] = Idle] /\ QueueKept
  BY ThrowQueue DEF Throw
<1>2. broken' = IF (t.kind = "deliver" /\ Holds(t)) \/ NotEnqueued(t)
                  THEN broken \cup {t.delivery} ELSE broken
  BY DEF Throw
<1>3. broken \subseteq Deliveries /\ redone \subseteq Deliveries
  BY DEF IInv, TypeOK
<1>4. broken \subseteq broken' /\ broken' \subseteq Deliveries
  BY <1>2, <1>3, Task, HoldsOK DEF NotEnqueued
<1>5. t.pc = "record" => t.delivery \in redone' \cup broken'
  BY <1>2, Task, HoldsOK DEF AttemptPCs
<1> QED BY <1>1, <1>3, <1>4, <1>5, EndStep

LEMMA FailsType ==
  ASSUME IInv
  PROVE  /\ Fails => failures' \in 0..MaxFailures
         /\ failures' = failures => failures' \in 0..MaxFailures
         /\ requests' = requests => requests' \in 0..MaxRequests
         /\ requests < MaxRequests /\ requests' = requests + 1 => requests' \in 0..MaxRequests
         /\ redone \subseteq Deliveries /\ broken \subseteq Deliveries
         /\ acked \subseteq Deliveries /\ steady \subseteq Endpoints
  BY Limits DEF IInv, TypeOK, Fails

LEMMA RejectOK ==
  ASSUME IInv, NEW w \in Workers, Reject(w)
  PROVE  IInv'
  BY FailsType, ThrowStep DEF Reject

LEMMA RowGoneOK ==
  ASSUME IInv, NEW w \in Workers, RowGone(w)
  PROVE  IInv'
  BY FailsType, ThrowStep DEF RowGone, bounds

LEMMA RedoneOK ==
  ASSUME IInv, NEW w \in Workers
  PROVE  /\ redone \subseteq Redone(worker[w]) /\ Redone(worker[w]) \subseteq Deliveries
         /\ worker[w].pc = "record" => worker[w].delivery \in Redone(worker[w])
         /\ SecondStall(worker[w]) \/ NotEnqueued(worker[w]) => worker[w].delivery \in Deliveries
<1>1. redone \subseteq Deliveries
  BY DEF IInv, TypeOK
<1> QED BY <1>1, Task, HoldsOK DEF Redone, SecondStall, NotEnqueued, AttemptPCs

LEMMA DieOK ==
  ASSUME IInv, NEW w \in Workers, Die(w)
  PROVE  IInv'
<1>1. /\ worker' = [worker EXCEPT ![w] = Idle] /\ Settle(worker[w], Redelivered, Redelivered)
      /\ redone' = Redone(worker[w]) /\ Fails
      /\ UNCHANGED <<rows, requests, steady, answers, acked>>
  BY DEF Die
<1>2. broken \subseteq broken' /\ broken' \subseteq Deliveries
  BY RedoneOK, FailsType DEF Die
<1>3. QueueKept
  BY <1>1, RedeliveredQueue
<1>4. worker[w].pc = "record" => worker[w].delivery \in redone' \cup broken'
  BY <1>1, RedoneOK
<1> QED BY <1>1, <1>2, <1>3, <1>4, FailsType, RedoneOK, EndStep

LEMMA StallOK ==
  ASSUME IInv, NEW w \in Workers, Stall(w)
  PROVE  IInv'
<1> DEFINE t == [worker[w] EXCEPT !.lost = TRUE]
<1>1. /\ worker' = [worker EXCEPT ![w] = t] /\ Settle(worker[w], Redelivered, Redelivered)
      /\ redone' = Redone(worker[w]) /\ Fails /\ Holds(worker[w])
      /\ worker[w].kind \in {"fanout", "deliver"}
      /\ UNCHANGED <<rows, requests, steady, answers, acked>>
  BY State DEF Stall
<1>2. broken \subseteq broken' /\ broken' \subseteq Deliveries
  BY RedoneOK, FailsType DEF Stall
<1>3. QueueKept
  BY <1>1, RedeliveredQueue
<1>4. /\ t \in Tasks /\ t.pc = worker[w].pc /\ t.kind = worker[w].kind /\ t.event = worker[w].event
      /\ t.todo = worker[w].todo /\ t.delivery = worker[w].delivery /\ t.epoch = worker[w].epoch
      /\ t.id = worker[w].id /\ t.read = worker[w].read /\ t.result = worker[w].result
  BY Task DEF Tasks
<1> HIDE DEF t
<1>5. Others(w) /\ worker'[w] = t
  BY <1>1, <1>4, MoveType
<1>6. TaskOK(w)'
  <2>1. PlaceOK(t)
    BY <1>4, Task DEF PlaceOK
  <2>2. PlaceOK(worker[w])'
    BY <1>5, <2>1 DEF PlaceOK
  <2>3. worker[w].kind = "deliver" => worker[w].delivery \in redone'
    BY <1>1 DEF Redone
  <2>4. RowReadOK(worker[w])'
    BY <1>1, <1>4, <1>5, <2>3, Task, RedoneOK DEF RowReadOK, rows
  <2>5. FanoutTaskOK(worker[w])'
    <3>1. FanoutTaskOK(worker[w])
      BY Task DEF TaskOK
    <3> QED BY <1>1, <1>4, <1>5, <3>1 DEF FanoutTaskOK, rows
  <2>6. /\ t.pc = "record" /\ t.result = "ok" => t.delivery \in acked
        /\ t.pc = "deleteEndpoint" => t.todo \cap steady = {}
    BY <1>4, Task DEF TaskOK
  <2> QED BY <1>1, <1>5, <2>2, <2>4, <2>5, <2>6 DEF TaskOK
<1>7. \A v \in Events : FanoutOK(v)'
  BY <1>1, <1>3, FanoutKeptOK DEF QueueKept
<1>8. ChoresOK
  BY <1>1, <1>2, <1>3, FailsType, RedoneOK DEF ChoresOK, QueueKept
<1>9. ASSUME NEW d \in Deliveries \ redone' PROVE Tokens(w, d)
  <2>1. ChainOK(d) /\ d \notin redone
    BY <1>8, State DEF ChoresOK
  <2>2. /\ Carries(w, d)' <=> Carries(w, d)
        /\ CarrierOK(worker[w], d) => CarrierOK(worker[w], d)'
        /\ Going(d) => Going(d)'
    BY <1>1, <1>4, <1>5 DEF Carries, CarrierOK, Going, rows
  <2>3. \A id \in JobIds : Queued(d, id)' => Queued(d, id)
    BY <1>3 DEF QueueKept
  <2> QED BY <2>1, <2>2, <2>3 DEF Tokens, ChainOK
<1>10. \A d \in Deliveries \ redone' : worker[w].pc = "record" /\ worker[w].delivery = d => d \in broken'
  BY <1>1, RedoneOK
<1> QED BY <1>1, <1>5, <1>6, <1>7, <1>8, <1>9, <1>10, QuietStep

LEMMA FinishOK ==
  ASSUME IInv, NEW w \in Workers, Finish(w)
  PROVE  IInv'
<1> DEFINE t == worker[w]
<1>1. /\ t.pc = "finish" /\ worker' = [worker EXCEPT ![w] = Idle] /\ Settle(t, Completed, Removed)
      /\ UNCHANGED <<rows, bounds, history>>
  BY DEF Finish, Return
<1>2. Others(w) /\ worker'[w] = Idle
  BY <1>1, IdleType, MoveType
<1>3. TaskOK(w)' /\ \A d \in Deliveries : ~Carries(w, d)'
  BY <1>2, IdleTask
<1>4. /\ fanout' \in [Events -> Jobs]
      /\ \A v \in Events : fanout'[v] # fanout[v] => t.kind = "fanout" /\ v = t.event
  <2>1. CASE fanout' = fanout
    BY <2>1, State
  <2>2. CASE t.kind = "fanout" /\ fanout' = [fanout EXCEPT ![t.event] = Completed(fanout[t.event])]
    BY <2>2, JobsOf, JobTypes, FanoutChange
  <2> QED BY <1>1, <2>1, <2>2 DEF Settle
<1>5. /\ jobs' \in [Deliveries -> [JobIds -> Jobs]]
      /\ \A d \in Deliveries, id \in JobIds : Queued(d, id)' => Queued(d, id)
  <2>1. CASE jobs' = jobs
    BY <2>1, State DEF Queued
  <2>2. CASE t.kind = "deliver" /\ jobs' = [jobs EXCEPT ![t.delivery][t.id] = Removed(jobs[t.delivery][t.id])]
    <3>1. SetJob(t.delivery, t.id, NoJob)
      BY <2>2, JobsOf, JobTypes DEF SetJob
    <3>2. t.delivery \in Deliveries /\ t.id \in JobIds /\ NoJob \in Jobs
      BY <2>2, HoldsOK, JobTypes
    <3>3. /\ jobs' \in [Deliveries -> [JobIds -> Jobs]] /\ jobs'[t.delivery][t.id] = NoJob
          /\ \A c \in Deliveries, i \in JobIds : c # t.delivery \/ i # t.id => jobs'[c][i] = jobs[c][i]
      BY <3>1, <3>2, JobChange
    <3> QED BY <3>3, JobTypes DEF Queued
  <2> QED BY <1>1, <2>1, <2>2 DEF Settle
<1>6. ASSUME NEW v \in Events PROVE FanoutOK(v)'
  <2>1. CASE fanout'[v] = fanout[v]
    BY <1>1, <2>1 DEF IInv, FanoutOK, rows, history
  <2>2. CASE t.kind = "fanout" /\ v = t.event
    <3>1. \A e \in steady : delivery[<<e, v>>] # NoRow
      BY <1>1, <2>2, Task DEF TaskOK, FanoutTaskOK
    <3> QED BY <1>1, <3>1 DEF FanoutOK, rows, history
  <2> QED BY <1>4, <2>1, <2>2
<1>7. ChoresOK
  BY <1>1, <1>4, <1>5, FailsType DEF ChoresOK, bounds, history
<1> QED BY <1>1, <1>2, <1>3, <1>5, <1>6, <1>7, LeaveStep DEF history

-----------------------------------------------------------------------------
(* Tasks that go on *)

Same(t, u) ==
  /\ t.kind = u.kind /\ t.lost = u.lost /\ t.event = u.event /\ t.todo = u.todo
  /\ t.delivery = u.delivery /\ t.epoch = u.epoch /\ t.id = u.id

LEMMA GoToType ==
  ASSUME IInv, NEW w \in Workers, NEW pc, GoTo(w, pc),
         pc \in {"finish", "send", "markFailed", "enqueue", "deleteEndpoint"}
  PROVE  /\ Others(w) /\ Same(worker'[w], worker[w]) /\ worker'[w].pc = pc
         /\ worker'[w].read = worker[w].read /\ worker'[w].result = worker[w].result
<1> DEFINE t == [worker[w] EXCEPT !.pc = pc]
<1>1. t \in Tasks /\ t.pc = pc /\ Same(t, worker[w]) /\ t.read = worker[w].read /\ t.result = worker[w].result
  BY Task DEF Tasks, Same
<1>2. worker' = [worker EXCEPT ![w] = t]
  BY State DEF GoTo
<1> HIDE DEF t
<1> QED BY <1>1, <1>2, MoveType

LEMMA MoveStep ==
  ASSUME IInv, NEW w \in Workers, Others(w), UNCHANGED <<rows, queue, failures, history>>,
         requests' \in 0..MaxRequests, TaskOK(w)', worker[w].pc # "record",
         \A d \in Deliveries \ redone : Carries(w, d)' => Carries(w, d) /\ CarrierOK(worker[w], d)'
  PROVE  IInv'
<1>1. \A v \in Events : FanoutOK(v)'
  BY FanoutKeptOK DEF queue, FanoutKept, history
<1>2. ChoresOK
  BY FailsType, State DEF ChoresOK, queue, history
<1>3. ASSUME NEW d \in Deliveries \ redone' PROVE Tokens(w, d)
  <2>1. ChainOK(d) /\ d \notin redone
    BY State DEF history
  <2>2. \A id \in JobIds : (Queued(d, id)' <=> Queued(d, id)) /\ (Going(d) => Going(d)')
    BY DEF Queued, Going, rows, queue, history
  <2> QED BY <2>1, <2>2 DEF Tokens, ChainOK
<1> QED BY <1>1, <1>2, <1>3, QuietStep DEF history

LEMMA FindEndpointsOK ==
  ASSUME IInv, NEW w \in Workers, FindEndpoints(w)
  PROVE  IInv'
<1> DEFINE todo == {e \in Endpoints : endpoint[e] = "subscribed"}
           a == [worker[w] EXCEPT !.pc = "create"]
           t == [a EXCEPT !.todo = todo]
<1>1. /\ worker[w].pc = "findEndpoints" /\ UNCHANGED <<rows, queue, bounds, history>>
      /\ worker[w].kind = "fanout" /\ worker[w].event \in Events
  BY Task DEF FindEndpoints, PlaceOK, AttemptPCs
<1>2. a \in Tasks
  BY Task DEF Tasks
<1>3. t \in Tasks
  <2> HIDE DEF a
  <2> QED BY <1>2 DEF Tasks
<1>4. /\ t.pc = "create" /\ t.kind = "fanout" /\ t.event = worker[w].event /\ t.todo = todo
      /\ t.delivery = worker[w].delivery /\ t.epoch = worker[w].epoch
  BY <1>1, Task DEF Tasks
<1>5. worker' = [worker EXCEPT ![w] = t]
  BY <1>1, State DEF FindEndpoints
<1> HIDE DEF t
<1>6. Others(w) /\ worker'[w] = t
  BY <1>3, <1>5, MoveType
<1>7. TaskOK(w)'
  <2>1. PlaceOK(worker[w])'
    BY <1>1, <1>4, <1>6 DEF PlaceOK, AttemptPCs
  <2>2. RowReadOK(worker[w])'
    BY <1>1, <1>4, <1>6, Task DEF RowReadOK, rows, history
  <2>3. \A e \in steady : e \in todo
    BY FailsType DEF IInv
  <2>4. FanoutTaskOK(worker[w])'
    BY <1>1, <1>4, <1>6, <2>3 DEF FanoutTaskOK, rows, history
  <2> QED BY <1>4, <1>6, <2>1, <2>2, <2>4 DEF TaskOK
<1>8. \A d \in Deliveries : ~Carries(w, d)'
  BY <1>4, <1>6 DEF Carries, AttemptPCs
<1> QED BY <1>1, <1>6, <1>7, <1>8, FailsType, MoveStep DEF bounds

LEMMA FanoutDoneOK ==
  ASSUME IInv, NEW w \in Workers, FanoutDone(w)
  PROVE  IInv'
<1>1. /\ worker[w].pc = "create" /\ worker[w].todo = {} /\ GoTo(w, "finish")
      /\ UNCHANGED <<rows, queue, bounds, history>> /\ worker[w].kind = "fanout"
      /\ worker[w].event \in Events
  BY Task DEF FanoutDone, PlaceOK, AttemptPCs
<1>2. Others(w) /\ Same(worker'[w], worker[w]) /\ worker'[w].pc = "finish"
  BY <1>1, GoToType
<1>3. TaskOK(w)'
  <2>1. PlaceOK(worker[w])'
    BY <1>1, <1>2 DEF PlaceOK, AttemptPCs, Same
  <2>2. RowReadOK(worker[w])'
    BY <1>1, <1>2, Task DEF RowReadOK, rows, history, Same
  <2>3. FanoutTaskOK(worker[w])
    BY Task DEF TaskOK
  <2>4. FanoutTaskOK(worker[w])'
    BY <1>1, <1>2, <2>3 DEF FanoutTaskOK, rows, history, Same
  <2> QED BY <1>2, <2>1, <2>2, <2>4 DEF TaskOK
<1>4. \A d \in Deliveries : ~Carries(w, d)'
  BY <1>2 DEF Carries, AttemptPCs
<1> QED BY <1>1, <1>2, <1>3, <1>4, FailsType, MoveStep DEF bounds

(* A delivery task goes on to pc with what it has read. *)
LEMMA AttemptTask ==
  ASSUME IInv, NEW w \in Workers, worker[w].kind = "deliver", Others(w), Same(worker'[w], worker[w]),
         worker'[w].pc \in (AttemptPCs \cup {"enqueue", "finish"}) \ {"record"},
         worker'[w].pc \in AttemptPCs \ {"load"} => worker'[w].read < MaxDeliveryAttempts,
         worker'[w].pc = "enqueue" => worker'[w].read + 1 < MaxDeliveryAttempts,
         redone \subseteq redone',
         \A d \in Deliveries \ redone' : delivery[d] # NoRow => delivery'[d] # NoRow
  PROVE  TaskOK(w)'
<1>1. worker[w].delivery \in Deliveries /\ worker[w].id \in JobIds /\ RowReadOK(worker[w])
  BY Task, HoldsOK
<1>2. PlaceOK(worker[w])'
  BY <1>1 DEF PlaceOK, Same, AttemptPCs
<1>3. RowReadOK(worker[w])'
  BY <1>1 DEF RowReadOK, Same
<1>4. FanoutTaskOK(worker[w])'
  BY DEF FanoutTaskOK, Same
<1>5. worker'[w].pc \notin {"record", "deleteEndpoint"}
  BY DEF AttemptPCs
<1> QED BY <1>2, <1>3, <1>4, <1>5 DEF TaskOK

LEMMA LoadOK ==
  ASSUME IInv, NEW w \in Workers, Load(w)
  PROVE  IInv'
<1> DEFINE d == worker[w].delivery
<1>1. /\ worker[w].pc = "load" /\ UNCHANGED <<rows, queue, bounds, history>>
      /\ worker[w].kind = "deliver" /\ d \in Deliveries
  BY Task, HoldsOK DEF Load, AttemptPCs
<1>2. CASE GoTo(w, "finish")
  <2>1. Others(w) /\ Same(worker'[w], worker[w]) /\ worker'[w].pc = "finish"
    BY <1>2, GoToType
  <2>2. TaskOK(w)'
    BY <1>1, <2>1, AttemptTask DEF AttemptPCs, history, rows
  <2>3. \A c \in Deliveries : ~Carries(w, c)'
    BY <2>1 DEF Carries, AttemptPCs
  <2> QED BY <1>1, <2>1, <2>2, <2>3, FailsType, MoveStep DEF bounds
<1>3. CASE /\ delivery[d].status = "pending"
           /\ worker' = [worker EXCEPT ![w].pc = "findEndpoint", ![w].read = delivery[d].attempts]
  <2> DEFINE a == [worker[w] EXCEPT !.pc = "findEndpoint"]
             t == [a EXCEPT !.read = delivery[d].attempts]
  <2>1. delivery[d].attempts \in Nat /\ delivery[d].attempts < MaxDeliveryAttempts
    BY <1>1, <1>3, State DEF RowOK
  <2>2. a \in Tasks
    BY Task DEF Tasks
  <2>3. t \in Tasks
    <3> HIDE DEF a
    <3> QED BY <2>1, <2>2 DEF Tasks
  <2>4. t.pc = "findEndpoint" /\ Same(t, worker[w]) /\ t.read = delivery[d].attempts
    BY Task DEF Tasks, Same
  <2>5. worker' = [worker EXCEPT ![w] = t]
    BY <1>3, State
  <2> HIDE DEF t
  <2>6. Others(w) /\ worker'[w] = t
    BY <2>3, <2>5, MoveType
  <2>7. TaskOK(w)'
    BY <1>1, <2>1, <2>4, <2>6, AttemptTask DEF AttemptPCs, history, rows
  <2>8. ASSUME NEW c \in Deliveries \ redone, Carries(w, c)'
        PROVE  Carries(w, c) /\ CarrierOK(worker[w], c)'
    <3>1. c = d /\ Carries(w, c)
      BY <1>1, <2>4, <2>6, <2>8 DEF Carries, Same, AttemptPCs
    <3>2. CarrierOK(worker[w], c)
      BY <3>1, State DEF ChainOK
    <3>3. Going(c)'
      BY <1>1, <3>2 DEF CarrierOK, Going, rows, history
    <3> QED BY <1>1, <2>4, <2>6, <3>1, <3>3 DEF CarrierOK, rows
  <2> QED BY <1>1, <2>6, <2>7, <2>8, FailsType, MoveStep DEF bounds
<1> QED BY <1>2, <1>3 DEF Load

LEMMA FindEndpointOK ==
  ASSUME IInv, NEW w \in Workers, FindEndpoint(w)
  PROVE  IInv'
<1>1. /\ worker[w].pc = "findEndpoint" /\ UNCHANGED <<rows, queue, bounds, history>>
      /\ worker[w].kind = "deliver" /\ worker[w].read < MaxDeliveryAttempts
  BY Task DEF FindEndpoint, AttemptPCs, PlaceOK
<1>2. PICK pc \in {"send", "markFailed"} : GoTo(w, pc)
  BY DEF FindEndpoint
<1>3. /\ Others(w) /\ Same(worker'[w], worker[w]) /\ worker'[w].pc = pc
      /\ worker'[w].read = worker[w].read
  BY <1>2, GoToType
<1>4. TaskOK(w)'
  BY <1>1, <1>3, AttemptTask DEF AttemptPCs, history, rows
<1>5. ASSUME NEW c \in Deliveries \ redone, Carries(w, c)'
      PROVE  Carries(w, c) /\ CarrierOK(worker[w], c)'
  <2>1. Carries(w, c)
    BY <1>1, <1>3, <1>5 DEF Carries, Same, AttemptPCs
  <2>2. CarrierOK(worker[w], c)
    BY <2>1, State DEF ChainOK
  <2>3. Going(c) /\ worker[w].read = delivery[c].attempts
    BY <1>1, <2>2 DEF CarrierOK, AttemptPCs
  <2>4. Going(c)' /\ worker'[w].read = delivery'[c].attempts /\ worker'[w].pc # "record"
    BY <1>1, <1>3, <2>3 DEF Going, rows, history
  <2> QED BY <2>1, <2>4 DEF CarrierOK
<1> QED BY <1>1, <1>3, <1>4, <1>5, FailsType, MoveStep DEF bounds

LEMMA TakeFanoutOK ==
  ASSUME IInv, NEW w \in Workers, NEW v \in Events, TakeFanout(w, v)
  PROVE  IInv'
<1> DEFINE a == [Idle EXCEPT !.pc = "findEndpoints"]
           b == [a EXCEPT !.kind = "fanout"]
           t == [b EXCEPT !.event = v]
<1>1. /\ worker[w].pc = "idle" /\ fanout' = [fanout EXCEPT ![v].state = "active"]
      /\ worker' = [worker EXCEPT ![w] = t] /\ UNCHANGED <<rows, jobs, bounds, history>>
  BY DEF TakeFanout
<1>2. a \in Tasks
  BY IdleType DEF Tasks
<1>3. b \in Tasks
  <2> HIDE DEF a
  <2> QED BY <1>2 DEF Tasks
<1>4. t \in Tasks
  <2> HIDE DEF b
  <2> QED BY <1>3 DEF Tasks
<1>5. t.pc = "findEndpoints" /\ t.kind = "fanout" /\ t.event = v /\ t.delivery = None
  BY IdleType DEF Tasks
<1> HIDE DEF t
<1>6. Others(w) /\ worker'[w] = t
  BY <1>1, <1>4, MoveType
<1>7. TaskOK(w)'
  BY <1>5, <1>6, Pairs DEF TaskOK, PlaceOK, RowReadOK, FanoutTaskOK, AttemptPCs
<1>8. fanout[v] \in Jobs
  BY State
<1>9. fanout' \in [Events -> Jobs] /\ FanoutKept
  <2> DEFINE j == [fanout[v] EXCEPT !.state = "active"]
  <2>1. j \in Jobs /\ j.state = "active"
    BY <1>8, JobTypes
  <2>2. fanout' = [fanout EXCEPT ![v] = j]
    BY <1>1, State
  <2> HIDE DEF j
  <2> QED BY <2>1, <2>2, FanoutChange DEF FanoutKept
<1>10. ChoresOK
  BY <1>1, <1>9, State, FailsType DEF ChoresOK, bounds, history
<1>11. \A d \in Deliveries, id \in JobIds : Queued(d, id)' => Queued(d, id)
  BY <1>1 DEF Queued
<1>12. \A d \in Deliveries : ~Carries(w, d)'
  BY <1>5, <1>6, Pairs DEF Carries
<1>13. \A u \in Events : FanoutOK(u)'
  BY <1>1, <1>9, FanoutKeptOK DEF history
<1> QED BY <1>1, <1>6, <1>7, <1>10, <1>11, <1>12, <1>13, LeaveStep DEF history

LEMMA TakeDeliverOK ==
  ASSUME IInv, NEW w \in Workers, NEW d \in Deliveries, NEW id \in JobIds, TakeDeliver(w, d, id)
  PROVE  IInv'
<1> DEFINE a == [Idle EXCEPT !.kind = "deliver"]
           b == [a EXCEPT !.pc = "load"]
           c == [b EXCEPT !.delivery = d]
           e == [c EXCEPT !.epoch = purges[EndpointOf(d)]]
           t == [e EXCEPT !.id = id]
<1>1. /\ worker[w].pc = "idle" /\ Queued(d, id) /\ jobs' = [jobs EXCEPT ![d][id].state = "active"]
      /\ UNCHANGED <<rows, fanout, bounds, history>>
  BY DEF TakeDeliver, Queued
<1>2. a \in Tasks
  BY IdleType DEF Tasks
<1>3. b \in Tasks
  <2> HIDE DEF a
  <2> QED BY <1>2 DEF Tasks
<1>4. c \in Tasks
  <2> HIDE DEF b
  <2> QED BY <1>3 DEF Tasks
<1>5. e \in Tasks
  <2>1. purges[EndpointOf(d)] \in Nat
    BY State, Pairs
  <2> QED BY <1>4, <2>1 DEF Tasks
<1>6. t \in Tasks
  <2> HIDE DEF c
  <2> QED BY <1>5 DEF Tasks
<1>7. /\ t.pc = "load" /\ t.kind = "deliver" /\ t.delivery = d /\ t.id = id
      /\ t.epoch = purges[EndpointOf(d)] /\ t.lost = FALSE
  BY IdleType DEF Tasks
<1>8. worker' = [worker EXCEPT ![w] = t]
  BY IdleType DEF TakeDeliver, WithRow, Tasks
<1> HIDE DEF t
<1>9. Others(w) /\ worker'[w] = t
  BY <1>6, <1>8, MoveType
<1>10. d \notin redone => Going(d) /\ purges[EndpointOf(d)] = 0 /\ delivery[d] # NoRow
  BY <1>1, State DEF ChainOK, HistoryOK, Going
<1>11. TaskOK(w)'
  <2>1. PlaceOK(worker[w])'
    BY <1>7, <1>9 DEF PlaceOK, AttemptPCs
  <2>2. RowReadOK(worker[w])'
    BY <1>1, <1>7, <1>9, <1>10 DEF RowReadOK, rows, history
  <2>3. FanoutTaskOK(worker[w])'
    BY <1>7, <1>9 DEF FanoutTaskOK
  <2> QED BY <1>7, <1>9, <2>1, <2>2, <2>3 DEF TaskOK
<1>12. /\ jobs' \in [Deliveries -> [JobIds -> Jobs]]
       /\ \A x \in Deliveries, i \in JobIds :
            Queued(x, i)' => Queued(x, i) /\ (x # d \/ i # id)
  <2> DEFINE j == [jobs[d][id] EXCEPT !.state = "active"]
  <2>1. jobs[d][id] \in Jobs
    BY State
  <2>2. j \in Jobs /\ j.state = "active"
    BY <2>1, JobTypes
  <2>3. SetJob(d, id, j)
    BY <1>1, State DEF SetJob
  <2> HIDE DEF j
  <2>4. /\ jobs' \in [Deliveries -> [JobIds -> Jobs]] /\ jobs'[d][id] = j
        /\ \A x \in Deliveries, i \in JobIds : x # d \/ i # id => jobs'[x][i] = jobs[x][i]
    BY <2>2, <2>3, JobChange
  <2> QED BY <2>2, <2>4 DEF Queued
<1>13. ChoresOK
  BY <1>1, <1>12, State, FailsType DEF ChoresOK, bounds, history
<1>14. ASSUME NEW x \in Deliveries \ redone' PROVE Tokens(w, x)
  <2>1. ChainOK(x) /\ x \notin redone
    BY <1>1, State DEF history
  <2>2. \A i \in JobIds : Queued(x, i)' => Queued(x, i) /\ Going(x)'
    BY <1>1, <1>12, <2>1 DEF ChainOK, Going, rows, history
  <2>3. Carries(w, x)' <=> x = d
    BY <1>7, <1>9 DEF Carries, AttemptPCs
  <2>4. CASE x = d
    <3>1. \A i \in JobIds : ~Queued(d, i)'
      BY <1>1, <1>12, <2>1, <2>4 DEF ChainOK
    <3>2. Going(d)'
      BY <1>1, <1>10, <2>1, <2>4 DEF Going, rows, history
    <3>3. CarrierOK(worker[w], d)'
      BY <1>7, <1>9, <3>2 DEF CarrierOK
    <3> QED BY <1>1, <2>4, <3>1, <3>3 DEF Tokens
  <2>5. CASE x # d
    BY <2>1, <2>2, <2>3, <2>5 DEF Tokens, ChainOK
  <2> QED BY <2>4, <2>5
<1>15. \A v \in Events : FanoutOK(v)'
  BY <1>1, FanoutKeptOK DEF history, FanoutKept
<1> QED BY <1>1, <1>9, <1>11, <1>13, <1>14, <1>15, QuietStep DEF history

LEMMA WithRowType ==
  ASSUME IInv, NEW t \in Tasks, NEW d \in Deliveries, NEW id \in JobIds,
         NEW pc \in {"enqueue", "load", "reset"}
  PROVE  /\ WithRow(t, d, pc, id) \in Tasks
         /\ WithRow(t, d, pc, id).pc = pc /\ WithRow(t, d, pc, id).delivery = d
         /\ WithRow(t, d, pc, id).id = id /\ WithRow(t, d, pc, id).epoch = purges[EndpointOf(d)]
         /\ WithRow(t, d, pc, id).kind = t.kind /\ WithRow(t, d, pc, id).lost = t.lost
         /\ WithRow(t, d, pc, id).event = t.event /\ WithRow(t, d, pc, id).todo = t.todo
<1> DEFINE a == [t EXCEPT !.pc = pc]
           b == [a EXCEPT !.delivery = d]
           c == [b EXCEPT !.epoch = purges[EndpointOf(d)]]
           r == [c EXCEPT !.id = id]
<1>1. purges[EndpointOf(d)] \in Nat
  BY State, Pairs
<1>2. a \in Tasks
  BY DEF Tasks
<1>3. b \in Tasks
  <2> HIDE DEF a
  <2> QED BY <1>2 DEF Tasks
<1>4. c \in Tasks
  <2> HIDE DEF b
  <2> QED BY <1>1, <1>3 DEF Tasks
<1>5. r \in Tasks
  <2> HIDE DEF c
  <2> QED BY <1>4 DEF Tasks
<1>6. /\ r.pc = pc /\ r.delivery = d /\ r.id = id /\ r.epoch = purges[EndpointOf(d)]
      /\ r.kind = t.kind /\ r.lost = t.lost /\ r.event = t.event /\ r.todo = t.todo
  BY DEF Tasks
<1>7. WithRow(t, d, pc, id) = r
  BY DEF WithRow, Tasks
<1> HIDE DEF r
<1> QED BY <1>5, <1>6, <1>7

LEMMA RetryDeliveryOK ==
  ASSUME IInv, NEW w \in Workers, NEW d \in Deliveries, RetryDelivery(w, d)
  PROVE  IInv'
<1> DEFINE id == <<"manual", requests + 1>>
           a == [Idle EXCEPT !.kind = "request"]
           t == WithRow(a, d, "reset", id)
<1>1. /\ worker[w].pc = "idle" /\ delivery[d].status \in {"pending", "failed"}
      /\ requests < MaxRequests /\ requests' = requests + 1
      /\ worker' = [worker EXCEPT ![w] = t] /\ UNCHANGED <<rows, queue, failures, history>>
  BY DEF RetryDelivery
<1>2. id \in JobIds
  BY <1>1, Ids, State, Limits
<1> HIDE DEF id
<1>3. a \in Tasks /\ a.kind = "request" /\ a.lost = FALSE
  BY IdleType DEF Tasks
<1> HIDE DEF a
<1>4. /\ t \in Tasks /\ t.pc = "reset" /\ t.kind = "request" /\ t.delivery = d /\ t.id = id
      /\ t.epoch = purges[EndpointOf(d)]
  BY <1>2, <1>3, WithRowType
<1> HIDE DEF t
<1>5. Others(w) /\ worker'[w] = t
  BY <1>1, <1>4, MoveType
<1>6. delivery[d] # NoRow /\ (d \notin redone => purges[EndpointOf(d)] = 0)
  BY <1>1, State DEF NoRow, ChainOK, HistoryOK
<1>7. TaskOK(w)'
  <2>1. PlaceOK(worker[w])'
    BY <1>2, <1>4, <1>5 DEF PlaceOK, AttemptPCs
  <2>2. RowReadOK(worker[w])'
    BY <1>1, <1>4, <1>5, <1>6 DEF RowReadOK, rows, history
  <2>3. FanoutTaskOK(worker[w])'
    BY <1>4, <1>5 DEF FanoutTaskOK
  <2> QED BY <1>4, <1>5, <2>1, <2>2, <2>3 DEF TaskOK
<1>8. \A c \in Deliveries : ~Carries(w, c)'
  BY <1>4, <1>5 DEF Carries
<1> QED BY <1>1, <1>5, <1>7, <1>8, FailsType, MoveStep

LEMMA RemoveEndpointOK ==
  ASSUME IInv, NEW w \in Workers, NEW e \in Endpoints, RemoveEndpoint(w, e)
  PROVE  IInv'
<1> DEFINE a == [Idle EXCEPT !.pc = "deleteRows"]
           b == [a EXCEPT !.kind = "request"]
           t == [b EXCEPT !.todo = {e}]
<1>1. /\ worker[w].pc = "idle" /\ requests < MaxRequests /\ requests' = requests + 1
      /\ worker' = [worker EXCEPT ![w] = t] /\ UNCHANGED <<rows, queue, failures, history>>
  BY DEF RemoveEndpoint
<1>2. a \in Tasks
  BY IdleType DEF Tasks
<1>3. b \in Tasks
  <2> HIDE DEF a
  <2> QED BY <1>2 DEF Tasks
<1>4. t \in Tasks
  <2> HIDE DEF b
  <2> QED BY <1>3 DEF Tasks
<1>5. t.pc = "deleteRows" /\ t.kind = "request" /\ t.todo = {e} /\ t.delivery = None
  BY IdleType DEF Tasks
<1> HIDE DEF t
<1>6. Others(w) /\ worker'[w] = t
  BY <1>1, <1>4, MoveType
<1>7. TaskOK(w)'
  BY <1>5, <1>6, Pairs DEF TaskOK, PlaceOK, RowReadOK, FanoutTaskOK, AttemptPCs
<1>8. \A c \in Deliveries : ~Carries(w, c)'
  BY <1>5, <1>6 DEF Carries
<1> QED BY <1>1, <1>6, <1>7, <1>8, FailsType, MoveStep

LEMMA EndType ==
  ASSUME NEW t \in Tasks
  PROVE  AtEnd(t) \in Tasks /\ AtEnd(t).pc = "finish" /\ Same(AtEnd(t), t)
<1> DEFINE a == [t EXCEPT !.pc = "finish"]
           b == [a EXCEPT !.read = 0]
           r == [b EXCEPT !.result = "none"]
<1>1. a \in Tasks
  BY DEF Tasks
<1>2. b \in Tasks
  <2> HIDE DEF a
  <2> QED BY <1>1 DEF Tasks
<1>3. r \in Tasks
  <2> HIDE DEF b
  <2> QED BY <1>2 DEF Tasks
<1>4. r.pc = "finish" /\ Same(r, t)
  BY DEF Tasks, Same
<1>5. AtEnd(t) = r
  BY DEF AtEnd, Tasks
<1> HIDE DEF r
<1> QED BY <1>3, <1>4, <1>5

(* The task that has added the next attempt, or the first one. *)
LEMMA AfterEnqueue ==
  ASSUME IInv, NEW w \in Workers, EnqueueAttempt(w)
  PROVE  Others(w) /\ TaskOK(w)' /\ \A d \in Deliveries : ~Carries(w, d)'
<1> DEFINE t == worker[w]
<1>1. t.pc = "enqueue" /\ t \in Tasks /\ t.kind \in {"fanout", "deliver", "request"}
      /\ UNCHANGED <<rows, steady, acked, redone>>
  BY Task DEF EnqueueAttempt, PlaceOK
<1>2. CASE t.kind = "request"
  <2>1. worker' = [worker EXCEPT ![w] = Idle]
    BY <1>2 DEF EnqueueAttempt
  <2> QED BY <2>1, IdleType, MoveType, IdleTask
<1>3. CASE t.kind = "deliver"
  <2>1. worker' = [worker EXCEPT ![w] = AtEnd(t)]
    BY <1>3 DEF EnqueueAttempt
  <2>2. Others(w) /\ worker'[w].pc = "finish" /\ Same(worker'[w], worker[w])
    BY <1>1, <2>1, EndType, MoveType
  <2>3. TaskOK(w)'
    BY <1>1, <1>3, <2>2, AttemptTask DEF AttemptPCs, rows
  <2> QED BY <2>2, <2>3 DEF Carries, AttemptPCs
<1>4. CASE t.kind = "fanout"
  <2> DEFINE a == [Idle EXCEPT !.pc = "create"]
             b == [a EXCEPT !.kind = "fanout"]
             c == [b EXCEPT !.lost = t.lost]
             e == [c EXCEPT !.event = t.event]
             r == [e EXCEPT !.todo = t.todo]
  <2>1. a \in Tasks
    BY IdleType DEF Tasks
  <2>2. b \in Tasks
    <3> HIDE DEF a
    <3> QED BY <2>1 DEF Tasks
  <2>3. c \in Tasks
    <3> HIDE DEF b
    <3> QED BY <1>1, <2>2 DEF Tasks
  <2>4. e \in Tasks
    <3> HIDE DEF c
    <3> QED BY <1>1, <2>3 DEF Tasks
  <2>5. r \in Tasks
    <3> HIDE DEF e
    <3> QED BY <1>1, <2>4 DEF Tasks
  <2>6. /\ r.pc = "create" /\ r.kind = "fanout" /\ r.event = t.event /\ r.todo = t.todo
        /\ r.delivery = None
    BY IdleType DEF Tasks
  <2>7. worker' = [worker EXCEPT ![w] = r]
    BY <1>4, IdleType DEF EnqueueAttempt, Tasks
  <2> HIDE DEF r
  <2>8. Others(w) /\ worker'[w] = r
    BY <2>5, <2>7, MoveType
  <2>9. t.event \in Events /\ FanoutTaskOK(t)
    BY <1>4, Task DEF PlaceOK, TaskOK
  <2>10. FanoutTaskOK(worker[w])'
    BY <1>1, <1>4, <2>6, <2>8, <2>9 DEF FanoutTaskOK, rows
  <2>11. TaskOK(w)'
    BY <2>6, <2>8, <2>9, <2>10, Pairs DEF TaskOK, PlaceOK, RowReadOK, AttemptPCs
  <2> QED BY <2>6, <2>8, <2>11 DEF Carries, AttemptPCs
<1> QED BY <1>1, <1>2, <1>3, <1>4

LEMMA EnqueueAttemptOK ==
  ASSUME IInv, NEW w \in Workers, EnqueueAttempt(w)
  PROVE  IInv'
<1> DEFINE d == worker[w].delivery
           id == NextId(worker[w])
<1>1. /\ worker[w].pc = "enqueue" /\ d \in Deliveries
      /\ UNCHANGED <<rows, fanout, bounds, steady, answers, acked, redone>>
  BY Task DEF EnqueueAttempt
<1>2. Others(w) /\ TaskOK(w)' /\ \A c \in Deliveries : ~Carries(w, c)'
  BY AfterEnqueue
<1>3. id \in JobIds
  <2>1. CASE worker[w].kind = "deliver"
    <3>1. worker[w].read \in Nat /\ worker[w].read + 1 < MaxDeliveryAttempts
      BY <1>1, <2>1, Task DEF Tasks, PlaceOK
    <3> QED BY <2>1, <3>1, Ids, Limits DEF NextId
  <2>2. CASE worker[w].kind # "deliver"
    BY <1>1, <2>2, Task DEF NextId, PlaceOK
  <2> QED BY <2>1, <2>2
<1> HIDE DEF id
<1>4. /\ jobs' \in [Deliveries -> [JobIds -> Jobs]]
      /\ \A c \in Deliveries, i \in JobIds : Queued(c, i)' => Queued(c, i) \/ (c = d /\ i = id)
  <2>1. CASE jobs' = jobs
    BY <2>1, State DEF Queued
  <2>2. CASE jobs' = [jobs EXCEPT ![d][id] = Waiting]
    <3>1. Waiting \in Jobs
      BY JobTypes
    <3>2. /\ jobs' \in [Deliveries -> [JobIds -> Jobs]]
          /\ \A c \in Deliveries, i \in JobIds : c # d \/ i # id => jobs'[c][i] = jobs[c][i]
      <4>1. SetJob(d, id, Waiting)
        BY <2>2 DEF SetJob
      <4> QED BY <1>1, <1>3, <3>1, <4>1, JobChange
    <3> QED BY <3>2 DEF Queued
  <2> QED BY <2>1, <2>2 DEF EnqueueAttempt, id
<1>5. broken \subseteq broken' /\ broken' \subseteq Deliveries
  BY <1>1, FailsType DEF EnqueueAttempt
<1>6. ChoresOK
  BY <1>1, <1>4, <1>5, State, FailsType DEF ChoresOK, bounds
<1>7. ASSUME NEW c \in Deliveries \ redone' PROVE Tokens(w, c)
  <2>1. ChainOK(c) /\ c \notin redone
    BY <1>1, State
  <2>2. \A i \in JobIds : Queued(c, i) => Going(c)'
    BY <1>1, <2>1 DEF ChainOK, Going, rows
  <2>3. CASE c = d
    <3>1. Carries(w, c)
      BY <1>1, <2>1, <2>3, Task DEF Carries, RowReadOK
    <3>2. Going(c) /\ \A i \in JobIds : ~Queued(c, i)
      BY <1>1, <2>1, <2>3, <3>1 DEF ChainOK, CarrierOK
    <3>3. Going(c)'
      BY <1>1, <3>2 DEF Going, rows
    <3> QED BY <1>2, <1>4, <2>3, <3>1, <3>2, <3>3 DEF Tokens
  <2>4. CASE c # d
    BY <1>2, <1>4, <2>1, <2>2, <2>4 DEF Tokens, ChainOK
  <2> QED BY <2>3, <2>4
<1>8. \A v \in Events : FanoutOK(v)'
  BY <1>1, FanoutKeptOK DEF FanoutKept
<1> QED BY <1>1, <1>2, <1>6, <1>7, <1>8, QuietStep

-----------------------------------------------------------------------------
(* Steps that write the row of one delivery or get its answer *)

LEMMA RowStep ==
  ASSUME IInv, NEW w \in Workers, Others(w), NEW d \in Deliveries,
         UNCHANGED <<endpoint, purges, queue, bounds, steady, broken>>,
         delivery' \in [Deliveries -> [status : Statuses \cup {"none"}, attempts : Nat]],
         answers' \in [Deliveries -> Seq(Results)],
         acked \subseteq acked', acked' \subseteq Deliveries,
         redone \subseteq redone', redone' \subseteq Deliveries,
         \A c \in Deliveries : c # d => delivery'[c] = delivery[c] /\ answers'[c] = answers[c],
         delivery[d] # NoRow => delivery'[d] # NoRow, RowOK(d)', ChainOK(d)', TaskOK(w)',
         \A c \in Deliveries : c # d => ~Carries(w, c)',
         worker[w].pc = "record" => worker[w].delivery = d
  PROVE  IInv'
<1>1. TypeOK'
  BY DEF IInv, TypeOK, Others, queue, bounds
<1>2. \A c \in Deliveries : delivery[c] # NoRow => delivery'[c] # NoRow
  OBVIOUS
<1>3. Kept
  BY <1>2 DEF Kept
<1>4. ASSUME NEW c \in Deliveries, c # d PROVE RowOK(c)' /\ ChainOK(c)'
  <2>1. RowOK(c) /\ (c \notin redone => HistoryOK(c) /\ CountOK(c) /\ ChainOK(c))
    BY State DEF ChainOK
  <2>2. RowOK(c)'
    BY <1>4, <2>1 DEF RowOK
  <2>3. c \notin redone => HistoryOK(c)'
    BY <1>4, <2>1 DEF HistoryOK
  <2>4. BeingRecorded(c) => BeingRecorded(c)'
    <3> SUFFICES ASSUME NEW v \in Workers, worker[v].pc = "record", worker[v].delivery = c
                 PROVE  BeingRecorded(c)'
      BY DEF BeingRecorded
    <3>1. v # w
      BY <1>4
    <3> QED BY <3>1 DEF BeingRecorded, Others
  <2>5. c \notin redone => CountOK(c)'
    BY <1>4, <2>1, <2>4 DEF CountOK
  <2>6. c \notin redone => Tokens(w, c)
    BY <1>4, <2>1 DEF Tokens, ChainOK, Queued, Going, queue
  <2>7. ChainOK(c)'
    BY <1>4, <2>3, <2>5, <2>6, ChainStep
  <2> QED BY <2>2, <2>7
<1>5. ASSUME NEW v \in Events PROVE FanoutOK(v)'
  <2>1. \A e \in steady : <<e, v>> \in Deliveries
    BY FailsType, Pairs
  <2> QED BY <1>2, <2>1 DEF IInv, FanoutOK, queue
<1> QED BY <1>1, <1>3, <1>4, <1>5, PodStep DEF IInv

(* A task that carries d knows what its chain has come to. *)
LEMMA Carrier ==
  ASSUME IInv, NEW w \in Workers, NEW d \in Deliveries, d \notin redone, Carries(w, d)
  PROVE  /\ CarrierOK(worker[w], d) /\ HistoryOK(d) /\ \A id \in JobIds : ~Queued(d, id)
         /\ Len(answers[d]) \in Nat /\ delivery[d].attempts \in Nat
  BY State DEF ChainOK

LEMMA SendOK ==
  ASSUME IInv, NEW w \in Workers, Send(w)
  PROVE  IInv'
<1> DEFINE t == worker[w]
<1>1. PICK d \in Deliveries, result \in Results :
        /\ t.pc = "send" /\ t.kind = "deliver" /\ t.delivery = d /\ t.read < MaxDeliveryAttempts
        /\ worker' = [worker EXCEPT ![w].pc = "record", ![w].result = result]
        /\ answers' = IF d \in redone THEN answers ELSE [answers EXCEPT ![d] = Append(@, result)]
        /\ acked' = IF result = "ok" THEN acked \cup {d} ELSE acked
        /\ UNCHANGED <<rows, queue, bounds, steady, redone, broken>>
  BY Task, HoldsOK DEF Send, PlaceOK, AttemptPCs
<1> DEFINE a == [t EXCEPT !.pc = "record"]
           r == [a EXCEPT !.result = result]
<1>2. a \in Tasks /\ t.read \in Nat
  BY Task DEF Tasks
<1>3. r \in Tasks
  BY <1>2 DEF Tasks
<1>4. r.pc = "record" /\ r.result = result /\ r.read = t.read /\ Same(r, t)
  BY Task DEF Tasks, Same
<1>5. worker' = [worker EXCEPT ![w] = r]
  BY <1>1, State
<1> HIDE DEF r
<1>6. Others(w) /\ worker'[w] = r
  BY <1>3, <1>5, MoveType
<1>7. /\ acked \subseteq acked' /\ acked' \subseteq Deliveries /\ (result = "ok" => d \in acked')
      /\ UNCHANGED <<endpoint, purges, delivery>>
  BY <1>1, FailsType DEF rows
<1>8. TaskOK(w)'
  <2>1. d \in Deliveries /\ t.id \in JobIds /\ RowReadOK(t)
    BY <1>1, Task, HoldsOK
  <2>2. PlaceOK(worker[w])'
    BY <1>1, <1>4, <1>6, <2>1 DEF PlaceOK, AttemptPCs, Same
  <2>3. RowReadOK(worker[w])'
    BY <1>1, <1>4, <1>6, <1>7, <2>1 DEF RowReadOK, Same
  <2>4. FanoutTaskOK(worker[w])'
    BY <1>1, <1>4, <1>6 DEF FanoutTaskOK, Same
  <2> QED BY <1>1, <1>4, <1>6, <1>7, <2>2, <2>3, <2>4 DEF TaskOK, Same
<1>9. /\ answers' \in [Deliveries -> Seq(Results)]
      /\ \A c \in Deliveries : c # d => answers'[c] = answers[c]
      /\ d \notin redone => answers'[d] = Append(answers[d], result)
  BY <1>1, State
<1>10. Carries(w, d) /\ Carries(w, d)' /\ \A c \in Deliveries : c # d => ~Carries(w, c)'
  BY <1>1, <1>4, <1>6 DEF Carries, AttemptPCs, Same
<1>11. RowOK(d)'
  BY <1>7, State DEF RowOK
<1>12. ChainOK(d)'
  <2> SUFFICES ASSUME d \notin redone
               PROVE  HistoryOK(d)' /\ CountOK(d)' /\ Tokens(w, d)
    BY <1>1, <1>6, <1>10, ChainStep
  <2>1. /\ HistoryOK(d) /\ Going(d) /\ \A id \in JobIds : ~Queued(d, id)
        /\ t.read = delivery[d].attempts /\ Len(answers[d]) = t.read
    BY <1>1, <1>10, Carrier DEF CarrierOK, AttemptPCs, Going
  <2>2. /\ Len(answers'[d]) = t.read + 1 /\ answers'[d][t.read + 1] = result
        /\ \A i \in 1..t.read : answers'[d][i] = "retryable"
    <3>1. answers[d] \in Seq(Results)
      BY State
    <3>2. /\ Len(Append(answers[d], result)) = Len(answers[d]) + 1
          /\ Append(answers[d], result)[Len(answers[d]) + 1] = result
          /\ \A i \in 1..Len(answers[d]) : Append(answers[d], result)[i] = answers[d][i]
      BY <3>1
    <3>3. answers'[d] = Append(answers[d], result)
      BY <1>9
    <3>4. \A i \in 1..Len(answers[d]) : answers[d][i] = "retryable"
      BY <2>1 DEF Going
    <3> QED BY <2>1, <3>2, <3>3, <3>4
  <2>3. delivery[d] # NoRow
    BY <2>1 DEF Going
  <2>4. HistoryOK(d)'
    <3>1. \A i \in 1..Len(answers'[d]) - 1 : i \in 1..t.read
      BY <1>2, <2>2
    <3>2. Len(answers'[d]) <= MaxDeliveryAttempts
      BY <1>1, <1>2, <2>2, Limits
    <3> QED BY <1>7, <2>1, <2>2, <2>3, <3>1, <3>2 DEF HistoryOK
  <2>5. CountOK(d)'
    BY <1>1, <1>4, <1>6 DEF CountOK, BeingRecorded, Same
  <2>6. CarrierOK(worker[w], d)'
    BY <1>4, <1>6, <1>7, <2>1, <2>2, <2>3 DEF CarrierOK
  <2>7. \A id \in JobIds : ~Queued(d, id)'
    BY <1>1, <2>1 DEF Queued, queue
  <2> QED BY <1>10, <2>4, <2>5, <2>6, <2>7 DEF Tokens
<1> QED BY <1>1, <1>6, <1>7, <1>8, <1>9, <1>10, <1>11, <1>12, State, FailsType, RowStep

LEMMA NewRowType ==
  /\ NewRow \in [status : Statuses \cup {"none"}, attempts : Nat]
  /\ NewRow.status = "pending" /\ NewRow.attempts = 0 /\ NewRow # NoRow
  /\ NoRow \in [status : Statuses \cup {"none"}, attempts : Nat]
  /\ NoRow.status = "none" /\ NoRow.attempts = 0
  BY DEF NewRow, NoRow, Statuses

LEMMA CreateDeliveryOK ==
  ASSUME IInv, NEW w \in Workers, CreateDelivery(w)
  PROVE  IInv'
<1> DEFINE t == worker[w]
<1>1. PICK e \in t.todo :
        IF delivery[<<e, t.event>>] = NoRow
          THEN /\ delivery' = [delivery EXCEPT ![<<e, t.event>>] = NewRow]
               /\ worker' = [worker EXCEPT ![w] =
                    WithRow([t EXCEPT !.todo = @ \ {e}], <<e, t.event>>, "enqueue", FirstId)]
          ELSE /\ worker' = [worker EXCEPT ![w].todo = @ \ {e}]
               /\ UNCHANGED delivery
  BY DEF CreateDelivery
<1>2. /\ t.pc = "create" /\ t.kind = "fanout" /\ t.event \in Events /\ e \in Endpoints
      /\ UNCHANGED <<endpoint, purges, queue, bounds, history>> /\ FanoutTaskOK(t) /\ t \in Tasks
  BY Task DEF CreateDelivery, PlaceOK, AttemptPCs, Tasks, TaskOK
<1> DEFINE a == [worker[w] EXCEPT !.todo = worker[w].todo \ {e}]
<1>3. PICK d \in Deliveries : d = <<e, t.event>>
  BY <1>2, Pairs
<1>4. /\ a \in Tasks /\ a.todo = t.todo \ {e} /\ a.pc = t.pc /\ a.kind = t.kind /\ a.event = t.event
      /\ a.delivery = t.delivery /\ a.epoch = t.epoch /\ a.lost = t.lost
  BY <1>2 DEF Tasks
<1>5. CASE delivery[d] # NoRow
  <2>1. worker' = [worker EXCEPT ![w] = a] /\ UNCHANGED rows
    BY <1>1, <1>2, <1>3, <1>5, State DEF rows
  <2> HIDE DEF a
  <2>2. Others(w) /\ worker'[w] = a
    BY <1>4, <2>1, MoveType
  <2>3. TaskOK(w)'
    <3>1. PlaceOK(worker[w])'
      BY <1>2, <1>4, <2>2 DEF PlaceOK, AttemptPCs
    <3>2. RowReadOK(worker[w])'
      BY <1>2, <1>4, <2>1, <2>2, Task DEF RowReadOK, rows, history
    <3>3. FanoutTaskOK(worker[w])'
      BY <1>2, <1>3, <1>4, <1>5, <2>1, <2>2 DEF FanoutTaskOK, rows, history
    <3> QED BY <1>2, <1>4, <2>2, <3>1, <3>2, <3>3 DEF TaskOK
  <2>4. \A c \in Deliveries : ~Carries(w, c)'
    BY <1>2, <1>4, <2>2 DEF Carries, AttemptPCs
  <2> QED BY <1>2, <2>1, <2>2, <2>3, <2>4, FailsType, MoveStep DEF bounds
<1>6. CASE delivery[d] = NoRow
  <2> DEFINE r == WithRow(a, d, "enqueue", FirstId)
  <2>1. worker' = [worker EXCEPT ![w] = r] /\ delivery' = [delivery EXCEPT ![d] = NewRow]
    BY <1>1, <1>3, <1>6
  <2> HIDE DEF a
  <2>2. /\ r \in Tasks /\ r.pc = "enqueue" /\ r.kind = "fanout" /\ r.event = t.event
        /\ r.todo = t.todo \ {e} /\ r.delivery = d /\ r.id = FirstId
        /\ r.epoch = purges[EndpointOf(d)]
    <3>1. /\ r \in Tasks /\ r.pc = "enqueue" /\ r.delivery = d /\ r.id = FirstId
          /\ r.epoch = purges[EndpointOf(d)]
          /\ r.kind = a.kind /\ r.event = a.event /\ r.todo = a.todo
      BY <1>4, Ids, WithRowType
    <3> QED BY <1>2, <1>4, <3>1
  <2> HIDE DEF r
  <2>3. Others(w) /\ worker'[w] = r
    BY <2>1, <2>2, MoveType
  <2>4. /\ delivery' \in [Deliveries -> [status : Statuses \cup {"none"}, attempts : Nat]]
        /\ delivery'[d] = NewRow
        /\ \A c \in Deliveries : c # d => delivery'[c] = delivery[c]
    BY <1>3, <2>1, State, NewRowType
  <2>5. d \notin redone => HistoryOK(d) /\ answers[d] = <<>>
    BY <1>3, <1>6, State DEF ChainOK, HistoryOK
  <2>6. TaskOK(w)'
    <3>1. PlaceOK(worker[w])'
      BY <1>2, <1>3, <2>2, <2>3, Ids DEF PlaceOK, AttemptPCs
    <3>2. RowReadOK(worker[w])'
      BY <1>2, <2>2, <2>3, <2>4, <2>5, NewRowType DEF RowReadOK, history, HistoryOK
    <3>3. ASSUME NEW x \in steady', x \notin r.todo PROVE delivery'[<<x, r.event>>] # NoRow
      <4>1. x \in steady /\ <<x, r.event>> \in Deliveries
        BY <1>2, <2>2, FailsType, Pairs DEF history
      <4>2. CASE x = e
        BY <1>3, <2>2, <2>4, <4>2, NewRowType
      <4>3. CASE x # e
        <5>1. delivery[<<x, r.event>>] # NoRow
          BY <1>2, <2>2, <3>3, <4>1, <4>3 DEF FanoutTaskOK
        <5> QED BY <2>4, <4>1, <5>1, NewRowType
      <4> QED BY <4>2, <4>3
    <3>4. FanoutTaskOK(worker[w])'
      BY <2>2, <2>3, <3>3 DEF FanoutTaskOK
    <3> QED BY <2>2, <2>3, <3>1, <3>2, <3>4 DEF TaskOK
  <2>7. RowOK(d)'
    BY <2>4, NewRowType, Limits DEF RowOK
  <2>8. Carries(w, d)' /\ \A c \in Deliveries : c # d => ~Carries(w, c)'
    BY <2>2, <2>3 DEF Carries
  <2>9. ChainOK(d)'
    <3> SUFFICES ASSUME d \notin redone
                 PROVE  HistoryOK(d)' /\ CountOK(d)' /\ Tokens(w, d)
      BY <1>2, <1>3, <1>6, <2>3, ChainStep DEF history
    <3>1. answers'[d] = <<>> /\ UNCHANGED <<purges, jobs>>
      BY <1>2, <2>5 DEF history, queue
    <3>2. HistoryOK(d)'
      BY <2>4, <2>5, <3>1, NewRowType DEF HistoryOK
    <3>3. Going(d)' /\ CountOK(d)'
      BY <2>4, <3>1, NewRowType DEF Going, CountOK
    <3>4. CarrierOK(worker[w], d)'
      BY <2>2, <2>3, <3>3 DEF CarrierOK, AttemptPCs
    <3>5. \A id \in JobIds : ~Queued(d, id)'
      BY <1>3, <1>6, <3>1, State DEF ChainOK, Queued, Going
    <3> QED BY <1>6, <2>8, <3>2, <3>3, <3>4, <3>5 DEF Tokens
  <2> QED BY <1>2, <1>3, <2>3, <2>4, <2>6, <2>7, <2>8, <2>9, State, FailsType, NewRowType, RowStep
      DEF history
<1> QED BY <1>5, <1>6

(* The task that records d is done with it, or goes on to the next attempt. *)
LEMMA RecordOK ==
  ASSUME IInv, NEW w \in Workers, Record(w)
  PROVE  IInv'
<1> DEFINE t == worker[w]
           n == worker[w].read + 1
           outcome == Outcome(worker[w].result, worker[w].read + 1)
           row == [status |-> IF outcome = "pending" THEN delivery[worker[w].delivery].status ELSE outcome,
                   attempts |-> worker[w].read + 1]
<1>1. PICK d \in Deliveries : d = t.delivery
  BY Task, HoldsOK DEF Record, AttemptPCs
<1>2. /\ t.pc = "record" /\ t.kind = "deliver" /\ t.read \in Nat /\ t.read < MaxDeliveryAttempts
      /\ t.result \in Results /\ delivery[d] # NoRow /\ (t.result = "ok" => d \in acked)
      /\ t \in Tasks
      /\ UNCHANGED <<endpoint, purges, queue, bounds, history>>
  BY <1>1, Task DEF Record, AttemptPCs, PlaceOK, RowExists, Tasks, TaskOK
<1>3. /\ outcome \in Statuses
      /\ outcome = "pending" => t.result = "retryable" /\ n < MaxDeliveryAttempts
      /\ outcome = "delivered" => t.result = "ok"
  <2>1. n < MaxDeliveryAttempts <=> ~Exhausted(n)
    BY <1>2, Limits DEF Exhausted
  <2> QED BY <1>2, <2>1 DEF Outcome, Results, Statuses
<1>4. delivery' = [delivery EXCEPT ![d] = row]
  BY <1>1, State DEF Record, AttemptCount
<1>5. row.attempts = n /\ row.status = IF outcome = "pending" THEN delivery[d].status ELSE outcome
  BY <1>1
<1>6. row \in [status : Statuses \cup {"none"}, attempts : Nat] /\ row # NoRow
  BY <1>1, <1>2, <1>3, State, NewRowType
<1> HIDE DEF row
<1>7. /\ delivery' \in [Deliveries -> [status : Statuses \cup {"none"}, attempts : Nat]]
      /\ delivery'[d] = row /\ \A c \in Deliveries : c # d => delivery'[c] = delivery[c]
  BY <1>4, <1>6, State
<1>8. RowOK(d)'
  <2>1. RowOK(d)
    BY State
  <2>2. n <= MaxDeliveryAttempts
    BY <1>2, Limits
  <2>3. row.status = "pending" => n < MaxDeliveryAttempts
    BY <1>3, <1>5
  <2>4. row.status = "delivered" => d \in acked
    BY <1>2, <1>3, <1>5, <2>1 DEF RowOK
  <2> QED BY <1>2, <1>5, <1>7, <2>2, <2>3, <2>4 DEF RowOK, history
<1> DEFINE b == [worker[w] EXCEPT !.pc = "enqueue"]
           r == [b EXCEPT !.result = "none"]
<1>9. /\ Others(w) /\ Same(worker'[w], worker[w])
      /\ IF outcome = "pending" THEN worker'[w].pc = "enqueue" /\ worker'[w].read = worker[w].read
                                ELSE worker'[w].pc = "finish"
  <2>1. CASE outcome = "pending"
    <3>1. b \in Tasks
      BY <1>2 DEF Tasks
    <3>2. r \in Tasks
      <4> HIDE DEF b
      <4> QED BY <3>1 DEF Tasks
    <3>3. r.pc = "enqueue" /\ Same(r, t) /\ r.read = t.read
      BY <1>2 DEF Tasks, Same
    <3>4. worker' = [worker EXCEPT ![w] = r]
      BY <1>2, <2>1 DEF Record, AttemptCount, Tasks
    <3> HIDE DEF r
    <3> QED BY <2>1, <3>2, <3>3, <3>4, MoveType
  <2>2. CASE outcome # "pending"
    <3>1. worker' = [worker EXCEPT ![w] = AtEnd(t)]
      BY <2>2 DEF Record, AttemptCount
    <3> QED BY <1>2, <2>2, <3>1, EndType, MoveType
  <2> QED BY <2>1, <2>2
<1>10. TaskOK(w)'
  <2>1. worker'[w].pc \in {"enqueue", "finish"}
    BY <1>9
  <2>2. worker'[w].pc = "enqueue" => worker'[w].read + 1 < MaxDeliveryAttempts
    BY <1>3, <1>9
  <2>3. \A c \in Deliveries \ redone' : delivery[c] # NoRow => delivery'[c] # NoRow
    BY <1>6, <1>7
  <2> QED BY <1>2, <1>9, <2>1, <2>2, <2>3, AttemptTask DEF AttemptPCs, history
<1>11. \A c \in Deliveries : c # d => ~Carries(w, c)'
  BY <1>1, <1>9 DEF Carries, Same
<1>12. ChainOK(d)'
  <2> SUFFICES ASSUME d \notin redone
               PROVE  HistoryOK(d)' /\ CountOK(d)' /\ Tokens(w, d)
    BY <1>1, <1>2, <1>9, ChainStep DEF Carries, AttemptPCs, history
  <2>1. /\ Carries(w, d) /\ HistoryOK(d) /\ \A id \in JobIds : ~Queued(d, id)
        /\ Len(answers[d]) = n /\ answers[d][n] = t.result
    BY <1>1, <1>2, Carrier DEF Carries, CarrierOK, AttemptPCs
  <2>2. answers' = answers /\ purges' = purges /\ jobs' = jobs
    BY <1>2 DEF history, queue
  <2>3. HistoryOK(d)'
    BY <1>6, <1>7, <2>1, <2>2 DEF HistoryOK
  <2>4. CountOK(d)'
    BY <1>5, <1>7, <2>1, <2>2 DEF CountOK
  <2>5. ASSUME Carries(w, d)' PROVE CarrierOK(worker[w], d)'
    <3>1. outcome = "pending" /\ worker'[w].pc = "enqueue"
      BY <1>9, <2>5 DEF Carries, AttemptPCs
    <3>2. \A i \in 1..n : answers[d][i] = "retryable"
      <4>1. \A i \in 1..n - 1 : answers[d][i] = "retryable"
        BY <2>1 DEF HistoryOK
      <4>2. \A i \in 1..n : i \in 1..n - 1 \/ i = n
        BY <1>2
      <4> QED BY <1>3, <2>1, <3>1, <4>1, <4>2
    <3>3. Len(answers'[d]) = n /\ delivery'[d].attempts = n /\ delivery'[d] # NoRow
      BY <1>5, <1>6, <1>7, <2>1, <2>2
    <3>4. Going(d)'
      BY <2>2, <3>2, <3>3 DEF Going
    <3> QED BY <3>1, <3>4 DEF CarrierOK, AttemptPCs
  <2>6. \A id \in JobIds : ~Queued(d, id)'
    BY <2>1, <2>2 DEF Queued
  <2> QED BY <2>1, <2>3, <2>4, <2>5, <2>6 DEF Tokens
<1> QED BY <1>1, <1>2, <1>6, <1>7, <1>8, <1>9, <1>10, <1>11, <1>12, State, FailsType, RowStep DEF history

LEMMA MarkFailedOK ==
  ASSUME IInv, NEW w \in Workers, MarkFailed(w)
  PROVE  IInv'
<1> DEFINE t == worker[w]
           row == [status |-> "failed", attempts |-> worker[w].read + 1]
<1>1. PICK d \in Deliveries : d = t.delivery
  BY Task, HoldsOK DEF MarkFailed, AttemptPCs
<1>2. /\ t.pc = "markFailed" /\ t.kind = "deliver" /\ t.read \in Nat /\ t.read < MaxDeliveryAttempts
      /\ delivery[d] # NoRow /\ t \in Tasks /\ delivery' = [delivery EXCEPT ![d] = row]
      /\ worker' = [worker EXCEPT ![w] = AtEnd(t)]
      /\ UNCHANGED <<endpoint, purges, queue, bounds, history>>
  BY <1>1, Task DEF MarkFailed, AttemptPCs, PlaceOK, RowExists, Tasks, AttemptCount
<1>3. /\ row \in [status : Statuses \cup {"none"}, attempts : Nat] /\ row # NoRow
      /\ row.status = "failed" /\ row.attempts = t.read + 1
  BY <1>2, NewRowType DEF Statuses
<1>4. /\ delivery' \in [Deliveries -> [status : Statuses \cup {"none"}, attempts : Nat]]
      /\ delivery'[d] = row /\ \A c \in Deliveries : c # d => delivery'[c] = delivery[c]
  BY <1>2, <1>3, State
<1>5. RowOK(d)'
  BY <1>2, <1>3, <1>4, Limits DEF RowOK
<1>6. Others(w) /\ Same(worker'[w], worker[w]) /\ worker'[w].pc = "finish"
  BY <1>2, EndType, MoveType
<1>7. TaskOK(w)'
  <2>1. \A c \in Deliveries \ redone' : delivery[c] # NoRow => delivery'[c] # NoRow
    BY <1>3, <1>4
  <2> QED BY <1>2, <1>6, <2>1, AttemptTask DEF AttemptPCs, history
<1>8. \A c \in Deliveries : ~Carries(w, c)'
  BY <1>6 DEF Carries, AttemptPCs
<1>9. ChainOK(d)'
  <2> SUFFICES ASSUME d \notin redone
               PROVE  HistoryOK(d)' /\ CountOK(d)' /\ Tokens(w, d)
    BY <1>1, <1>2, <1>6, ChainStep DEF Carries, AttemptPCs, history
  <2>1. /\ HistoryOK(d) /\ \A id \in JobIds : ~Queued(d, id)
        /\ Len(answers[d]) = t.read
    BY <1>1, <1>2, Carrier DEF Carries, CarrierOK, AttemptPCs, Going
  <2>2. answers' = answers /\ purges' = purges /\ jobs' = jobs
    BY <1>2 DEF history, queue
  <2>3. HistoryOK(d)'
    BY <1>3, <1>4, <2>1, <2>2 DEF HistoryOK
  <2>4. CountOK(d)'
    BY <1>4, <2>1, <2>2 DEF CountOK
  <2>5. \A id \in JobIds : ~Queued(d, id)'
    BY <2>1, <2>2 DEF Queued
  <2> QED BY <1>8, <2>3, <2>4, <2>5 DEF Tokens
<1> QED BY <1>1, <1>2, <1>3, <1>4, <1>5, <1>6, <1>7, <1>8, <1>9, State, FailsType, RowStep DEF history

LEMMA ResetOK ==
  ASSUME IInv, NEW w \in Workers, Reset(w)
  PROVE  IInv'
<1> DEFINE t == worker[w]
<1>1. PICK d \in Deliveries : d = t.delivery
  BY Task DEF Reset, PlaceOK
<1>2. /\ t.pc = "reset" /\ t.kind = "request" /\ t.id \in JobIds
      /\ delivery' = [delivery EXCEPT ![d] = NewRow]
      /\ GoTo(w, "enqueue") /\ redone' = redone \cup {d}
      /\ UNCHANGED <<endpoint, purges, queue, bounds, steady, answers, acked, broken>>
  BY <1>1, Task DEF Reset, PlaceOK, AttemptPCs
<1>3. Others(w) /\ Same(worker'[w], worker[w]) /\ worker'[w].pc = "enqueue"
  BY <1>2, GoToType
<1>4. /\ delivery' \in [Deliveries -> [status : Statuses \cup {"none"}, attempts : Nat]]
      /\ delivery'[d] = NewRow /\ \A c \in Deliveries : c # d => delivery'[c] = delivery[c]
  BY <1>2, NewRowType, State
<1>5. RowOK(d)' /\ ChainOK(d)'
  BY <1>2, <1>4, NewRowType, Limits DEF RowOK, ChainOK
<1>6. TaskOK(w)'
  <2>1. PlaceOK(worker[w])'
    BY <1>1, <1>2, <1>3 DEF PlaceOK, Same, AttemptPCs
  <2>2. RowReadOK(worker[w])'
    BY <1>1, <1>2, <1>3 DEF RowReadOK, Same
  <2>3. FanoutTaskOK(worker[w])'
    BY <1>2, <1>3 DEF FanoutTaskOK, Same
  <2> QED BY <1>3, <2>1, <2>2, <2>3 DEF TaskOK
<1>7. \A c \in Deliveries : ~Carries(w, c)'
  BY <1>2, <1>3 DEF Carries, Same
<1>8. redone \subseteq redone' /\ redone' \subseteq Deliveries
  BY <1>2, FailsType
<1> QED BY <1>2, <1>3, <1>4, <1>5, <1>6, <1>7, <1>8, NewRowType, State, FailsType, RowStep

-----------------------------------------------------------------------------
(* Endpoints and events *)

LEMMA OutsideStep ==
  ASSUME IInv, TypeOK', UNCHANGED <<worker, delivery, purges, jobs, answers, acked, redone, broken>>,
         steady' \subseteq steady, \A e \in steady' : endpoint'[e] = "subscribed", FanoutKept
  PROVE  IInv'
<1>1. Kept
  BY DEF Kept
<1>2. \A w \in Workers : TaskOK(w)'
  BY <1>1, TaskKept
<1>3. ASSUME NEW d \in Deliveries PROVE RowOK(d)' /\ ChainOK(d)'
  <2>1. RowOK(d)'
    BY State DEF RowOK
  <2>2. ChainOK(d)'
    BY State DEF ChainOK, HistoryOK, CountOK, BeingRecorded, Carries, CarrierOK, Going, Queued
  <2> QED BY <2>1, <2>2
<1>4. \A v \in Events : FanoutOK(v)'
  BY DEF IInv, FanoutOK, FanoutKept
<1> QED BY <1>2, <1>3, <1>4 DEF IInv

LEMMA DispatchEventOK ==
  ASSUME IInv, NEW v \in Events, DispatchEvent(v)
  PROVE  IInv'
<1>1. UNCHANGED <<rows, jobs, requests, worker, history>> /\ failures' \in 0..MaxFailures
  BY FailsType DEF DispatchEvent
<1>2. PICK j \in {Waiting, Failed(NoJob)} : fanout' = [fanout EXCEPT ![v] = j]
  BY DEF DispatchEvent
<1>3. j \in Jobs /\ j.state # "done"
  BY <1>2, JobTypes
<1>4. fanout' \in [Events -> Jobs] /\ FanoutKept
  BY <1>2, <1>3, FanoutChange DEF FanoutKept
<1>5. TypeOK'
  BY <1>1, <1>4 DEF IInv, TypeOK, rows, history
<1>6. \A e \in steady' : endpoint'[e] = "subscribed"
  BY <1>1 DEF IInv, rows, history
<1> QED BY <1>1, <1>4, <1>5, <1>6, OutsideStep DEF rows, history

LEMMA UpdateEndpointOK ==
  ASSUME IInv, NEW e \in Endpoints, NEW setting \in {"subscribed", "unsubscribed", "inactive"},
         UpdateEndpoint(e, setting)
  PROVE  IInv'
<1>1. /\ requests' \in 0..MaxRequests /\ endpoint' = [endpoint EXCEPT ![e] = setting]
      /\ steady' = steady \ {e}
      /\ UNCHANGED <<purges, delivery, queue, failures, worker, answers, acked, redone, broken>>
  BY FailsType DEF UpdateEndpoint
<1>2. /\ endpoint' \in [Endpoints -> {"subscribed", "unsubscribed", "inactive", "removed"}]
      /\ \A x \in Endpoints : x # e => endpoint'[x] = endpoint[x]
  BY <1>1 DEF IInv, TypeOK
<1>3. TypeOK'
  BY <1>1, <1>2 DEF IInv, TypeOK, queue
<1>4. \A x \in steady' : endpoint'[x] = "subscribed"
  BY <1>1, <1>2, FailsType DEF IInv
<1>5. FanoutKept
  BY <1>1 DEF FanoutKept, queue
<1> QED BY <1>1, <1>3, <1>4, <1>5, OutsideStep DEF queue

LEMMA DeleteRowsOK ==
  ASSUME IInv, NEW w \in Workers, NEW e \in Endpoints, DeleteRows(w, e)
  PROVE  IInv'
<1>1. /\ worker[w].pc = "deleteRows" /\ e \in worker[w].todo
      /\ purges' = [purges EXCEPT ![e] = @ + 1]
      /\ delivery' = [d \in Deliveries |-> IF EndpointOf(d) = e THEN NoRow ELSE delivery[d]]
      /\ jobs' = [d \in Deliveries |->
                    IF EndpointOf(d) = e THEN [id \in JobIds |-> NoJob] ELSE jobs[d]]
      /\ GoTo(w, "deleteEndpoint") /\ steady' = steady \ {e} /\ redone' = redone \cup DeliveriesOf(e)
      /\ UNCHANGED <<endpoint, fanout, bounds, answers, acked, broken>>
  BY DEF DeleteRows
<1>2. worker[w].kind = "request" /\ worker[w].todo = {e}
  BY <1>1, Task DEF PlaceOK, AttemptPCs
<1>3. Others(w) /\ Same(worker'[w], worker[w]) /\ worker'[w].pc = "deleteEndpoint"
  BY <1>1, GoToType
<1>4. /\ \A d \in Deliveries : EndpointOf(d) = e => d \in DeliveriesOf(e)
      /\ DeliveriesOf(e) \subseteq Deliveries
  BY DEF DeliveriesOf, EndpointOf, Deliveries
<1>5. redone \subseteq redone' /\ redone' \subseteq Deliveries
  BY <1>1, <1>4, FailsType
<1>6. ASSUME NEW d \in Deliveries, d \notin redone'
      PROVE  /\ delivery'[d] = delivery[d] /\ jobs'[d] = jobs[d]
             /\ purges'[EndpointOf(d)] = purges[EndpointOf(d)] /\ EndpointOf(d) # e
  <2>1. EndpointOf(d) # e /\ EndpointOf(d) \in Endpoints
    BY <1>1, <1>4, <1>6, Pairs
  <2> QED BY <1>1, <2>1, State
<1>7. /\ delivery' \in [Deliveries -> [status : Statuses \cup {"none"}, attempts : Nat]]
      /\ jobs' \in [Deliveries -> [JobIds -> Jobs]] /\ purges' \in [Endpoints -> Nat]
  <2>1. [id \in JobIds |-> NoJob] \in [JobIds -> Jobs]
    BY JobTypes
  <2> QED BY <1>1, <2>1, NewRowType, State
<1>8. TypeOK'
  BY <1>1, <1>3, <1>5, <1>7 DEF IInv, TypeOK, Others, bounds
<1>9. Kept
  <2>1. \A d \in Deliveries : delivery[d] # NoRow /\ delivery'[d] = NoRow => EndpointOf(d) = e
    BY <1>1
  <2> QED BY <1>1, <1>4, <1>5, <2>1 DEF Kept
<1>10. TaskOK(w)'
  <2>1. PlaceOK(worker[w])'
    BY <1>2, <1>3 DEF PlaceOK, Same, AttemptPCs
  <2>2. RowReadOK(worker[w])'
    BY <1>3, <1>5, <1>6, Task DEF RowReadOK, Same
  <2>3. FanoutTaskOK(worker[w])'
    BY <1>2, <1>3 DEF FanoutTaskOK, Same
  <2>4. worker'[w].todo \cap steady' = {}
    BY <1>1, <1>2, <1>3 DEF Same
  <2> QED BY <1>3, <2>1, <2>2, <2>3, <2>4 DEF TaskOK
<1>11. ASSUME NEW d \in Deliveries PROVE RowOK(d)' /\ ChainOK(d)'
  <2>1. delivery'[d] = delivery[d] \/ delivery'[d] = NoRow
    BY <1>1
  <2>2. RowOK(d)'
    BY <1>1, <2>1, NewRowType, Limits, State DEF RowOK
  <2>3. ~Carries(w, d)'
    BY <1>3 DEF Carries, AttemptPCs
  <2>4. ASSUME d \notin redone' PROVE HistoryOK(d)' /\ CountOK(d)' /\ Tokens(w, d)
    <3>1. ChainOK(d) /\ d \notin redone
      BY <1>5, <2>4, State
    <3>2. HistoryOK(d)'
      BY <1>1, <1>6, <2>4, <3>1 DEF ChainOK, HistoryOK
    <3>3. BeingRecorded(d) => BeingRecorded(d)'
      <4> SUFFICES ASSUME NEW v \in Workers, worker[v].pc = "record", worker[v].delivery = d
                   PROVE  BeingRecorded(d)'
        BY DEF BeingRecorded
      <4> QED BY <1>1, <1>3 DEF BeingRecorded, Others
    <3>4. CountOK(d)'
      BY <1>1, <1>6, <2>4, <3>1, <3>3 DEF ChainOK, CountOK
    <3>5. \A id \in JobIds : (Queued(d, id)' <=> Queued(d, id)) /\ (Going(d) => Going(d)')
      BY <1>1, <1>6, <2>4 DEF Queued, Going
    <3> QED BY <2>3, <3>1, <3>2, <3>4, <3>5 DEF Tokens, ChainOK
  <2> QED BY <1>1, <1>3, <1>5, <1>6, <2>2, <2>4, ChainStep
<1>12. \A x \in steady' : endpoint'[x] = "subscribed"
  BY <1>1 DEF IInv
<1>13. ASSUME NEW v \in Events PROVE FanoutOK(v)'
  <2>1. ASSUME NEW x \in steady' PROVE <<x, v>> \in Deliveries /\ EndpointOf(<<x, v>>) # e
    BY <1>1, FailsType, Pairs
  <2> QED BY <1>1, <2>1 DEF IInv, FanoutOK
<1> QED BY <1>3, <1>8, <1>9, <1>10, <1>11, <1>12, <1>13, PodStep

LEMMA DeleteEndpointOK ==
  ASSUME IInv, NEW w \in Workers, NEW e \in Endpoints, DeleteEndpoint(w, e)
  PROVE  IInv'
<1>1. /\ worker[w].pc = "deleteEndpoint" /\ e \in worker[w].todo
      /\ worker' = [worker EXCEPT ![w] = Idle]
      /\ endpoint' \in {endpoint, [endpoint EXCEPT ![e] = "removed"]}
      /\ UNCHANGED <<purges, delivery, queue, bounds, history>>
  BY DEF DeleteEndpoint
<1>2. e \notin steady
  BY <1>1, Task DEF TaskOK
<1>3. /\ endpoint' \in [Endpoints -> {"subscribed", "unsubscribed", "inactive", "removed"}]
      /\ \A x \in Endpoints : x # e => endpoint'[x] = endpoint[x]
  BY <1>1 DEF IInv, TypeOK
<1>4. Others(w) /\ worker'[w] = Idle
  BY <1>1, IdleType, MoveType
<1>5. TaskOK(w)' /\ \A d \in Deliveries : ~Carries(w, d)'
  BY <1>4, IdleTask
<1>6. TypeOK'
  BY <1>1, <1>3, <1>4 DEF IInv, TypeOK, Others, queue, bounds, history
<1>7. Kept
  BY <1>1 DEF Kept, history
<1>8. \A x \in steady' : endpoint'[x] = "subscribed"
  BY <1>1, <1>2, <1>3, FailsType DEF IInv, history
<1>9. \A v \in Events : FanoutOK(v)'
  BY <1>1 DEF IInv, FanoutOK, queue, history
<1>10. ASSUME NEW d \in Deliveries PROVE RowOK(d)' /\ ChainOK(d)'
  <2>1. RowOK(d)'
    BY <1>1, State DEF RowOK, history
  <2>2. ASSUME d \notin redone' PROVE HistoryOK(d)' /\ CountOK(d)' /\ Tokens(w, d)
    <3>1. ChainOK(d) /\ d \notin redone
      BY <1>1, <2>2, State DEF history
    <3>2. HistoryOK(d)'
      BY <1>1, <3>1 DEF ChainOK, HistoryOK, history
    <3>3. BeingRecorded(d) => BeingRecorded(d)'
      <4> SUFFICES ASSUME NEW v \in Workers, worker[v].pc = "record", worker[v].delivery = d
                   PROVE  BeingRecorded(d)'
        BY DEF BeingRecorded
      <4> QED BY <1>1, <1>4 DEF BeingRecorded, Others
    <3>4. CountOK(d)'
      BY <1>1, <3>1, <3>3 DEF ChainOK, CountOK, history
    <3>5. \A id \in JobIds : (Queued(d, id)' <=> Queued(d, id)) /\ (Going(d) => Going(d)')
      BY <1>1 DEF Queued, Going, queue, history
    <3> QED BY <1>5, <3>1, <3>2, <3>4, <3>5 DEF Tokens, ChainOK
  <2> QED BY <1>1, <1>4, <2>1, <2>2, ChainStep DEF history
<1> QED BY <1>4, <1>5, <1>6, <1>7, <1>8, <1>9, <1>10, PodStep

-----------------------------------------------------------------------------
(* The theorems *)

LEMMA InitOK == Init => IInv
<1> SUFFICES ASSUME Init PROVE IInv
  OBVIOUS
<1>1. TypeOK
  <2>1. [id \in JobIds |-> NoJob] \in [JobIds -> Jobs]
    BY JobTypes
  <2>2. endpoint \in [Endpoints -> {"subscribed", "unsubscribed", "inactive", "removed"}]
    BY DEF Init
  <2>3. steady \subseteq Endpoints /\ requests \in 0..MaxRequests /\ failures \in 0..MaxFailures
    BY Limits DEF Init
  <2>4. <<>> \in Seq(Results)
    OBVIOUS
  <2> QED BY <2>1, <2>2, <2>3, <2>4, IdleType, JobTypes, NewRowType DEF Init, TypeOK
<1>2. \A w \in Workers : worker[w] = Idle
  BY DEF Init
<1>3. ASSUME NEW d \in Deliveries PROVE RowOK(d) /\ ChainOK(d)
  <2>1. delivery[d] = NoRow /\ answers[d] = <<>> /\ purges[EndpointOf(d)] = 0
    BY Pairs DEF Init
  <2>2. \A w \in Workers : ~Carries(w, d)
    BY <1>2, IdleType, Pairs DEF Carries
  <2>3. \A id \in JobIds : ~Queued(d, id)
    BY JobTypes DEF Init, Queued
  <2>4. HistoryOK(d) /\ CountOK(d)
    BY <2>1, Limits DEF HistoryOK, CountOK
  <2>5. RowOK(d)
    BY <2>1, NewRowType, Limits DEF RowOK
  <2> QED BY <2>2, <2>3, <2>4, <2>5 DEF ChainOK
<1>4. \A v \in Events : FanoutOK(v)
  BY JobTypes DEF Init, FanoutOK
<1>5. ASSUME NEW w \in Workers PROVE TaskOK(w)
  BY <1>2, IdleType, Pairs DEF TaskOK, PlaceOK, RowReadOK, FanoutTaskOK, AttemptPCs
<1>6. \A e \in steady : endpoint[e] = "subscribed"
  BY DEF Init
<1> QED BY <1>1, <1>3, <1>4, <1>5, <1>6 DEF IInv

LEMMA StutterOK ==
  ASSUME IInv, UNCHANGED vars
  PROVE  IInv'
<1>1. TypeOK' /\ FanoutKept /\ \A e \in steady' : endpoint'[e] = "subscribed"
  BY DEF IInv, TypeOK, FanoutKept, vars, history
<1> QED BY <1>1, OutsideStep DEF vars, history

LEMMA StepOK == IInv /\ [Next]_vars => IInv'
<1> SUFFICES ASSUME IInv, [Next]_vars PROVE IInv'
  OBVIOUS
<1>1. ASSUME NEW w \in Workers, Continue(w) PROVE IInv'
  <2>1. CASE \E e \in Endpoints : DeleteRows(w, e) \/ DeleteEndpoint(w, e)
    BY <2>1, DeleteRowsOK, DeleteEndpointOK
  <2> QED BY <1>1, <2>1, FindEndpointsOK, CreateDeliveryOK, FanoutDoneOK, EnqueueAttemptOK, LoadOK,
       FindEndpointOK, SendOK, RecordOK, MarkFailedOK, FinishOK, ResetOK, RowGoneOK DEF Continue
<1>2. ASSUME NEW w \in Workers, TakeJob(w) PROVE IInv'
  BY <1>2, TakeFanoutOK, TakeDeliverOK DEF TakeJob
<1>3. ASSUME NEW w \in Workers,
             \/ Reject(w) \/ Die(w) \/ Stall(w)
             \/ \E d \in Deliveries : RetryDelivery(w, d)
             \/ \E e \in Endpoints : RemoveEndpoint(w, e)
      PROVE  IInv'
  BY <1>3, RejectOK, DieOK, StallOK, RetryDeliveryOK, RemoveEndpointOK
<1> QED BY <1>1, <1>2, <1>3, DispatchEventOK, UpdateEndpointOK, StutterOK DEF Next

(* The inductive invariant, of every schedule of jobs, requests and faults. *)
THEOREM Invariance == Spec => []IInv
  BY InitOK, StepOK, PTL DEF Spec

(* Rows, jobs and tasks keep their types. *)
THEOREM TypeCorrect == Spec => []TypeOK
<1>1. IInv => TypeOK
  BY DEF IInv
<1> QED BY <1>1, Invariance, PTL

(* retryDelayMs: no schedule runs past its limit, and a delivery that is    *)
(* pending has attempts left, whatever runs beside it.                      *)
THEOREM ScheduleEndsHolds == Spec => []ScheduleEnds
<1>1. IInv => ScheduleEnds
  BY DEF IInv, RowOK, ScheduleEnds
<1> QED BY <1>1, Invariance, PTL

(* attemptDelivery: "delivered" is written for an answer of 2xx only. *)
THEOREM DeliveredWasAckedHolds == Spec => []DeliveredWasAcked
<1>1. IInv => DeliveredWasAcked
  BY DEF IInv, RowOK, DeliveredWasAcked
<1> QED BY <1>1, Invariance, PTL

(* attemptDelivery and createDelivery: nothing is sent after a 2xx or a     *)
(* final refusal, nor more often than the schedule says, however often the  *)
(* fan-out is replayed.                                                     *)
THEOREM NeverDoubleDeliversHolds == Spec => []NeverDoubleDelivers
<1>1. IInv => NeverDoubleDelivers
  BY DEF IInv, ChainOK, HistoryOK, NeverDoubleDelivers
<1> QED BY <1>1, Invariance, PTL

(* attemptDelivery: between updates the count of a row is the number of its *)
(* sends, but for the one an inactive endpoint was spared.                  *)
THEOREM CountIsAuthoritativeHolds == Spec => []CountIsAuthoritative
<1>1. IInv => CountIsAuthoritative
  BY DEF IInv, ChainOK, CountOK, CountIsAuthoritative
<1> QED BY <1>1, Invariance, PTL

(* enqueueDeliveries: a fan-out that completed, after any number of retries *)
(* and replays, missed no endpoint that was subscribed all the time.        *)
THEOREM FanoutIsCompleteHolds == Spec => []FanoutIsComplete
<1>1. IInv => FanoutIsComplete
  BY DEF IInv, FanoutOK, FanoutIsComplete
<1> QED BY <1>1, Invariance, PTL
=============================================================================
