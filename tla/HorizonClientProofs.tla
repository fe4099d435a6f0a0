------------------------- MODULE HorizonClientProofs -------------------------
(***************************************************************************)
(* For any networks, payments, threshold, retries and timeout: a breaker   *)
(* is closed exactly while fewer calls than its threshold failed in a row, *)
(* and calls that start after that come a reset timeout apart.             *)
(***************************************************************************)
EXTENDS HorizonClient, TLAPS

CallPCs == {"request", "backoff", "memo", "memoBackoff"}
Breakers == [state : Circuit, failures : 0..FailureThreshold, age : 0..ResetTimeout]
Workers == [pc : {"idle", "next"} \cup CallPCs, kind : {"none", "list", "get"}, at : Nat,
            attempt : 0..MaxRetries]

(* The breaker counts what the history counts, and is open or half-open from the    *)
(* threshold on; it ages no faster than its failures; it is half-open exactly while *)
(* its probe is in flight, and no call is in flight while it is open.               *)
BreakerOK(n) ==
  /\ breaker[n].failures = streak[n]
  /\ breaker[n].state = "closed" <=> streak[n] < FailureThreshold
  /\ breaker[n].state = "open" => breaker[n].age <= quiet[n]
InFlightOK(n) ==
  /\ breaker[n].state = "half-open" => worker.pc \in CallPCs /\ Network = n
  /\ worker.pc \in CallPCs /\ Network = n => breaker[n].state # "open"
IInv == TypeOK /\ \A n \in Networks : BreakerOK(n) /\ InFlightOK(n)

LEMMA ConstantsOK ==
  /\ FailureThreshold \in Nat \ {0} /\ ResetTimeout \in Nat /\ MaxRetries \in Nat
  /\ Len(Pending) \in Nat /\ DOMAIN Pending = 1..Len(Pending) /\ 1 \in DOMAIN Pending
  /\ \A i \in DOMAIN Pending : NetworkOf[Pending[i]] \in Networks
<1>1. Len(Pending) \in Nat /\ DOMAIN Pending = 1..Len(Pending) /\ Len(Pending) # 0
  BY PendingAssumption
<1>2. \A i \in DOMAIN Pending : NetworkOf[Pending[i]] \in Networks
  BY NetworkAssumption DEF Payments
<1> QED BY <1>1, <1>2, BreakerAssumption

(* What the functions of the breaker return. *)
LEMMA HalfOpenResult ==
  ASSUME NEW b \in Breakers
  PROVE  /\ maybeHalfOpen(b) \in Breakers
         /\ maybeHalfOpen(b).failures = b.failures /\ maybeHalfOpen(b).age = b.age
         /\ maybeHalfOpen(b).state = IF b.state = "open" /\ b.age >= ResetTimeout
                                     THEN "half-open" ELSE b.state
  BY ConstantsOK DEF maybeHalfOpen, Breakers, Circuit

LEMMA SuccessResult ==
  ASSUME NEW b \in Breakers
  PROVE  /\ onSuccess(b) \in Breakers
         /\ onSuccess(b).state = "closed" /\ onSuccess(b).failures = 0
<1>1. 0 \in 0..FailureThreshold /\ "closed" \in Circuit
  BY ConstantsOK DEF Circuit
<1> QED BY <1>1 DEF onSuccess, Breakers

LEMMA FailureResult ==
  ASSUME NEW b \in Breakers, b.state # "closed" => b.failures = FailureThreshold
  PROVE  /\ onFailure(b) \in Breakers
         /\ onFailure(b).failures = UpTo(b.failures, FailureThreshold)
         /\ onFailure(b).state = "closed" \/ (onFailure(b).state = "open" /\ onFailure(b).age = 0)
         /\ onFailure(b).state = "closed" <=> onFailure(b).failures < FailureThreshold
<1>1. /\ b.failures \in 0..FailureThreshold /\ b.state \in Circuit /\ b.age \in 0..ResetTimeout
  BY DEF Breakers
<1> DEFINE f == UpTo(b.failures, FailureThreshold)
<1>2. f \in 0..FailureThreshold /\ f >= b.failures
  BY <1>1, ConstantsOK DEF UpTo
<1> HIDE DEF f
<1>3. CASE b.state = "half-open" \/ f >= FailureThreshold
  <2>1. onFailure(b) = [state |-> "open", failures |-> f, age |-> 0]
    BY <1>3 DEF onFailure, f
  <2>2. f = FailureThreshold
    BY <1>1, <1>2, <1>3, ConstantsOK
  <2>3. "open" \in Circuit /\ 0 \in 0..ResetTimeout /\ ~(f < FailureThreshold)
    BY <2>2, ConstantsOK DEF Circuit
  <2>4. [state |-> "open", failures |-> f, age |-> 0] \in Breakers
    BY <1>2, <2>3 DEF Breakers
  <2>5. /\ onFailure(b).state = "open" /\ onFailure(b).age = 0
        /\ onFailure(b).failures = f
    BY <2>1
  <2>6. ~(onFailure(b).failures < FailureThreshold) /\ onFailure(b) \in Breakers
    BY <2>1, <2>3, <2>4, <2>5
  <2> QED BY <2>5, <2>6 DEF f
<1>4. CASE ~(b.state = "half-open" \/ f >= FailureThreshold)
  <2>1. onFailure(b) = [b EXCEPT !.failures = f]
    BY <1>4 DEF onFailure, f
  <2>2. f < FailureThreshold /\ b.state = "closed"
    BY <1>1, <1>2, <1>4, ConstantsOK
  <2> QED BY <1>2, <2>1, <2>2 DEF Breakers, f
<1> QED BY <1>3, <1>4

LEMMA GoOnResult ==
  ASSUME NEW kind \in {"none", "list", "get"}, NEW at \in DOMAIN Pending
  PROVE  /\ GoOn(kind, at) \in Workers
         /\ GoOn(kind, at).pc \in {"idle", "next"}
         /\ GoOn(kind, at).pc # "idle" => GoOn(kind, at).at \in DOMAIN Pending
<1>1. at \in Nat /\ at + 1 \in Nat /\ (at < Len(Pending) => at + 1 \in DOMAIN Pending)
  BY ConstantsOK
<1>2. 0 \in Nat /\ 0 \in 0..MaxRetries
  BY ConstantsOK
<1>3. Idle \in Workers /\ [Idle EXCEPT !.pc = "next", !.at = at + 1] \in Workers
  BY <1>1, <1>2 DEF Idle, Workers
<1>4. CASE kind = "list" /\ at < Len(Pending)
  BY <1>1, <1>3, <1>4 DEF GoOn, Idle
<1>5. CASE ~(kind = "list" /\ at < Len(Pending))
  BY <1>3, <1>5 DEF GoOn, Idle
<1> QED BY <1>4, <1>5

-----------------------------------------------------------------------------
(* A call in flight that ends: it succeeds, or fails for good. *)

LEMMA InFlight ==
  ASSUME IInv, worker.pc \in CallPCs
  PROVE  /\ worker \in Workers /\ worker.at \in DOMAIN Pending /\ Network \in Networks
         /\ breaker \in [Networks -> Breakers] /\ breaker[Network] \in Breakers
         /\ breaker[Network].state # "open"
<1>1. worker \in Workers /\ breaker \in [Networks -> Breakers]
  BY DEF IInv, TypeOK, Workers, CallPCs, Breakers
<1>2. worker.at \in DOMAIN Pending
  BY DEF IInv, TypeOK, CallPCs
<1>3. Network \in Networks
  BY <1>2, ConstantsOK DEF Network, At
<1> QED BY <1>1, <1>2, <1>3 DEF IInv, InFlightOK

(* Where the worker starts no call, only the breaker of a call that ended changes. *)
LEMMA EndOK ==
  ASSUME IInv, worker.pc \in CallPCs, NEW b \in Breakers, NEW f \in 0..FailureThreshold,
         breaker' = [breaker EXCEPT ![Network] = b], streak' = [streak EXCEPT ![Network] = f],
         quiet' \in [Networks -> 0..ResetTimeout],
         \A n \in Networks : n # Network => quiet'[n] = quiet[n],
         b.state # "half-open", b.failures = f, b.state = "closed" <=> f < FailureThreshold,
         b.state = "open" => b.age = 0,
         worker' = GoOn(worker.kind, worker.at)
  PROVE  IInv'
<1>1. /\ worker \in Workers /\ worker.at \in DOMAIN Pending /\ Network \in Networks
      /\ breaker \in [Networks -> Breakers]
  BY InFlight
<1>2. /\ worker' \in Workers /\ worker'.pc \in {"idle", "next"}
      /\ worker'.pc # "idle" => worker'.at \in DOMAIN Pending
  BY <1>1, GoOnResult DEF Workers
<1>3. streak \in [Networks -> 0..FailureThreshold]
  BY DEF IInv, TypeOK
<1>4. breaker' \in [Networks -> Breakers] /\ streak' \in [Networks -> 0..FailureThreshold]
  BY <1>1, <1>3
<1>5. TypeOK'
  BY <1>2, <1>4 DEF TypeOK, Breakers, Workers, CallPCs
<1>6. breaker'[Network] = b /\ streak'[Network] = f
  BY <1>1, <1>3
<1>7. \A n \in Networks : n # Network => breaker'[n] = breaker[n] /\ streak'[n] = streak[n]
  BY <1>1, <1>3
<1>8. quiet'[Network] >= 0
  BY <1>1, ConstantsOK
<1>9. ASSUME NEW n \in Networks PROVE BreakerOK(n)'
  <2>1. CASE n = Network
    BY <1>6, <1>8, <2>1 DEF BreakerOK
  <2>2. CASE n # Network
    BY <1>7, <2>2 DEF BreakerOK, IInv
  <2> QED BY <2>1, <2>2
<1>10. ASSUME NEW n \in Networks PROVE InFlightOK(n)'
  <2>1. worker'.pc \notin CallPCs
    BY <1>2 DEF CallPCs
  <2>2. breaker'[n].state # "half-open"
    <3>1. CASE n = Network
      BY <1>6, <3>1
    <3>2. CASE n # Network
      BY <1>7, <3>2 DEF IInv, InFlightOK
    <3> QED BY <3>1, <3>2
  <2> QED BY <2>1, <2>2 DEF InFlightOK
<1> QED BY <1>5, <1>9, <1>10 DEF IInv

LEMMA SucceedOK ==
  ASSUME IInv, worker.pc \in CallPCs, Succeed
  PROVE  IInv'
<1>1. breaker[Network] \in Breakers /\ Network \in Networks /\ breaker \in [Networks -> Breakers]
  BY InFlight
<1> DEFINE b == onSuccess(breaker[Network])
<1>2. b \in Breakers /\ b.state = "closed" /\ b.failures = 0
  BY <1>1, SuccessResult
<1>3. /\ breaker' = [breaker EXCEPT ![Network] = b]
      /\ streak' = [streak EXCEPT ![Network] = 0]
      /\ worker' = GoOn(worker.kind, worker.at) /\ quiet' = quiet
  BY DEF Succeed
<1> HIDE DEF b
<1>4. 0 \in 0..FailureThreshold /\ 0 < FailureThreshold
  BY ConstantsOK
<1>5. quiet \in [Networks -> 0..ResetTimeout]
  BY DEF IInv, TypeOK
<1> QED BY <1>2, <1>3, <1>4, <1>5, EndOK

LEMMA FailOK ==
  ASSUME IInv, worker.pc \in CallPCs, NEW result, Fail(result)
  PROVE  IInv'
<1>1. /\ breaker[Network] \in Breakers /\ Network \in Networks
      /\ breaker \in [Networks -> Breakers]
  BY InFlight
<1>2. /\ breaker[Network].failures = streak[Network]
      /\ breaker[Network].state = "closed" <=> streak[Network] < FailureThreshold
      /\ streak[Network] \in 0..FailureThreshold
  BY <1>1 DEF IInv, BreakerOK, TypeOK
<1>3. breaker[Network].state # "closed" => breaker[Network].failures = FailureThreshold
  BY <1>2, ConstantsOK
<1> DEFINE b == onFailure(breaker[Network])
           f == UpTo(streak[Network], FailureThreshold)
<1>4. /\ b \in Breakers /\ b.failures = f
      /\ b.state = "closed" \/ (b.state = "open" /\ b.age = 0)
      /\ b.state = "closed" <=> f < FailureThreshold
  BY <1>1, <1>2, <1>3, FailureResult
<1>5. f \in 0..FailureThreshold
  BY <1>2, ConstantsOK DEF UpTo
<1>6. /\ breaker' = [breaker EXCEPT ![Network] = b]
      /\ streak' = [streak EXCEPT ![Network] = f]
      /\ worker' = GoOn(worker.kind, worker.at)
      /\ quiet' = [quiet EXCEPT ![Network] = 0]
  BY DEF Fail
<1> HIDE DEF b, f
<1>7. /\ quiet' \in [Networks -> 0..ResetTimeout]
      /\ \A n \in Networks : n # Network => quiet'[n] = quiet[n]
  <2>1. quiet \in [Networks -> 0..ResetTimeout] /\ 0 \in 0..ResetTimeout
    BY ConstantsOK DEF IInv, TypeOK
  <2> QED BY <1>1, <1>6, <2>1
<1> QED BY <1>4, <1>5, <1>6, <1>7, EndOK

(* The call goes on: another attempt, a delay, or the memo. *)
LEMMA GoesOnOK ==
  ASSUME IInv, worker.pc \in CallPCs, NEW p \in CallPCs, NEW a \in 0..MaxRetries,
         worker' = [worker EXCEPT !.pc = p, !.attempt = a],
         UNCHANGED <<breaker, streak, quiet>>
  PROVE  IInv'
<1>1. worker \in Workers /\ worker.at \in DOMAIN Pending
  BY InFlight
<1>2. worker' \in Workers /\ worker'.pc = p /\ worker'.at = worker.at
  BY <1>1 DEF Workers
<1>3. TypeOK'
  BY <1>1, <1>2 DEF IInv, TypeOK, Workers, CallPCs
<1>4. Network' = Network
  BY <1>2 DEF Network, At
<1>5. \A n \in Networks : BreakerOK(n)' /\ InFlightOK(n)'
  BY <1>2, <1>4 DEF IInv, BreakerOK, InFlightOK
<1> QED BY <1>3, <1>5 DEF IInv

-----------------------------------------------------------------------------
(* A call begins, or is refused while the breaker is open. *)
LEMMA ExecOK ==
  ASSUME IInv, worker.pc \in {"idle", "next"}, NEW kind \in {"list", "get"},
         NEW at \in DOMAIN Pending, Exec(kind, at), UNCHANGED history
  PROVE  /\ IInv'
         /\ worker'.pc = "request"
              => LET n == NetworkOf[Pending[worker'.at]]
                 IN streak[n] < FailureThreshold \/ quiet[n] >= ResetTimeout
<1> DEFINE n == NetworkOf[Pending[at]]
           b == maybeHalfOpen(breaker[n])
<1>1. /\ n \in Networks /\ breaker \in [Networks -> Breakers] /\ breaker[n] \in Breakers
      /\ quiet \in [Networks -> 0..ResetTimeout] /\ quiet' = quiet /\ streak' = streak
  BY ConstantsOK DEF IInv, TypeOK, Breakers, history
<1>2. /\ b \in Breakers /\ b.failures = breaker[n].failures /\ b.age = breaker[n].age
      /\ b.state = IF breaker[n].state = "open" /\ breaker[n].age >= ResetTimeout
                   THEN "half-open" ELSE breaker[n].state
  BY <1>1, HalfOpenResult
<1>3. /\ BreakerOK(n) /\ breaker[n].state # "half-open"
      /\ \A m \in Networks : breaker[m].state # "half-open"
  BY <1>1 DEF IInv, InFlightOK, CallPCs
<1>4. CASE b.state = "open"
  <2>1. worker' = GoOn(kind, at) /\ breaker' = breaker
    BY <1>4 DEF Exec
  <2>2. /\ worker' \in Workers /\ worker'.pc \in {"idle", "next"}
        /\ worker'.pc # "idle" => worker'.at \in DOMAIN Pending
    BY <2>1, GoOnResult
  <2>3. TypeOK'
    BY <1>1, <2>1, <2>2 DEF IInv, TypeOK, Workers, CallPCs
  <2>4. \A m \in Networks : BreakerOK(m)' /\ InFlightOK(m)'
    BY <1>1, <1>3, <2>1, <2>2 DEF IInv, BreakerOK, InFlightOK, CallPCs
  <2> QED BY <2>2, <2>3, <2>4 DEF IInv
<1>5. CASE b.state # "open"
  <2>1. /\ breaker' = [breaker EXCEPT ![n] = b]
        /\ worker' = [pc |-> "request", kind |-> kind, at |-> at, attempt |-> 0]
    BY <1>5 DEF Exec
  <2> HIDE DEF b
  <2>2. /\ breaker' \in [Networks -> Breakers] /\ breaker'[n] = b
        /\ \A m \in Networks : m # n => breaker'[m] = breaker[m]
    BY <1>1, <1>2, <2>1
  <2>3. worker' \in Workers /\ worker'.pc = "request" /\ worker'.at = at
    BY <2>1, ConstantsOK DEF Workers, CallPCs
  <2>4. Network' = n
    BY <2>3 DEF Network, At
  <2>5. TypeOK'
    BY <1>1, <2>2, <2>3 DEF IInv, TypeOK, Breakers, Workers, CallPCs
  <2>6. ASSUME NEW m \in Networks PROVE BreakerOK(m)' /\ InFlightOK(m)'
    <3>1. CASE m = n
      <4>1. /\ breaker'[m].state = b.state /\ breaker'[m].failures = breaker[n].failures
            /\ streak'[m] = streak[n] /\ quiet'[m] = quiet[n]
        BY <1>1, <1>2, <2>2, <3>1
      <4>2. b.state = "closed" <=> breaker[n].state = "closed"
        BY <1>2, <1>3, <1>5
      <4>3. BreakerOK(m)'
        BY <1>3, <1>5, <4>1, <4>2 DEF BreakerOK
      <4>4. InFlightOK(m)'
        BY <1>5, <2>3, <2>4, <3>1, <4>1 DEF InFlightOK, CallPCs
      <4> QED BY <4>3, <4>4
    <3>2. CASE m # n
      BY <1>1, <1>3, <2>2, <2>3, <2>4, <3>2 DEF IInv, BreakerOK, InFlightOK, CallPCs
    <3> QED BY <3>1, <3>2
  <2>7. streak[n] < FailureThreshold \/ quiet[n] >= ResetTimeout
    <3>1. breaker[n].age \in Nat /\ quiet[n] \in Nat /\ breaker[n].state \in Circuit
      BY <1>1, ConstantsOK DEF Breakers
    <3> QED BY <1>2, <1>3, <1>5, <3>1, ConstantsOK DEF BreakerOK, Circuit
  <2> QED BY <2>3, <2>5, <2>6, <2>7 DEF IInv
<1> QED BY <1>4, <1>5

LEMMA TickOK ==
  ASSUME IInv, Tick
  PROVE  IInv'
<1>1. /\ breaker \in [Networks -> Breakers] /\ quiet \in [Networks -> 0..ResetTimeout]
  BY DEF IInv, TypeOK, Breakers
<1>2. /\ UNCHANGED <<worker, streak>>
      /\ breaker' = [n \in Networks |->
                       IF breaker[n].state = "open"
                       THEN [breaker[n] EXCEPT !.age = UpTo(@, ResetTimeout)] ELSE breaker[n]]
      /\ quiet' = [n \in Networks |-> UpTo(quiet[n], ResetTimeout)]
  BY DEF Tick
<1>3. ASSUME NEW x \in 0..ResetTimeout PROVE UpTo(x, ResetTimeout) \in 0..ResetTimeout
  BY <1>3, ConstantsOK DEF UpTo
<1>4. ASSUME NEW n \in Networks
      PROVE  /\ breaker'[n] \in Breakers /\ breaker'[n].state = breaker[n].state
             /\ breaker'[n].failures = breaker[n].failures
             /\ breaker[n].state = "open" => breaker'[n].age = UpTo(breaker[n].age, ResetTimeout)
             /\ quiet'[n] = UpTo(quiet[n], ResetTimeout) /\ quiet'[n] \in 0..ResetTimeout
  <2>1. breaker[n] \in Breakers /\ quiet[n] \in 0..ResetTimeout
    BY <1>1
  <2>2. UpTo(breaker[n].age, ResetTimeout) \in 0..ResetTimeout
    BY <1>3, <2>1 DEF Breakers
  <2>3. [breaker[n] EXCEPT !.age = UpTo(breaker[n].age, ResetTimeout)] \in Breakers
    BY <2>1, <2>2 DEF Breakers
  <2>4. breaker'[n] = IF breaker[n].state = "open"
                      THEN [breaker[n] EXCEPT !.age = UpTo(breaker[n].age, ResetTimeout)]
                      ELSE breaker[n]
    BY <1>2
  <2> QED BY <1>2, <1>3, <2>1, <2>3, <2>4 DEF Breakers
<1>5. TypeOK'
  <2>1. breaker' \in [Networks -> Breakers] /\ quiet' \in [Networks -> 0..ResetTimeout]
    BY <1>2, <1>4
  <2> QED BY <1>2, <2>1 DEF IInv, TypeOK, Breakers
<1>6. ASSUME NEW n \in Networks PROVE BreakerOK(n)'
  <2>1. breaker[n].age \in 0..ResetTimeout /\ quiet[n] \in 0..ResetTimeout
    BY <1>1 DEF Breakers
  <2>2. breaker[n].age <= quiet[n]
          => UpTo(breaker[n].age, ResetTimeout) <= UpTo(quiet[n], ResetTimeout)
    BY <2>1, ConstantsOK DEF UpTo
  <2> QED BY <1>2, <1>4, <2>2 DEF IInv, BreakerOK
<1>7. ASSUME NEW n \in Networks PROVE InFlightOK(n)'
  <2>1. Network' = Network
    BY <1>2 DEF Network, At
  <2> QED BY <1>2, <1>4, <2>1 DEF IInv, InFlightOK
<1> QED BY <1>5, <1>6, <1>7 DEF IInv

(* Steps that leave breakers, streaks and the call in flight alone. *)
LEMMA AsideOK ==
  ASSUME IInv, UNCHANGED <<breaker, worker, streak, quiet>>
  PROVE  IInv'
<1>1. TypeOK' /\ Network' = Network
  BY DEF IInv, TypeOK, Network, At
<1> QED BY <1>1 DEF IInv, BreakerOK, InFlightOK

LEMMA TakePollOK ==
  ASSUME IInv, TakePoll
  PROVE  IInv'
<1>1. /\ worker' = [Idle EXCEPT !.pc = "next", !.at = 1] /\ worker.pc = "idle"
      /\ UNCHANGED <<breaker, streak, quiet>>
  BY DEF TakePoll, history
<1>2. worker' \in Workers /\ worker'.pc = "next" /\ worker'.at \in DOMAIN Pending
  <2>1. 0 \in 0..MaxRetries
    BY ConstantsOK
  <2> QED BY <1>1, <2>1, ConstantsOK DEF Idle, Workers
<1>3. TypeOK'
  BY <1>1, <1>2 DEF IInv, TypeOK, Workers, CallPCs
<1>4. \A n \in Networks : BreakerOK(n)' /\ InFlightOK(n)'
  BY <1>1, <1>2 DEF IInv, BreakerOK, InFlightOK, CallPCs
<1> QED BY <1>3, <1>4 DEF IInv

-----------------------------------------------------------------------------
(* Every step *)

(* A call that is retried goes on with one attempt more. *)
LEMMA RetryOK ==
  ASSUME IInv, worker.pc \in CallPCs, NEW p \in CallPCs, Retry(p)
  PROVE  IInv'
<1>1. worker.attempt \in 0..MaxRetries /\ worker.attempt < MaxRetries
  BY InFlight DEF Workers, Retry
<1>2. worker.attempt + 1 \in 0..MaxRetries
  BY <1>1, ConstantsOK
<1>3. /\ worker' = [worker EXCEPT !.pc = p, !.attempt = worker.attempt + 1]
      /\ UNCHANGED <<breaker, streak, quiet>>
  BY DEF Retry, history
<1> QED BY <1>2, <1>3, GoesOnOK

LEMMA BackoffOK ==
  ASSUME IInv, Backoff
  PROVE  IInv'
<1>1. /\ worker.pc \in CallPCs
      /\ \E p \in CallPCs : worker' = [worker EXCEPT !.pc = p]
      /\ UNCHANGED <<breaker, streak, quiet>>
  BY DEF Backoff, CallPCs, history
<1>2. PICK p \in CallPCs : worker' = [worker EXCEPT !.pc = p]
  BY <1>1
<1>3. worker \in Workers /\ worker.attempt \in 0..MaxRetries
  BY <1>1, InFlight DEF Workers
<1>4. worker' = [worker EXCEPT !.pc = p, !.attempt = worker.attempt]
  BY <1>2, <1>3 DEF Workers
<1> QED BY <1>1, <1>3, <1>4, GoesOnOK

(* The answers to a call in flight. *)
LEMMA AnswersOK ==
  ASSUME IInv, Answered \/ NotFound \/ Transient \/ MemoLoaded \/ MemoFails
  PROVE  IInv'
<1>1. CASE Answered
  <2>1. worker.pc \in CallPCs
    BY <1>1 DEF Answered, CallPCs
  <2>2. CASE Succeed
    BY <2>1, <2>2, SucceedOK
  <2>3. CASE /\ worker' = [worker EXCEPT !.pc = "memo", !.attempt = 0]
             /\ UNCHANGED <<breaker, last, history>>
    <3>1. "memo" \in CallPCs /\ 0 \in 0..MaxRetries /\ UNCHANGED <<breaker, streak, quiet>>
      BY <2>3, ConstantsOK DEF CallPCs, history
    <3> QED BY <2>1, <2>3, <3>1, GoesOnOK
  <2> QED BY <1>1, <2>2, <2>3 DEF Answered
<1>2. CASE NotFound
  <2>1. worker.pc \in CallPCs /\ Fail(IF worker.kind = "get" THEN "null" ELSE "error")
    BY <1>2 DEF NotFound, CallPCs
  <2> QED BY <2>1, FailOK
<1>3. CASE Transient
  <2>1. worker.pc \in CallPCs /\ (Retry("backoff") \/ Fail("error")) /\ "backoff" \in CallPCs
    BY <1>3 DEF Transient, CallPCs
  <2> QED BY <2>1, RetryOK, FailOK
<1>4. CASE MemoLoaded
  BY <1>4, SucceedOK DEF MemoLoaded, CallPCs
<1>5. CASE MemoFails
  <2>1. worker.pc \in CallPCs /\ (Retry("memoBackoff") \/ Succeed) /\ "memoBackoff" \in CallPCs
    BY <1>5 DEF MemoFails, CallPCs
  <2> QED BY <2>1, RetryOK, SucceedOK
<1> QED BY <1>1, <1>2, <1>3, <1>4, <1>5

(* The steps that begin a call, and when they do. *)
Begins == reconcilePayment \/ \E at \in DOMAIN Pending : finalizePayment(at)

LEMMA BeginsOK ==
  ASSUME IInv, Begins
  PROVE  /\ IInv'
         /\ worker'.pc = "request"
              => LET n == NetworkOf[Pending[worker'.at]]
                 IN streak[n] < FailureThreshold \/ quiet[n] >= ResetTimeout
<1>1. CASE reconcilePayment
  <2>1. /\ worker.pc \in {"idle", "next"} /\ worker.at \in DOMAIN Pending
        /\ Exec("list", worker.at) /\ UNCHANGED history
    BY <1>1 DEF IInv, TypeOK, reconcilePayment, history
  <2> QED BY <2>1, ExecOK
<1>2. CASE \E at \in DOMAIN Pending : finalizePayment(at)
  <2>1. PICK at \in DOMAIN Pending : finalizePayment(at)
    BY <1>2
  <2>2. worker.pc \in {"idle", "next"} /\ Exec("get", at) /\ UNCHANGED history
    BY <2>1 DEF finalizePayment, history
  <2> QED BY <2>2, ExecOK
<1> QED BY <1>1, <1>2 DEF Begins

LEMMA InitOK == Init => IInv
<1> SUFFICES ASSUME Init PROVE IInv
  OBVIOUS
<1>1. 0 \in 0..FailureThreshold /\ 0 \in 0..ResetTimeout /\ 0 \in 0..MaxRetries /\ 0 < FailureThreshold
  BY ConstantsOK
<1>2. Closed \in Breakers /\ Idle \in Workers
  BY <1>1 DEF Closed, Breakers, Circuit, Idle, Workers
<1>3. TypeOK
  BY <1>1, <1>2 DEF Init, TypeOK, Breakers, Workers, CallPCs, Idle
<1>4. \A n \in Networks : BreakerOK(n) /\ InFlightOK(n)
  BY <1>1 DEF Init, BreakerOK, InFlightOK, Closed, Idle, CallPCs
<1> QED BY <1>3, <1>4 DEF IInv

LEMMA StepOK == IInv /\ [Next]_vars => IInv'
<1> SUFFICES ASSUME IInv, [Next]_vars PROVE IInv'
  OBVIOUS
<1>1. CASE TakePoll
  BY <1>1, TakePollOK
<1>2. CASE Begins
  BY <1>2, BeginsOK
<1>3. CASE Answered \/ NotFound \/ Transient \/ MemoLoaded \/ MemoFails
  BY <1>3, AnswersOK
<1>4. CASE Backoff
  BY <1>4, BackoffOK
<1>5. CASE Tick
  BY <1>5, TickOK
<1>6. CASE \E n \in Networks : Degrade(n) \/ Recover(n)
  BY <1>6, AsideOK DEF Degrade, Recover, history
<1>7. CASE UNCHANGED vars
  BY <1>7, AsideOK DEF vars
<1> QED BY <1>1, <1>2, <1>3, <1>4, <1>5, <1>6, <1>7 DEF Next, Call, Begins

-----------------------------------------------------------------------------
(* The theorems *)

(* The breakers count the failed calls, and are half-open only while they probe. *)
THEOREM Invariance == Spec => []IInv
  BY InitOK, StepOK, PTL DEF Spec

(* Breakers, the worker and the histories keep their types. *)
THEOREM TypeCorrect == Spec => []TypeOK
<1>1. IInv => TypeOK
  BY DEF IInv
<1> QED BY Invariance, <1>1, PTL

(* Whatever probes, late clocks and 404s come in between, a breaker of the pod is *)
(* closed exactly while fewer calls than its threshold failed in a row.           *)
THEOREM ThresholdDecidesHolds == Spec => []ThresholdDecides
<1>1. IInv => ThresholdDecides
  BY DEF IInv, BreakerOK, ThresholdDecides
<1> QED BY Invariance, <1>1, PTL

(* exec() lets no call start within a reset timeout of the last failure of a streak *)
(* that opened the breaker.                                                         *)
THEOREM ProbesAreSpacedHolds == Spec => ProbesAreSpaced
<1> DEFINE A == \A n \in Networks :
                  Starts(n) => streak[n] < FailureThreshold \/ quiet[n] >= ResetTimeout
<1>1. IInv /\ [Next]_vars => [A]_vars
  <2> SUFFICES ASSUME IInv, Next, NEW n \in Networks, Starts(n)
               PROVE  streak[n] < FailureThreshold \/ quiet[n] >= ResetTimeout
    OBVIOUS
  <2>1. /\ worker.pc \in {"idle", "next"} /\ worker'.pc = "request" /\ worker' # worker
        /\ NetworkOf[Pending[worker'.at]] = n
    BY DEF Starts
  <2>2. ~(Answered \/ NotFound \/ Transient \/ MemoLoaded \/ MemoFails \/ Backoff)
    BY <2>1 DEF Answered, NotFound, Transient, MemoLoaded, MemoFails, Backoff
  <2>3. ~TakePoll
    BY <2>1 DEF TakePoll, Idle
  <2>4. ~Tick /\ ~\E m \in Networks : Degrade(m) \/ Recover(m)
    BY <2>1 DEF Tick, Degrade, Recover
  <2>5. Begins
    BY <2>2, <2>3, <2>4 DEF Next, Call, Begins
  <2> QED BY <2>1, <2>5, BeginsOK
<1> QED BY Invariance, <1>1, PTL DEF Spec, ProbesAreSpaced
=============================================================================
