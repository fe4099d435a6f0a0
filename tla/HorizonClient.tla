---------------------------- MODULE HorizonClient ----------------------------
(***************************************************************************)
(* StellarHorizonService of one pod, with its CircuitBreakers and the only *)
(* caller they have: the reconciler worker (concurrency 1), which polls    *)
(* the pending payments oldest first and runs finality checks in between.  *)
(* Breakers live in the memory of the pod, one per network.                *)
(***************************************************************************)
EXTENDS Naturals, Sequences

CONSTANTS
    Networks,          \* "test" and "live": one Horizon server and breaker each
    Pending,           \* the pending payments, oldest first
    NetworkOf,         \* [payment -> network]
    Funded,            \* payments whose destination account exists on its network
    FailureThreshold,  \* failed calls in a row that open a breaker (5)
    MaxRetries,        \* retries of one request (3)
    ResetTimeout,      \* ticks a breaker stays open (30 s)
    MaxFinality,       \* bound: finality checks beside the polls
    MaxOutages         \* bound: how often a Horizon node degrades

Payments == {Pending[i] : i \in DOMAIN Pending}

(* A poll that finds no payment asks nobody. *)
ASSUME PendingAssumption == Pending \in Seq(Payments) /\ Pending # <<>>
ASSUME NetworkAssumption == NetworkOf \in [Payments -> Networks]
ASSUME BreakerAssumption == /\ FailureThreshold \in Nat \ {0}
                            /\ ResetTimeout \in Nat
                            /\ MaxRetries \in Nat

VARIABLES
    breaker,   \* network -> state, failures, ticks since openedAt
    worker,    \* the call in flight: pc, its payment and its attempt
    last,      \* the last call to have ended: its payment and what it returned
    degraded,  \* network -> does Horizon time out, answer 5xx or 429?
    budget,    \* outages and finality checks that may still come
    \* history, read by properties only
    streak,    \* network -> calls that failed since one succeeded
    quiet      \* network -> ticks since a call failed

vars == <<breaker, worker, last, degraded, budget, streak, quiet>>
history == <<streak, quiet>>

Circuit == {"closed", "open", "half-open"}
Closed == [state |-> "closed", failures |-> 0, age |-> 0]
Idle == [pc |-> "idle", kind |-> "none", at |-> 0, attempt |-> 0]

(* Counters and clocks stop where no comparison can tell them from larger ones. *)
UpTo(n, max) == IF n < max THEN n + 1 ELSE max

TypeOK ==
    /\ breaker \in [Networks -> [state : Circuit, failures : 0..FailureThreshold,
                                 age : 0..ResetTimeout]]
    /\ worker \in [pc : {"idle", "next", "request", "backoff", "memo", "memoBackoff"},
                   kind : {"none", "list", "get"}, at : Nat, attempt : 0..MaxRetries]
    /\ worker.pc # "idle" => worker.at \in DOMAIN Pending
    /\ streak \in [Networks -> 0..FailureThreshold]
    /\ quiet \in [Networks -> 0..ResetTimeout]

Init ==
    /\ breaker = [n \in Networks |-> Closed]
    /\ worker = Idle
    /\ last = [at |-> 0, result |-> "none"]
    /\ degraded = [n \in Networks |-> FALSE]
    /\ budget = [outages |-> MaxOutages, finality |-> MaxFinality]
    /\ streak = [n \in Networks |-> 0]
    /\ quiet = [n \in Networks |-> 0]

At == Pending[worker.at]
Network == NetworkOf[At]

-----------------------------------------------------------------------------
(* CircuitBreaker: a function from the breaker before to the breaker after *)

maybeHalfOpen(b) ==
    IF b.state = "open" /\ b.age >= ResetTimeout THEN [b EXCEPT !.state = "half-open"] ELSE b

(* Mutant: a success closes the breaker and forgets to reset the count. *)
onSuccessKeepsCount(b) == [b EXCEPT !.state = "closed"]

onSuccess(b) == [b EXCEPT !.failures = 0, !.state = "closed"]

(* Mutant: openedAt is set when the breaker leaves closed, not when a probe fails. *)
onFailureKeepsOpenedAt(b) ==
    LET failures == UpTo(b.failures, FailureThreshold) IN
    IF b.state = "half-open" \/ failures >= FailureThreshold
    THEN [b EXCEPT !.state = "open", !.failures = failures]
    ELSE [b EXCEPT !.failures = failures]

onFailure(b) ==
    LET failures == UpTo(b.failures, FailureThreshold) IN
    IF b.state = "half-open" \/ failures >= FailureThreshold
    THEN [state |-> "open", failures |-> failures, age |-> 0]
    ELSE [b EXCEPT !.failures = failures]

(* What the worker does when a call has ended: a poll goes on to the next payment. *)
GoOn(kind, at) ==
    IF kind = "list" /\ at < Len(Pending)
    THEN [Idle EXCEPT !.pc = "next", !.at = at + 1]
    ELSE Idle

(* exec() ends: the breaker learns the outcome and the caller gets the result. *)
Succeed ==
    /\ breaker' = [breaker EXCEPT ![Network] = onSuccess(@)]
    /\ streak' = [streak EXCEPT ![Network] = 0]
    /\ last' = [at |-> worker.at, result |-> "records"]
    /\ worker' = GoOn(worker.kind, worker.at)
    /\ UNCHANGED quiet

(* getTransaction translates a 404 into null, but exec() has counted it by then. *)
Fail(result) ==
    /\ breaker' = [breaker EXCEPT ![Network] = onFailure(@)]
    /\ streak' = [streak EXCEPT ![Network] = UpTo(@, FailureThreshold)]
    /\ quiet' = [quiet EXCEPT ![Network] = 0]
    /\ last' = [at |-> worker.at, result |-> result]
    /\ worker' = GoOn(worker.kind, worker.at)

(* Mutant: a pod keeps one breaker for both networks. *)
ExecShared(kind, at) ==
    LET n == NetworkOf[Pending[at]]
        b == maybeHalfOpen(breaker[n])
    IN IF b.state = "open" \/ \E m \in Networks : maybeHalfOpen(breaker[m]).state = "open"
       THEN /\ last' = [at |-> at, result |-> "unavailable"]
            /\ worker' = GoOn(kind, at)
            /\ UNCHANGED breaker
       ELSE /\ breaker' = [breaker EXCEPT ![n] = b]
            /\ worker' = [pc |-> "request", kind |-> kind, at |-> at, attempt |-> 0]
            /\ UNCHANGED last

(* exec(): refuse while the breaker is open, else send the request. *)
Exec(kind, at) ==
    LET n == NetworkOf[Pending[at]]
        b == maybeHalfOpen(breaker[n])
    IN IF b.state = "open"
       THEN /\ last' = [at |-> at, result |-> "unavailable"]
            /\ worker' = GoOn(kind, at)
            /\ UNCHANGED breaker
       ELSE /\ breaker' = [breaker EXCEPT ![n] = b]
            /\ worker' = [pc |-> "request", kind |-> kind, at |-> at, attempt |-> 0]
            /\ UNCHANGED last

-----------------------------------------------------------------------------
(* The worker *)

(* The poll job: its loop asks Horizon for one payment after the other. *)
TakePoll ==
    /\ worker.pc = "idle"
    /\ worker' = [Idle EXCEPT !.pc = "next", !.at = 1]
    /\ UNCHANGED <<breaker, last, degraded, budget, history>>

reconcilePayment ==
    /\ worker.pc = "next"
    /\ Exec("list", worker.at)
    /\ UNCHANGED <<degraded, budget, history>>

(* A finality job of a confirmed payment that polls no longer see. *)
finalizePayment(at) ==
    /\ worker.pc = "idle"
    /\ budget.finality > 0
    /\ budget' = [budget EXCEPT !.finality = @ - 1]
    /\ Exec("get", at)
    /\ UNCHANGED <<degraded, history>>

(* withRetry: a transient error is retried after a delay while attempts are left. *)
Retry(backoff) ==
    /\ worker.attempt < MaxRetries
    /\ worker' = [worker EXCEPT !.pc = backoff, !.attempt = @ + 1]
    /\ UNCHANGED <<breaker, last, history>>

Backoff ==
    /\ \/ worker.pc = "backoff" /\ worker' = [worker EXCEPT !.pc = "request"]
       \/ worker.pc = "memoBackoff" /\ worker' = [worker EXCEPT !.pc = "memo"]
    /\ UNCHANGED <<breaker, last, degraded, budget, history>>

(* The request of a call is answered. A list without a joined memo loads the transaction. *)
Answered ==
    /\ worker.pc = "request"
    /\ worker.kind = "list" => At \in Funded
    /\ \/ Succeed
       \/ /\ worker.kind = "list"
          /\ worker' = [worker EXCEPT !.pc = "memo", !.attempt = 0]
          /\ UNCHANGED <<breaker, last, history>>
    /\ UNCHANGED <<degraded, budget>>

(* Horizon answers 404: no such account, or no such transaction. Not retryable. *)
NotFound ==
    /\ worker.pc = "request"
    /\ worker.kind = "list" => At \notin Funded
    /\ Fail(IF worker.kind = "get" THEN "null" ELSE "error")
    /\ UNCHANGED <<degraded, budget>>

(* A timeout, a reset connection, 5xx or 429: the last attempt rejects the call. *)
Transient ==
    /\ worker.pc = "request"
    /\ degraded[Network]
    /\ IF worker.attempt < MaxRetries THEN Retry("backoff") ELSE Fail("error")
    /\ UNCHANGED <<degraded, budget>>

(* The memo of an operation is loaded, or not: then the operation is left out. *)
MemoLoaded ==
    /\ worker.pc = "memo"
    /\ Succeed
    /\ UNCHANGED <<degraded, budget>>

MemoFails ==
    /\ worker.pc = "memo"
    /\ degraded[Network]
    /\ IF worker.attempt < MaxRetries THEN Retry("memoBackoff") ELSE Succeed
    /\ UNCHANGED <<degraded, budget>>

-----------------------------------------------------------------------------
(* The environment *)

Tick ==
    /\ \/ \E n \in Networks : breaker[n].state = "open" /\ breaker[n].age < ResetTimeout
       \/ \E n \in Networks : quiet[n] < ResetTimeout
    /\ breaker' = [n \in Networks |->
                     IF breaker[n].state = "open"
                     THEN [breaker[n] EXCEPT !.age = UpTo(@, ResetTimeout)] ELSE breaker[n]]
    /\ quiet' = [n \in Networks |-> UpTo(quiet[n], ResetTimeout)]
    /\ UNCHANGED <<worker, last, degraded, budget, streak>>

Degrade(n) ==
    /\ ~degraded[n]
    /\ budget.outages > 0
    /\ budget' = [budget EXCEPT !.outages = @ - 1]
    /\ degraded' = [degraded EXCEPT ![n] = TRUE]
    /\ UNCHANGED <<breaker, worker, last, history>>

Recover(n) ==
    /\ degraded[n]
    /\ degraded' = [degraded EXCEPT ![n] = FALSE]
    /\ UNCHANGED <<breaker, worker, last, budget, history>>

Call == reconcilePayment \/ Answered \/ NotFound \/ Transient \/ MemoLoaded \/ MemoFails \/ Backoff

Next ==
    \/ TakePoll
    \/ Call
    \/ \E at \in DOMAIN Pending : finalizePayment(at)
    \/ Tick
    \/ \E n \in Networks : Degrade(n) \/ Recover(n)

(* A live worker's awaits settle, the poll is a 30 s scheduler, time passes. *)
Fairness == WF_vars(TakePoll) /\ WF_vars(Call) /\ WF_vars(Tick)

Spec == Init /\ [][Next]_vars
FairSpec == Spec /\ Fairness

-----------------------------------------------------------------------------
(* Properties *)

(* A breaker lets calls pass freely exactly while fewer than the threshold failed *)
(* in a row, whatever probes, late clocks and 404s came in between.               *)
ThresholdDecides ==
    \A n \in Networks : breaker[n].state = "closed" <=> streak[n] < FailureThreshold

(* A call that starts after a streak of failures comes a full reset timeout after *)
(* the last of them: a node that keeps failing gets one probe per timeout.        *)
Starts(n) == /\ worker.pc \in {"idle", "next"}
             /\ worker'.pc = "request"
             /\ NetworkOf[Pending[worker'.at]] = n
ProbesAreSpaced ==
    [][\A n \in Networks :
          Starts(n) => streak[n] < FailureThreshold \/ quiet[n] >= ResetTimeout]_vars

(* While Horizon answers and knows the accounts of a network, every payment of it *)
(* is asked about again and again, whatever happened before and whatever the      *)
(* other network does: its outages and 404s open another breaker.                 *)
Sound(n) == \A p \in Payments : NetworkOf[p] = n => p \in Funded
EveryPaymentIsAsked ==
    \A p \in Payments :
        Sound(NetworkOf[p]) /\ <>[](~degraded[NetworkOf[p]])
            => []<>(/\ last.at \in DOMAIN Pending
                    /\ Pending[last.at] = p
                    /\ last.result = "records")
=============================================================================
