----------------------------- MODULE Reconciler -----------------------------
(***************************************************************************)
(* ReconcilerService on the pods that serve the reconciler queue: the poll *)
(* of open payments, the delayed finality check of each confirmed payment  *)
(* and its bookkeeping, beside the merchant's cancel and the expiry cron.  *)
(* One action per await.  A transition is its load and its compare-and-set *)
(* (the rest of PaymentStateMachine is modelled there); the callers that   *)
(* have nothing to do afterwards take theirs in one step.  All payments    *)
(* belong to one customer.  linkMemo is unique, so an operation on the     *)
(* ledger speaks of one payment and its hash is never known to another.    *)
(***************************************************************************)
EXTENDS PaymentStatus, Sequences, Functions

CONSTANTS Payments,     \* rows of the payments collection
          Workers,      \* pods, each with one reconciler job at a time
          None,         \* no payment, no target, no customer
          MaxOps,       \* bound: operations on the ledger that carry a memo
          MaxAttempts,  \* attempts of a finality job
          Outages,      \* TRUE: Horizon may be unavailable
          Faults,       \* TRUE: database and queue calls may fail, pods die
          Stalls        \* TRUE: a live pod may lose the lock of its job

ASSUME NoneAssumption == None \notin Payments \cup Status
ASSUME BoundsAssumption == MaxOps \in Nat /\ MaxAttempts \in Nat \ {0}
ASSUME FlagsAssumption == {Outages, Faults, Stalls} \subseteq BOOLEAN

VARIABLES
  status,    \* Payment.status
  hash,      \* Payment.transactionHash: a position in ledger, or 0
  ledger,    \* what the operations with the payment's memo are worth
  overdue,   \* expiresAt is past
  link,      \* CheckoutLink.paymentTxHash
  finality,  \* the BullMQ job finality_<id>
  count,     \* what each payment added to Customer.paymentCount
  value,     \* how often its amount is in Customer.lifetimeValue
  lockLost,  \* history: whose finality job was taken from a live pod
  overlapped, \* history: payments whose pod was between the read and the write
             \* of the customer while another pod was
  worker     \* what each pod is doing

vars == <<status, hash, ledger, overdue, link, finality, count, value, lockLost, overlapped, worker>>

(* Worth of an operation: the seven checks of StellarVerifier, on records  *)
(* that carry the memo.  "wrong" is a wrong asset, issuer or amount.       *)
Worths == {"valid", "wrong", "late"}

NoJob == [state |-> "none", attempts |-> 0, stalled |-> FALSE]
Jobs == [state : {"none", "waiting", "active", "failed"},
         attempts : Nat, stalled : BOOLEAN]

Idle == [pc |-> "idle", job |-> "none", todo |-> {}, payment |-> None,
         to |-> None, seen |-> 0, read |-> None]

Polling(todo) == [Idle EXCEPT !.pc = "next", !.job = "poll", !.todo = todo]

(* A "zombie" runs a finality check whose job BullMQ has taken from it.    *)
Tasks == [pc : {"idle", "next", "horizon", "load", "cas", "syncLink", "enqueue",
                "find", "getTransaction", "readCustomer", "updateCustomer"},
          job : {"none", "poll", "finality", "zombie"},
          todo : SUBSET Payments, payment : Payments \cup {None},
          to : Targets \cup {None}, seen : Nat,
          read : [Payments -> Nat] \cup {None}]

TypeOK ==
  /\ status \in [Payments -> Status]
  /\ hash \in [Payments -> Nat]
  /\ ledger \in [Payments -> Seq(Worths)]
  /\ overdue \in [Payments -> BOOLEAN]
  /\ link \in [Payments -> Nat]
  /\ finality \in [Payments -> Jobs]
  /\ count \in [Payments -> Nat]
  /\ value \in [Payments -> Nat]
  /\ lockLost \subseteq Payments
  /\ overlapped \subseteq Payments
  /\ worker \in [Workers -> Tasks]

Init ==
  /\ status = [p \in Payments |-> "created"]
  /\ hash = [p \in Payments |-> 0]
  /\ ledger = [p \in Payments |-> <<>>]
  /\ overdue = [p \in Payments |-> FALSE]
  /\ link = [p \in Payments |-> 0]
  /\ finality = [p \in Payments |-> NoJob]
  /\ count = [p \in Payments |-> 0]
  /\ value = [p \in Payments |-> 0]
  /\ lockLost = {}
  /\ overlapped = {}
  /\ worker = [w \in Workers |-> Idle]

GoTo(w, pc) == worker' = [worker EXCEPT ![w].pc = pc]

Transition(w, to, seen) ==
  worker' = [worker EXCEPT ![w].pc = "load", ![w].to = to, ![w].seen = seen]

Open(p) == status[p] \in {"created", "pending"}

payments == <<status, hash>>
world == <<ledger, overdue, lockLost>>
totals == <<count, value, overlapped>>
books == <<link, totals>>

-----------------------------------------------------------------------------
(* The handler of a payment returns: the poll goes on, a finality job is   *)
(* removed (removeOnComplete) unless it was taken from the pod.            *)
Return(w) ==
  LET t == worker[w] IN
  IF t.job = "poll"
    THEN /\ worker' = [worker EXCEPT ![w] = Polling(t.todo)]
         /\ UNCHANGED finality
    ELSE /\ worker' = [worker EXCEPT ![w] = Idle]
         /\ finality' = IF t.job = "finality"
                          THEN [finality EXCEPT ![t.payment] = NoJob] ELSE finality

(* It throws: the poll is abandoned, a finality job is tried again until   *)
(* its attempts are used up.                                               *)
Throw(w) ==
  LET t == worker[w] IN
  /\ worker' = [worker EXCEPT ![w] = Idle]
  /\ finality' =
       IF t.job # "finality" THEN finality
       ELSE [finality EXCEPT ![t.payment] =
               [state |-> IF @.attempts + 1 < MaxAttempts THEN "waiting" ELSE "failed",
                attempts |-> @.attempts + 1, stalled |-> @.stalled]]

(* BullMQ finds the lock of an active job expired: the job goes back to    *)
(* the queue, the second time it fails (maxStalledCount).                  *)
Redelivered(p) ==
  [finality EXCEPT ![p] = [state |-> IF @.stalled THEN "failed" ELSE "waiting",
                           attempts |-> @.attempts, stalled |-> TRUE]]

-----------------------------------------------------------------------------
(* pollOpenPayments: one snapshot of the pending payments, worked off in a *)
(* loop.                                                                   *)
Poll(w) ==
  /\ worker[w].pc = "idle"
  /\ worker' = [worker EXCEPT ![w] = Polling({p \in Payments : status[p] = "pending"})]
  /\ UNCHANGED <<payments, world, books, finality>>

PollNext(w) ==
  LET t == worker[w] IN
  /\ t.pc = "next"
  /\ \/ t.todo = {} /\ worker' = [worker EXCEPT ![w] = Idle]
     \/ \E p \in t.todo :
          worker' = [worker EXCEPT ![w] =
            [t EXCEPT !.todo = @ \ {p}, !.payment = p,
                      !.pc = IF overdue[p] THEN "load" ELSE "horizon",
                      !.to = IF overdue[p] THEN "expired" ELSE None]]
  /\ UNCHANGED <<payments, world, books, finality>>

(* Mutant: the ledger close time is not compared with expiresAt. *)
VerdictAnyTime(worth) == IF worth = "wrong" THEN "failed" ELSE "confirmed"

(* What reconcilePayment does about the operation StellarVerifier found. *)
Verdict(worth) ==
  CASE worth = "valid" -> "confirmed"
    [] worth = "wrong" -> "failed"
    [] worth = "late"  -> "expired"

(* listPaymentsForAccount and verify: the newest operation with the memo   *)
(* decides, of those Horizon has ingested and could load; or there is none *)
(* (not yet, out of the lookback, or a refund that carries the memo).      *)
Horizon(w) ==
  LET p == worker[w].payment IN
  /\ worker[w].pc = "horizon"
  /\ \/ Return(w)
     \/ \E i \in 1..Len(ledger[p]) :
          Transition(w, Verdict(ledger[p][i]), i) /\ UNCHANGED finality
  /\ UNCHANGED <<payments, world, books>>

(* transition(): the load; a payment that has moved on throws, which every *)
(* caller takes for "skipped".                                             *)
Load(w) ==
  LET t == worker[w] IN
  /\ t.pc = "load"
  /\ IF status[t.payment] \in AllowedFrom[t.to]
       THEN GoTo(w, "cas") /\ UNCHANGED finality
       ELSE Return(w)
  /\ UNCHANGED <<payments, world, books>>

Succeed(w) ==
  IF worker[w].to \in {"confirmed", "completed"}
    THEN GoTo(w, "syncLink") /\ UNCHANGED finality
    ELSE Return(w)

(* Mutant: the update filters on the id only, the load has compared. *)
SetWithoutCompare(w) ==
  LET t == worker[w] IN
  /\ t.pc = "cas"
  /\ status' = [status EXCEPT ![t.payment] = t.to]
  /\ hash' = IF t.to = "confirmed" THEN [hash EXCEPT ![t.payment] = t.seen] ELSE hash
  /\ Succeed(w)
  /\ UNCHANGED <<world, books>>

(* transition(): the compare-and-set.  Who loses to another caller with    *)
(* the same target is told it succeeded.                                   *)
CompareAndSet(w) ==
  LET t == worker[w] p == t.payment IN
  /\ t.pc = "cas"
  /\ IF status[p] \in AllowedFrom[t.to]
       THEN /\ status' = [status EXCEPT ![p] = t.to]
            /\ hash' = IF t.to = "confirmed" THEN [hash EXCEPT ![p] = t.seen] ELSE hash
            /\ Succeed(w)
       ELSE /\ IF status[p] = t.to THEN Succeed(w) ELSE Return(w)
            /\ UNCHANGED payments
  /\ UNCHANGED <<world, books>>

AfterLink(to) == IF to = "confirmed" THEN "enqueue" ELSE "readCustomer"

(* Mutant: the link gets the transaction this pod found, not the one the   *)
(* payment was attributed.                                                 *)
SyncOwnFinding(w) ==
  LET t == worker[w] IN
  /\ t.pc = "syncLink"
  /\ link' = [link EXCEPT ![t.payment] = IF t.to = "confirmed" THEN t.seen ELSE hash[t.payment]]
  /\ GoTo(w, AfterLink(t.to))
  /\ UNCHANGED <<payments, world, finality, totals>>

SyncCheckoutLink(w) ==
  LET t == worker[w] IN
  /\ t.pc = "syncLink"
  /\ link' = [link EXCEPT ![t.payment] = hash[t.payment]]
  /\ GoTo(w, AfterLink(t.to))
  /\ UNCHANGED <<payments, world, finality, totals>>

Waiting == [NoJob EXCEPT !.state = "waiting"]

(* enqueueFinalityCheck: the jobId makes add() a no-op while a job of the  *)
(* payment is in the queue, a failed one included.                         *)
EnqueueFinalityCheck(w) ==
  LET t == worker[w] IN
  /\ t.pc = "enqueue"
  /\ finality' = IF finality[t.payment] = NoJob
                   THEN [finality EXCEPT ![t.payment] = Waiting] ELSE finality
  /\ worker' = [worker EXCEPT ![w] = Polling(t.todo)]
  /\ UNCHANGED <<payments, world, books>>

-----------------------------------------------------------------------------
(* finalizePayment *)
Finalize(w, p) ==
  /\ worker[w].pc = "idle"
  /\ finality[p].state = "waiting"
  /\ finality' = [finality EXCEPT ![p].state = "active"]
  /\ worker' = [worker EXCEPT ![w] = [Idle EXCEPT !.pc = "find", !.job = "finality",
                                                  !.payment = p]]
  /\ UNCHANGED <<payments, world, books>>

Find(w) ==
  LET t == worker[w] IN
  /\ t.pc = "find"
  /\ IF status[t.payment] = "confirmed" /\ hash[t.payment] # 0
       THEN GoTo(w, "getTransaction") /\ UNCHANGED finality
       ELSE Return(w)
  /\ UNCHANGED <<payments, world, books>>

(* Mutant: a transaction Horizon does not know is left for later. *)
UnknownLeftForLater(w) ==
  /\ worker[w].pc = "getTransaction"
  /\ \/ Transition(w, "completed", 0) /\ UNCHANGED finality
     \/ Return(w)
  /\ UNCHANGED <<payments, world, books>>

(* The transaction is successful, or unknown (404) or unsuccessful.        *)
GetTransaction(w) ==
  /\ worker[w].pc = "getTransaction"
  /\ \E to \in {"completed", "failed"} : Transition(w, to, 0)
  /\ UNCHANGED <<payments, world, books, finality>>

(* Pods that have read the customer and not written it yet. *)
Updating == {w \in Workers : worker[w].pc = "updateCustomer"}

(* updateCustomerAggregates: lifetimeValue is added up by the pod, in a    *)
(* read and a write; paymentCount by the database.                         *)
ReadCustomer(w) ==
  /\ worker[w].pc = "readCustomer"
  /\ worker' = [worker EXCEPT ![w].pc = "updateCustomer", ![w].read = value]
  /\ overlapped' = overlapped \cup
       IF Updating = {} THEN {} ELSE {worker[v].payment : v \in Updating \cup {w}}
  /\ UNCHANGED <<payments, world, link, count, value, finality>>

(* Mutant: the update leaves paymentCount out. *)
UpdateValueOnly(w) ==
  LET t == worker[w] IN
  /\ t.pc = "updateCustomer"
  /\ value' = [t.read EXCEPT ![t.payment] = @ + 1]
  /\ Return(w)
  /\ UNCHANGED <<payments, world, link, count, overlapped>>

UpdateCustomer(w) ==
  LET t == worker[w] IN
  /\ t.pc = "updateCustomer"
  /\ count' = [count EXCEPT ![t.payment] = @ + 1]
  /\ value' = [t.read EXCEPT ![t.payment] = @ + 1]
  /\ Return(w)
  /\ UNCHANGED <<payments, world, link, overlapped>>

-----------------------------------------------------------------------------
(* Horizon is unavailable.  The poll skips the payment; the finality check *)
(* returns while the circuit breaker is open, and throws otherwise.        *)
HorizonUnavailable(w) ==
  /\ Outages
  /\ \/ worker[w].pc = "horizon" /\ Return(w)
     \/ worker[w].pc = "getTransaction" /\ (Return(w) \/ Throw(w))
  /\ UNCHANGED <<payments, world, books>>

(* An awaited database or queue call rejects.  (A write that is applied    *)
(* although its reply is lost is that step, and this one at the next await.)*)
Reject(w) ==
  /\ Faults
  /\ worker[w].pc \notin {"idle", "next"}
  /\ Throw(w)
  /\ UNCHANGED <<payments, world, books>>

(* The pod dies and comes back without its job. *)
Die(w) ==
  /\ Faults
  /\ worker[w].pc # "idle"
  /\ worker' = [worker EXCEPT ![w] = Idle]
  /\ finality' = IF worker[w].job = "finality" THEN Redelivered(worker[w].payment)
                                               ELSE finality
  /\ UNCHANGED <<payments, world, books>>

(* A pod too busy, or cut off from Redis, to renew the lock of its job. *)
Stall(w) ==
  /\ Stalls
  /\ worker[w].job = "finality"
  /\ finality' = Redelivered(worker[w].payment)
  /\ worker' = [worker EXCEPT ![w].job = "zombie"]
  /\ lockLost' = lockLost \cup {worker[w].payment}
  /\ UNCHANGED <<payments, ledger, overdue, books>>

-----------------------------------------------------------------------------
(* PaymentsService.create() and cancel(), and the expiry cron. *)
ToPending(p) ==
  /\ status[p] \in AllowedFrom["pending"]
  /\ status' = [status EXCEPT ![p] = "pending"]
  /\ UNCHANGED <<hash, world, books, finality, worker>>

Cancel(p) ==
  /\ status[p] \in AllowedFrom["canceled"]
  /\ status' = [status EXCEPT ![p] = "canceled"]
  /\ UNCHANGED <<hash, world, books, finality, worker>>

(* Mutant: the cron looks at pending payments only. *)
ExpirePendingOnly(p) ==
  /\ overdue[p] /\ status[p] = "pending"
  /\ status' = [status EXCEPT ![p] = "expired"]
  /\ UNCHANGED <<hash, world, books, finality, worker>>

ExpireOverdue(p) ==
  /\ overdue[p] /\ Open(p)
  /\ status' = [status EXCEPT ![p] = "expired"]
  /\ UNCHANGED <<hash, world, books, finality, worker>>

(* The customer pays with the memo of the link, and the clock runs. *)
Pay(p) ==
  /\ FoldFunction(LAMBDA ops, n : Len(ops) + n, 0, ledger) < MaxOps
  /\ \E worth \in {"wrong", IF overdue[p] THEN "late" ELSE "valid"} :
       ledger' = [ledger EXCEPT ![p] = Append(@, worth)]
  /\ UNCHANGED <<payments, overdue, lockLost, books, finality, worker>>

PassExpiry(p) ==
  /\ ~overdue[p]
  /\ overdue' = [overdue EXCEPT ![p] = TRUE]
  /\ UNCHANGED <<payments, ledger, lockLost, books, finality, worker>>

Step(w) == \/ PollNext(w) \/ Horizon(w) \/ Load(w) \/ CompareAndSet(w)
           \/ SyncCheckoutLink(w) \/ EnqueueFinalityCheck(w)
           \/ Find(w) \/ GetTransaction(w) \/ ReadCustomer(w) \/ UpdateCustomer(w)

Trouble(w) == HorizonUnavailable(w) \/ Reject(w) \/ Die(w) \/ Stall(w)

Next == \/ \E w \in Workers : Poll(w) \/ Step(w) \/ Trouble(w)
        \/ \E w \in Workers, p \in Payments : Finalize(w, p)
        \/ \E p \in Payments : \/ ToPending(p) \/ Cancel(p) \/ ExpireOverdue(p)
                              \/ Pay(p) \/ PassExpiry(p)

Spec == Init /\ [][Next]_vars

(* Awaits settle; the queue is first come, first served, so a waiting job   *)
(* is not overtaken for ever by polls; the expiry cron runs every minute.  *)
FairSpec ==
  /\ Spec
  /\ \A w \in Workers : WF_vars(Step(w))
  /\ \A p \in Payments : SF_vars(\E w \in Workers : Finalize(w, p))
  /\ \A p \in Payments : WF_vars(ExpireOverdue(p))

-----------------------------------------------------------------------------
(* The verdict was formed from an operation read long before the update:   *)
(* a payment is confirmed or completed only for an operation with the      *)
(* right asset and amount that was made in time, fails only for one that   *)
(* was wrong or after it was confirmed, and expires only when overdue.     *)
OutcomeIsGrounded ==
  \A p \in Payments :
    /\ status[p] \in {"confirmed", "completed"} => hash[p] # 0
    /\ hash[p] # 0 => ledger[p][hash[p]] = "valid"
    /\ status[p] = "failed" /\ hash[p] = 0 =>
         \E i \in 1..Len(ledger[p]) : ledger[p][i] = "wrong"
    /\ status[p] = "expired" => overdue[p] /\ hash[p] = 0

(* The page a customer sees as paid shows the transaction its payment was  *)
(* attributed, also when two pods found different transactions.            *)
LinkShowsTheAttribution ==
  \A p \in Payments :
    link[p] # 0 => /\ link[p] = hash[p]
                   /\ status[p] \in {"confirmed", "completed", "failed"}

(* A payment is counted for its customer only when it is completed, and    *)
(* once, through retries and crashes and however many pods confirmed it,   *)
(* as long as a pod that works on its finality check keeps the job's lock. *)
(* Its amount is in lifetimeValue as often as it is counted, unless the    *)
(* pod that added it was between its read and its write of the customer    *)
(* while another pod was: then one of the two amounts may be lost.         *)
CountedOnceUnderLock ==
  \A p \in Payments :
    /\ count[p] + value[p] > 0 => status[p] = "completed"
    /\ value[p] <= count[p]
    /\ p \notin overlapped => value[p] = count[p]
    /\ p \notin lockLost => count[p] <= 1

(* However pods, requests and the cron interleave, fail and repeat, what    *)
(* merchants and customers see changes as Settlement says, step by step.   *)
Contract == INSTANCE Settlement

SettlementSpec == Contract!Spec

(* A confirmed payment has its finality check ahead of it, or is still in  *)
(* the hands of the pod that confirmed or checks it: "Horizon unavailable: *)
(* Retry job with exponential backoff".                                    *)
FinalityAhead ==
  \A p \in Payments :
    status[p] = "confirmed" =>
      \/ finality[p].state \in {"waiting", "active"}
      \/ \E w \in Workers : /\ worker[w].payment = p
                           /\ worker[w].pc \in {"syncLink", "enqueue"}

(* When nothing fails, a confirmed payment settles in the end, ...         *)
ConfirmedSettles ==
  \A p \in Payments : status[p] = "confirmed" ~> status[p] \in {"completed", "failed"}

(* ... a completed one is counted once for its customer and shown on its   *)
(* link, although the pod works on its other payments in between; and its  *)
(* amount is in lifetimeValue, unless two pods updated the customer at     *)
(* once: a lost amount is never added again, ...                           *)
CompletedIsAccounted ==
  \A p \in Payments :
    status[p] = "completed" ~> /\ count[p] = 1 /\ link[p] = hash[p]
                               /\ p \in overlapped \/ value[p] = 1

(* ... and none stays open past its expiry, even one whose creation never  *)
(* came as far as pending.                                                 *)
OverdueCloses ==
  \A p \in Payments : overdue[p] ~> ~Open(p)
=============================================================================
