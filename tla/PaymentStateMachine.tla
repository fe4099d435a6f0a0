------------------------ MODULE PaymentStateMachine ------------------------
(***************************************************************************)
(* PaymentStateMachine.transition() and the EventsService.emit() it ends   *)
(* with, run by concurrent callers (request handlers, reconciler jobs, the *)
(* expiry cron, on any number of pods).  One action per await: what a call *)
(* has read may be stale at its next step.  The database's updateMany is   *)
(* atomic per document and the partial unique index on transactionHash is  *)
(* enforced by it.                                                         *)
(***************************************************************************)
EXTENDS PaymentStatus

CONSTANTS Payments,    \* rows of the payments collection
          Workers,     \* concurrent callers of the toX methods
          Hashes,      \* Stellar transaction hashes
          NoHash,      \* an unset transactionHash
          Interrupts   \* TRUE: a call may die, or its database call fail, at an await

ASSUME NoHashAssumption == NoHash \notin Hashes
ASSUME InterruptsAssumption == Interrupts \in BOOLEAN

VARIABLES
  status,           \* Payment.status
  transactionHash,  \* Payment.transactionHash
  entered,          \* history: the statuses each payment has been moved to; for
                    \* four of them it is also the presence of the field the
                    \* move writes (paidAt, completedAt, canceledAt, failureCode)
  events,           \* payment_events: its type and the status in its snapshot
  queued,           \* types whose webhook fan-out job reached the queue
  call              \* what each worker is doing

vars == <<status, transactionHash, entered, events, queued, call>>

Event == [type : Targets, seen : Targets]

Idle == [pc |-> "idle"]

(* pc is the next step of transition(), "returned" its normal end; a call   *)
(* that threw is Idle again.  seen is the status in the call's copy.       *)
Calls == [pc : {"update", "lost", "reload", "emit", "dispatch", "returned"},
          payment : Payments, to : Targets, hash : Hashes \cup {NoHash},
          seen : Status]

Active(w) == call[w].pc \in {"update", "lost", "reload", "emit", "dispatch"}

TypeOK ==
  /\ status \in [Payments -> Status]
  /\ transactionHash \in [Payments -> Hashes \cup {NoHash}]
  /\ entered \in [Payments -> SUBSET Targets]
  /\ events \in [Payments -> SUBSET Event]
  /\ queued \in [Payments -> SUBSET Targets]
  /\ call \in [Workers -> Calls \cup {Idle}]

Init ==
  /\ status = [p \in Payments |-> "created"]
  /\ transactionHash = [p \in Payments |-> NoHash]
  /\ entered = [p \in Payments |-> {}]
  /\ events = [p \in Payments |-> {}]
  /\ queued = [p \in Payments |-> {}]
  /\ call = [w \in Workers |-> Idle]

GoTo(w, pc) == call' = [call EXCEPT ![w].pc = pc]

Throw(w) == call' = [call EXCEPT ![w] = Idle]

(* The call reads the payment again: only its copy changes. *)
Reread(w, pc) ==
  call' = [call EXCEPT ![w].pc = pc, ![w].seen = status[call[w].payment]]

(* findUnique and the two checks that follow it.  A payment outside the    *)
(* from-states makes the call throw before it changed anything.            *)
Load(w, p, t, h) ==
  /\ ~Active(w)
  /\ status[p] \in AllowedFrom[t]
  /\ (h = NoHash) = (t # "confirmed")
  /\ call' = [call EXCEPT ![w] = [pc |-> "update", payment |-> p, to |-> t,
                                  hash |-> h, seen |-> status[p]]]
  /\ UNCHANGED <<status, transactionHash, entered, events, queued>>

(* Mutants: the update filters by id alone, or also accepts its own target. *)
UpdateByIdOnly(w) == TRUE
UpdateAlsoFromTarget(w) ==
  status[call[w].payment] \in AllowedFrom[call[w].to] \cup {call[w].to}

(* The guard of updateMany is evaluated again by the database. *)
StillAllowed(w) == status[call[w].payment] \in AllowedFrom[call[w].to]

(* Mutant: the partial unique index was not installed at startup. *)
NoUniqueIndex(p, h) == FALSE

HashTaken(p, h) == h # NoHash /\ \E q \in Payments \ {p} : transactionHash[q] = h

(* Mutant: the data of toConfirmed's update leaves the hash out. *)
UpdateStatusOnly(w) ==
  LET c == call[w] p == c.payment IN
  /\ c.pc = "update"
  /\ StillAllowed(w)
  /\ ~HashTaken(p, c.hash)
  /\ status' = [status EXCEPT ![p] = c.to]
  /\ entered' = [entered EXCEPT ![p] = @ \cup {c.to}]
  /\ GoTo(w, "reload")
  /\ UNCHANGED <<transactionHash, events, queued>>

UpdateMany(w) ==
  LET c == call[w] p == c.payment IN
  /\ c.pc = "update"
  /\ StillAllowed(w)
  /\ ~HashTaken(p, c.hash)
  /\ status' = [status EXCEPT ![p] = c.to]
  /\ transactionHash' = IF c.to = "confirmed"
                          THEN [transactionHash EXCEPT ![p] = c.hash]
                          ELSE transactionHash
  /\ entered' = [entered EXCEPT ![p] = @ \cup {c.to}]
  /\ GoTo(w, "reload")
  /\ UNCHANGED <<events, queued>>

(* The unique index refuses the update: P2002 leaves transition(). *)
UpdateConflict(w) ==
  /\ call[w].pc = "update"
  /\ StillAllowed(w)
  /\ HashTaken(call[w].payment, call[w].hash)
  /\ Throw(w)
  /\ UNCHANGED <<status, transactionHash, entered, events, queued>>

(* count = 0: another caller moved the payment after our load. *)
UpdateNothing(w) ==
  /\ call[w].pc = "update"
  /\ ~StillAllowed(w)
  /\ GoTo(w, "lost")
  /\ UNCHANGED <<status, transactionHash, entered, events, queued>>

(* Mutant: whatever the loser finds counts as a success. *)
LostIsSuccess(w) ==
  /\ call[w].pc = "lost"
  /\ Reread(w, "returned")
  /\ UNCHANGED <<status, transactionHash, entered, events, queued>>

(* The loser reloads: a payment already in the target state is a success.  *)
Lost(w) ==
  /\ call[w].pc = "lost"
  /\ IF status[call[w].payment] = call[w].to
       THEN Reread(w, "returned")
       ELSE Throw(w)
  /\ UNCHANGED <<status, transactionHash, entered, events, queued>>

(* Mutants: the copy read before the update is announced; a winner that     *)
(* finds the payment moved on by someone else gives up.                    *)
ReloadSkipped(w) ==
  /\ call[w].pc = "reload"
  /\ GoTo(w, "emit")
  /\ UNCHANGED <<status, transactionHash, entered, events, queued>>
ReloadMustAgree(w) ==
  /\ call[w].pc = "reload"
  /\ IF status[call[w].payment] = call[w].to THEN Reread(w, "emit") ELSE Throw(w)
  /\ UNCHANGED <<status, transactionHash, entered, events, queued>>

(* The winner reloads the record it is going to announce. *)
Reload(w) ==
  /\ call[w].pc = "reload"
  /\ Reread(w, "emit")
  /\ UNCHANGED <<status, transactionHash, entered, events, queued>>

HasEvent(p, t) == \E e \in events[p] : e.type = t

(* paymentEvent.create, under the unique index on (paymentId, type). *)
Emit(w) ==
  LET c == call[w] IN
  /\ c.pc = "emit"
  /\ IF HasEvent(c.payment, c.to)
       THEN Throw(w) /\ UNCHANGED events
       ELSE /\ events' = [events EXCEPT ![c.payment] =
                                 @ \cup {[type |-> c.to, seen |-> c.seen]}]
            /\ GoTo(w, "dispatch")
  /\ UNCHANGED <<status, transactionHash, entered, queued>>

(* dispatchWebhooks: a queue failure is swallowed. *)
Dispatch(w) ==
  LET c == call[w] IN
  /\ c.pc = "dispatch"
  /\ queued' \in {queued, [queued EXCEPT ![c.payment] = @ \cup {c.to}]}
  /\ GoTo(w, "returned")
  /\ UNCHANGED <<status, transactionHash, entered, events>>

(* The process dies, or the awaited database call rejects. *)
Interrupt(w) ==
  /\ Interrupts
  /\ Active(w)
  /\ Throw(w)
  /\ UNCHANGED <<status, transactionHash, entered, events, queued>>

Step(w) == \/ UpdateMany(w) \/ UpdateConflict(w) \/ UpdateNothing(w)
           \/ Lost(w) \/ Reload(w) \/ Emit(w) \/ Dispatch(w)

Next == \E w \in Workers :
          \/ \E p \in Payments, t \in Targets, h \in Hashes \cup {NoHash} :
               Load(w, p, t, h)
          \/ Step(w)
          \/ Interrupt(w)

Spec == Init /\ [][Next]_vars

(* Every await of a live process settles: the runtime resumes the call. *)
FairSpec == Spec /\ \A w \in Workers : WF_vars(Step(w))

-----------------------------------------------------------------------------
(* s is t, or a status a payment passes before t. *)
Behind(s, t) == s = t \/ Rank(s) < Rank(t)

(* A merchant is never told two outcomes of one payment, and is told only  *)
(* the one the payment ended in, however cancel, expiry, failure and       *)
(* completion race (toCanceled, toExpired, toFailed, toCompleted).         *)
OneOutcome ==
  \A p \in Payments : \A e \in events[p] :
    e.type \in Terminal => status[p] = e.type

(* A transaction is attributed exactly to the payments that were           *)
(* confirmed, so a payment canceled or expired while the reconciler was    *)
(* confirming it never holds the customer's transaction (toConfirmed).     *)
Attribution ==
  \A p \in Payments :
    /\ (transactionHash[p] # NoHash) <=> ("confirmed" \in entered[p])
    /\ status[p] \in {"created", "pending", "expired", "canceled"}
         => transactionHash[p] = NoHash

(* One transaction pays one payment. *)
HashesUnique ==
  \A p, q \in Payments :
    transactionHash[p] = transactionHash[q] => p = q \/ transactionHash[p] = NoHash

(* The winner of the compare-and-set is the only caller that will announce *)
(* the move, so the insert it has coming never meets the unique index on   *)
(* (paymentId, type) and never makes a successful transition throw.        *)
EmitNeverConflicts ==
  \A w \in Workers :
    call[w].pc \in {"reload", "emit"} => ~HasEvent(call[w].payment, call[w].to)

(* A caller that was told "done", as winner or as loser, was told so of a  *)
(* move that was really made, and holds a copy at the target or later.     *)
SuccessIsReal ==
  \A w \in Workers :
    call[w].pc = "returned" =>
      /\ call[w].to \in entered[call[w].payment]
      /\ Behind(call[w].to, call[w].seen)

(* The snapshot in an event is never older than the move it announces.     *)
SnapshotNotBehind ==
  \A p \in Payments : \A e \in events[p] :
    /\ e.type \in entered[p]
    /\ e.seen \in entered[p]
    /\ Behind(e.type, e.seen)

(* A payment that reached a terminal status stays there, transaction and   *)
(* all, and what was announced is never withdrawn or rewritten.            *)
TerminalIsFinal ==
  [][\A p \in Payments :
       /\ status[p] \in Terminal => /\ status'[p] = status[p]
                                    /\ transactionHash'[p] = transactionHash[p]
       /\ events[p] \subseteq events'[p]]_vars

(* Without interruptions every move is announced in the end, whoever else  *)
(* moves the payment on in the meantime.                                   *)
MovesAreAnnounced ==
  \A p \in Payments : \A t \in Targets : t \in entered[p] ~> HasEvent(p, t)

(* What every step preserves, and what the properties above follow from.   *)
(* A call past its update has really entered its target, its copy is not   *)
(* older than that, and it alone is about to announce it.                  *)
EnteredOK ==
  \A p \in Payments :
    /\ \A t \in entered[p] : Behind(t, status[p])
    /\ status[p] = "created" \/ status[p] \in entered[p]

CallsOK ==
  \A w \in Workers :
    LET c == call[w] IN
    /\ c.pc = "update" => (c.hash = NoHash) = (c.to # "confirmed")
    /\ c.pc \in {"reload", "emit", "dispatch", "returned"} =>
         c.to \in entered[c.payment]
    /\ c.pc \in {"emit", "dispatch", "returned"} =>
         /\ c.seen \in entered[c.payment]
         /\ Behind(c.to, c.seen)

OneAnnouncer ==
  \A v, w \in Workers :
    /\ call[v].pc \in {"reload", "emit"}
    /\ call[w].pc \in {"reload", "emit"}
    /\ call[v].payment = call[w].payment
    /\ call[v].to = call[w].to
    => v = w

IInv == /\ TypeOK
        /\ EnteredOK
        /\ Attribution
        /\ HashesUnique
        /\ SnapshotNotBehind
        /\ CallsOK
        /\ EmitNeverConflicts
        /\ OneAnnouncer

(* The code behaves as the atomic contract of PaymentLifecycle. *)
Announced == [p \in Payments |-> {e.type : e \in events[p]}]

Lifecycle == INSTANCE PaymentLifecycle WITH announced <- Announced

LifecycleSpec == Lifecycle!Spec
=============================================================================
