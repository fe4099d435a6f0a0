-------------------------- MODULE PaymentCreation --------------------------
(***************************************************************************)
(* POST /v1/payments: PaymentsService.create() with the idempotency record *)
(* that guards it, one action per await, for concurrent requests (retries  *)
(* of one another when they carry the same key) of one merchant.  The move *)
(* to pending is an atomic step of the contract PaymentLifecycle, which    *)
(* PaymentStateMachine implements; the merchant and the expiry cron may    *)
(* close a payment as soon as its row exists.  The payment, the checkout   *)
(* link, the memo and the customer a request creates bear its name: their  *)
(* generated identifiers never collide.                                    *)
(***************************************************************************)
EXTENDS PaymentStatus

CONSTANTS Requests,    \* POST requests
          Keys,        \* Idempotency-Key values
          Emails,      \* values of customer_email
          NoEmail,     \* a request without customer_email
          Metadata,    \* values of the nested metadata object
          None,        \* no record, no payment, no customer
          Faults       \* TRUE: database calls may fail and processes die

ASSUME NoneAssumption == None \notin Requests \cup Status
ASSUME NoEmailAssumption == NoEmail \notin Emails
ASSUME FaultsAssumption == Faults \in BOOLEAN

VARIABLES
  sent,       \* the key and the body of each request
  pc,         \* the next await of each request
  records,    \* the idempotency record of each key
  customers,  \* rows of the customers collection
  customer,   \* the customer each request resolved
  links,      \* requests whose checkout link exists
  payment,    \* status of the payment each request created, or None
  events,     \* the events emitted by create() and its toPending()
  answer      \* what each request was answered

vars == <<sent, pc, records, customers, customer, links, payment, events, answer>>

(* customer_email stands for every top-level field of the body. *)
Bodies == [email : Emails \cup {NoEmail}, metadata : Metadata]

(* JSON.stringify with the sorted top-level names as its replacer array    *)
(* keeps those names at every depth: the nested metadata lose their keys.  *)
hashBody(b) == b.email

InFlight == 0
Records == [owner : Requests, requestHash : Emails \cup {NoEmail},
            responseStatus : {InFlight, 201}, responseBody : Requests \cup {None}]

ASSUME RecordAssumption == None \notin Records

PCs == {"check", "reserve", "findCustomer", "createCustomer", "destination",
        "checkoutLink", "createPayment", "emitCreated", "toPending",
        "emitPending", "complete", "abandon", "end"}

Answers == [kind : {"none", "created", "cached", "reused", "inFlight", "failed"},
            payment : Requests \cup {None}]

TypeOK ==
  /\ sent \in [Requests -> [key : Keys, body : Bodies]]
  /\ pc \in [Requests -> PCs]
  /\ records \in [Keys -> Records \cup {None}]
  /\ customers \subseteq [id : Requests, email : Emails \cup {NoEmail}]
  /\ customer \in [Requests -> Requests \cup {None}]
  /\ links \subseteq Requests
  /\ payment \in [Requests -> {None, "created", "pending", "canceled", "expired"}]
  /\ events \in [Requests -> SUBSET {"created", "pending"}]
  /\ answer \in [Requests -> Answers]

NoAnswer == [kind |-> "none", payment |-> None]

Init ==
  /\ sent \in [Requests -> [key : Keys, body : Bodies]]
  /\ pc = [r \in Requests |-> "check"]
  /\ records = [k \in Keys |-> None]
  /\ customers = {}
  /\ customer = [r \in Requests |-> None]
  /\ links = {}
  /\ payment = [r \in Requests |-> None]
  /\ events = [r \in Requests |-> {}]
  /\ answer = [r \in Requests |-> NoAnswer]

Key(r) == sent[r].key
Body(r) == sent[r].body
Record(r) == records[Key(r)]

GoTo(r, next) == pc' = [pc EXCEPT ![r] = next]

Answer(r, kind, p) ==
  /\ GoTo(r, "end")
  /\ answer' = [answer EXCEPT ![r] = [kind |-> kind, payment |-> p]]

(* Mutant: the stored response is returned whatever the hash. *)
CheckIgnoresHash(r) ==
  /\ pc[r] = "check"
  /\ \/ Record(r) = None /\ GoTo(r, "reserve") /\ UNCHANGED answer
     \/ /\ Record(r) # None
        /\ IF Record(r).responseStatus = InFlight
             THEN Answer(r, "inFlight", None)
             ELSE Answer(r, "cached", Record(r).responseBody)
  /\ UNCHANGED <<sent, records, customers, customer, links, payment, events>>

(* IdempotencyService.check *)
Check(r) ==
  /\ pc[r] = "check"
  /\ \/ Record(r) = None /\ GoTo(r, "reserve") /\ UNCHANGED answer
     \/ /\ Record(r) # None
        /\ Record(r).requestHash # hashBody(Body(r))
        /\ Answer(r, "reused", None)
     \/ /\ Record(r) # None
        /\ Record(r).requestHash = hashBody(Body(r))
        /\ IF Record(r).responseStatus = InFlight
             THEN Answer(r, "inFlight", None)
             ELSE Answer(r, "cached", Record(r).responseBody)
  /\ UNCHANGED <<sent, records, customers, customer, links, payment, events>>

(* Mutant: reserve upserts, so the later of two racing requests wins too.  *)
ReserveUpserts(r) ==
  /\ pc[r] = "reserve"
  /\ records' = [records EXCEPT ![Key(r)] =
       [owner |-> r, requestHash |-> hashBody(Body(r)),
        responseStatus |-> InFlight, responseBody |-> None]]
  /\ GoTo(r, "findCustomer")
  /\ UNCHANGED <<sent, customers, customer, links, payment, events, answer>>

(* IdempotencyService.reserve: the unique index decides between requests.  *)
Reserve(r) ==
  /\ pc[r] = "reserve"
  /\ \/ /\ Record(r) = None
        /\ records' = [records EXCEPT ![Key(r)] =
             [owner |-> r, requestHash |-> hashBody(Body(r)),
              responseStatus |-> InFlight, responseBody |-> None]]
        /\ GoTo(r, "findCustomer")
        /\ UNCHANGED answer
     \/ Record(r) # None /\ Answer(r, "inFlight", None) /\ UNCHANGED records
  /\ UNCHANGED <<sent, customers, customer, links, payment, events>>

(* CustomersRepository.upsertByEmail: a find, then a create that no unique *)
(* index guards.                                                           *)
FindCustomer(r) ==
  /\ pc[r] = "findCustomer"
  /\ \/ \E c \in customers : /\ c.email = Body(r).email
                             /\ c.email # NoEmail
                             /\ customer' = [customer EXCEPT ![r] = c.id]
                             /\ GoTo(r, "destination")
     \/ /\ \A c \in customers : c.email = Body(r).email => c.email = NoEmail
        /\ GoTo(r, "createCustomer")
        /\ UNCHANGED customer
  /\ UNCHANGED <<sent, records, customers, links, payment, events, answer>>

CreateCustomer(r) ==
  /\ pc[r] = "createCustomer"
  /\ customers' = customers \cup {[id |-> r, email |-> Body(r).email]}
  /\ customer' = [customer EXCEPT ![r] = r]
  /\ GoTo(r, "destination")
  /\ UNCHANGED <<sent, records, links, payment, events, answer>>

(* resolveDestinationAddress and createUniqueLinkMemo: either may throw.   *)
Destination(r) ==
  /\ pc[r] = "destination"
  /\ \E next \in {"checkoutLink", "abandon"} : GoTo(r, next)
  /\ UNCHANGED <<sent, records, customers, customer, links, payment, events, answer>>

CheckoutLink(r) ==
  /\ pc[r] = "checkoutLink"
  /\ links' = links \cup {r}
  /\ GoTo(r, "createPayment")
  /\ UNCHANGED <<sent, records, customers, customer, payment, events, answer>>

CreatePayment(r) ==
  /\ pc[r] = "createPayment"
  /\ payment' = [payment EXCEPT ![r] = "created"]
  /\ GoTo(r, "emitCreated")
  /\ UNCHANGED <<sent, records, customers, customer, links, events, answer>>

EmitCreated(r) ==
  /\ pc[r] = "emitCreated"
  /\ events' = [events EXCEPT ![r] = @ \cup {"created"}]
  /\ GoTo(r, "toPending")
  /\ UNCHANGED <<sent, records, customers, customer, links, payment, answer>>

(* Mutant: a payment closed meanwhile is reported as created all the same. *)
ToPendingSwallows(r) ==
  /\ pc[r] = "toPending"
  /\ IF payment[r] \in AllowedFrom["pending"]
       THEN payment' = [payment EXCEPT ![r] = "pending"] /\ GoTo(r, "emitPending")
       ELSE GoTo(r, "complete") /\ UNCHANGED payment
  /\ UNCHANGED <<sent, records, customers, customer, links, events, answer>>

(* PaymentStateMachine.toPending: throws if the payment was closed.        *)
ToPending(r) ==
  /\ pc[r] = "toPending"
  /\ IF payment[r] \in AllowedFrom["pending"]
       THEN payment' = [payment EXCEPT ![r] = "pending"] /\ GoTo(r, "emitPending")
       ELSE GoTo(r, "abandon") /\ UNCHANGED payment
  /\ UNCHANGED <<sent, records, customers, customer, links, events, answer>>

EmitPending(r) ==
  /\ pc[r] = "emitPending"
  /\ events' = [events EXCEPT ![r] = @ \cup {"pending"}]
  /\ GoTo(r, "complete")
  /\ UNCHANGED <<sent, records, customers, customer, links, payment, answer>>

(* IdempotencyService.complete: an update by key alone. *)
Stored(r, status, body) ==
  [records EXCEPT ![Key(r)] =
     [@ EXCEPT !.responseStatus = status, !.responseBody = body]]

Complete(r) ==
  /\ pc[r] = "complete"
  /\ records' = Stored(r, 201, r)
  /\ Answer(r, "created", r)
  /\ UNCHANGED <<sent, customers, customer, links, payment, events>>

(* Mutant: the catch block frees the key. *)
AbandonFreesKey(r) ==
  /\ pc[r] = "abandon"
  /\ records' = [records EXCEPT ![Key(r)] = None]
  /\ Answer(r, "failed", None)
  /\ UNCHANGED <<sent, customers, customer, links, payment, events>>

(* The catch block: it stores the in-flight status again, and swallows its *)
(* own failure.                                                            *)
Abandon(r) ==
  /\ pc[r] = "abandon"
  /\ records' \in {Stored(r, InFlight, None)} \cup IF Faults THEN {records} ELSE {}
  /\ Answer(r, "failed", None)
  /\ UNCHANGED <<sent, customers, customer, links, payment, events>>

(* A database call rejects.  Before the try block the error is the answer, *)
(* from there on the catch block runs; the last call may have been applied *)
(* although its reply was lost.                                            *)
Reject(r) ==
  /\ Faults
  /\ \/ pc[r] \in {"check", "reserve"} /\ Answer(r, "failed", None) /\ UNCHANGED records
     \/ /\ pc[r] \in PCs \ {"check", "reserve", "abandon", "end"}
        /\ records' \in {records} \cup IF pc[r] = "complete" THEN {Stored(r, 201, r)} ELSE {}
        /\ GoTo(r, "abandon")
        /\ UNCHANGED answer
  /\ UNCHANGED <<sent, customers, customer, links, payment, events>>

(* The process dies: the request ends unanswered. *)
Die(r) ==
  /\ Faults
  /\ pc[r] # "end"
  /\ GoTo(r, "end")
  /\ UNCHANGED <<sent, records, customers, customer, links, payment, events, answer>>

(* The merchant cancels a payment it found in the list, or it expires. *)
Close(p) ==
  /\ \E t \in {"canceled", "expired"} :
       payment[p] \in AllowedFrom[t] /\ payment' = [payment EXCEPT ![p] = t]
  /\ UNCHANGED <<sent, pc, records, customers, customer, links, events, answer>>

Step(r) == \/ Check(r) \/ Reserve(r) \/ FindCustomer(r) \/ CreateCustomer(r)
           \/ Destination(r) \/ CheckoutLink(r) \/ CreatePayment(r)
           \/ EmitCreated(r) \/ ToPending(r) \/ EmitPending(r)
           \/ Complete(r) \/ Abandon(r)

Next == \E r \in Requests : Step(r) \/ Reject(r) \/ Die(r) \/ Close(r)

Spec == Init /\ [][Next]_vars

-----------------------------------------------------------------------------
Success(r) == answer[r].kind \in {"created", "cached"}

(* However often a request is repeated, failed or raced by its own retries,*)
(* its key buys one payment (check, reserve, complete).                    *)
OnePaymentPerKey ==
  \A r, s \in Requests :
    payment[r] # None /\ payment[s] # None /\ Key(r) = Key(s) => r = s

(* All successful answers under a key name the same payment, made under    *)
(* that key, for a body whose hash is the caller's.                        *)
ReplayIsOriginal ==
  \A r \in Requests :
    Success(r) =>
      LET p == answer[r].payment IN
      /\ p \in Requests /\ payment[p] # None
      /\ Key(p) = Key(r) /\ hashBody(Body(p)) = hashBody(Body(r))
      /\ \A s \in Requests : Success(s) /\ Key(s) = Key(r) => answer[s].payment = p

(* A payment reported to the merchant is open for payers and fully         *)
(* recorded: it left created, its link and its customer exist, and both    *)
(* its events are in the store, whatever failed on the way.                *)
AnswerIsBacked ==
  \A r \in Requests :
    Success(r) =>
      LET p == answer[r].payment IN
      /\ payment[p] # "created"
      /\ p \in links
      /\ \E c \in customers : c.id = customer[p] /\ c.email = Body(p).email
      /\ events[p] = {"created", "pending"}

(* The record of a key is written by the request that reserved it only,    *)
(* and it never stops guarding the key: no step deletes it or hands it to  *)
(* another request.                                                        *)
RecordKeepsItsOwner ==
  [][\A k \in Keys :
       records[k] # None =>
         /\ records'[k] # None
         /\ records'[k].owner = records[k].owner
         /\ records'[k].requestHash = records[k].requestHash
         /\ records'[k] # records[k] =>
              pc[records[k].owner] \in {"complete", "abandon"}]_vars

(* "This idempotency key is currently being processed" is said only while  *)
(* the request that reserved the key is at work.                           *)
InFlightMeansProcessing ==
  \A k \in Keys :
    records[k] # None /\ records[k].responseStatus = InFlight =>
      pc[records[k].owner] # "end"

-----------------------------------------------------------------------------
(* What every step preserves.  A request past reserve owns the record of   *)
(* its key; Progress(r) is what the awaits behind it have left in the      *)
(* database, and a stored 201 stands for a request that came to the end.   *)
PastReserve == PCs \ {"check", "reserve", "end"}

Owns(r) == Record(r) # None /\ Record(r).owner = r

OwnersOK ==
  \A r \in Requests : pc[r] \in PastReserve \/ payment[r] # None => Owns(r)

RecordsOK ==
  \A k \in Keys :
    records[k] # None =>
      /\ Key(records[k].owner) = k
      /\ records[k].requestHash = hashBody(Body(records[k].owner))

HasCustomer(r) == \E c \in customers : c.id = customer[r] /\ c.email = Body(r).email

Open(r) == payment[r] \notin {None, "created"}

Backed(r) == Open(r) /\ r \in links /\ HasCustomer(r) /\ events[r] = {"created", "pending"}

Progress(r) ==
  /\ pc[r] \in {"destination", "checkoutLink", "createPayment", "emitCreated",
               "toPending", "emitPending", "complete"} => HasCustomer(r)
  /\ pc[r] \in {"createPayment", "emitCreated", "toPending", "emitPending",
               "complete"} => r \in links
  /\ pc[r] \in {"emitCreated", "toPending"} => payment[r] # None
  /\ pc[r] \in {"emitPending", "complete"} => Open(r)
  /\ pc[r] = "emitCreated" => events[r] = {}
  /\ pc[r] \in {"toPending", "emitPending"} => events[r] = {"created"}
  /\ pc[r] = "complete" => events[r] = {"created", "pending"}
  /\ pc[r] \in {"check", "reserve", "findCustomer", "createCustomer",
               "destination", "checkoutLink", "createPayment"} =>
       payment[r] = None /\ events[r] = {}

ProgressOK == \A r \in Requests : Progress(r)

CompletedOK ==
  \A k \in Keys :
    records[k] # None =>
      IF records[k].responseStatus = 201
        THEN /\ records[k].responseBody = records[k].owner
             /\ pc[records[k].owner] \in {"abandon", "end"}
             /\ Backed(records[k].owner)
        ELSE records[k].responseBody = None

AnswersOK ==
  \A r \in Requests :
    Success(r) => /\ Record(r) # None
                  /\ answer[r].payment = Record(r).owner
                  /\ Record(r).requestHash = hashBody(Body(r))
                  /\ Backed(Record(r).owner)
                  /\ pc[Record(r).owner] \in {"abandon", "end"}

IInv == /\ TypeOK
        /\ OwnersOK
        /\ RecordsOK
        /\ ProgressOK
        /\ CompletedOK
        /\ AnswersOK
=============================================================================
