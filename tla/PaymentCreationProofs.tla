----------------------- MODULE PaymentCreationProofs -----------------------
(***************************************************************************)
(* For any requests, keys and bodies, with database failures and crashes:  *)
(* a key buys one payment, a replay names it, and a payment reported to    *)
(* the merchant is completely recorded.                                    *)
(***************************************************************************)
EXTENDS PaymentCreation, TLAPS

LEMMA PendingFromCreated == AllowedFrom["pending"] = {"created"}
  BY DEF AllowedFrom

LEMMA ClosedFromOpen ==
  AllowedFrom["canceled"] = {"created", "pending"}
  /\ AllowedFrom["expired"] = {"created", "pending"}
  BY DEF AllowedFrom

(* complete() finds a record to update because its request owns one. *)
LEMMA StoredType ==
  ASSUME TypeOK, OwnersOK, NEW r \in Requests, pc[r] \in PastReserve,
         NEW st \in {InFlight, 201}, NEW b \in Requests \cup {None}
  PROVE  /\ Stored(r, st, b) \in [Keys -> Records \cup {None}]
         /\ \A k \in Keys : k # Key(r) => Stored(r, st, b)[k] = records[k]
         /\ Key(r) \in Keys
         /\ Stored(r, st, b)[Key(r)] \in Records
         /\ Stored(r, st, b)[Key(r)].owner = r
         /\ Stored(r, st, b)[Key(r)].requestHash = Record(r).requestHash
         /\ Stored(r, st, b)[Key(r)].responseStatus = st
         /\ Stored(r, st, b)[Key(r)].responseBody = b
<1> DEFINE k == Key(r)
           new == [records[k] EXCEPT !.responseStatus = st, !.responseBody = b]
<1>1. k \in Keys /\ records \in [Keys -> Records \cup {None}]
  BY DEF TypeOK, Key
<1>2. records[k] \in Records /\ records[k].owner = r
  BY <1>1 DEF OwnersOK, Owns, Record
<1>3. /\ new \in Records /\ new.owner = r /\ new.requestHash = records[k].requestHash
      /\ new.responseStatus = st /\ new.responseBody = b
  <2> HIDE DEF k
  <2> QED BY <1>2 DEF Records
<1>4. Stored(r, st, b) = [records EXCEPT ![k] = new]
  BY DEF Stored
<1> HIDE DEF new, k
<1>5. /\ Stored(r, st, b) \in [Keys -> Records \cup {None}]
      /\ \A j \in Keys : j # k => Stored(r, st, b)[j] = records[j]
      /\ Stored(r, st, b)[k] = new
  BY <1>1, <1>3, <1>4
<1> QED BY <1>1, <1>3, <1>5 DEF Record, k

LEMMA GoToType ==
  ASSUME TypeOK, NEW r \in Requests, NEW next \in PCs, GoTo(r, next)
  PROVE  pc' \in [Requests -> PCs]
  BY DEF TypeOK, GoTo

LEMMA AnswerType ==
  ASSUME TypeOK, NEW r \in Requests, NEW p \in Requests \cup {None},
         NEW kind \in {"created", "cached", "reused", "inFlight", "failed"},
         Answer(r, kind, p)
  PROVE  pc' \in [Requests -> PCs] /\ answer' \in [Requests -> Answers]
<1>1. pc' \in [Requests -> PCs]
  BY GoToType DEF Answer, PCs
<1>2. [kind |-> kind, payment |-> p] \in Answers
  BY DEF Answers
<1> QED BY <1>1, <1>2 DEF Answer, TypeOK

LEMMA TypeStep ==
  ASSUME TypeOK, OwnersOK, [Next]_vars
  PROVE  TypeOK'
<1>1. ASSUME NEW r \in Requests, Check(r) PROVE TypeOK'
  <2>1. /\ UNCHANGED <<sent, records, customers, customer, links, payment, events>>
        /\ \/ GoTo(r, "reserve") /\ UNCHANGED answer
           \/ Answer(r, "reused", None)
           \/ Answer(r, "inFlight", None)
           \/ Record(r) # None /\ Answer(r, "cached", Record(r).responseBody)
    BY <1>1 DEF Check
  <2>2. Record(r) # None => Record(r).responseBody \in Requests \cup {None}
    BY DEF TypeOK, Record, Key, Records
  <2>3. pc' \in [Requests -> PCs] /\ answer' \in [Requests -> Answers]
    <3>1. CASE GoTo(r, "reserve") /\ UNCHANGED answer
      BY <3>1, GoToType DEF PCs, TypeOK
    <3>2. CASE Answer(r, "reused", None)
      BY <3>2, AnswerType
    <3>3. CASE Answer(r, "inFlight", None)
      BY <3>3, AnswerType
    <3>4. CASE Record(r) # None /\ Answer(r, "cached", Record(r).responseBody)
      BY <2>2, <3>4, AnswerType
    <3> QED BY <2>1, <3>1, <3>2, <3>3, <3>4
  <2> QED BY <2>1, <2>3 DEF TypeOK
<1>2. ASSUME NEW r \in Requests, Reserve(r) PROVE TypeOK'
  <2>1. hashBody(Body(r)) \in Emails \cup {NoEmail} /\ Key(r) \in Keys
    BY DEF hashBody, Body, Bodies, Key, TypeOK
  <2>2. [owner |-> r, requestHash |-> hashBody(Body(r)),
         responseStatus |-> InFlight, responseBody |-> None] \in Records
    BY <2>1 DEF Records
  <2>3. CASE Record(r) = None
    <3>1. /\ records' = [records EXCEPT ![Key(r)] =
                [owner |-> r, requestHash |-> hashBody(Body(r)),
                 responseStatus |-> InFlight, responseBody |-> None]]
          /\ GoTo(r, "findCustomer") /\ answer' = answer
      BY <1>2, <2>3 DEF Reserve
    <3>2. records' \in [Keys -> Records \cup {None}]
      BY <2>1, <2>2, <3>1 DEF TypeOK
    <3>3. pc' \in [Requests -> PCs]
      BY <3>1, GoToType DEF PCs
    <3> QED BY <1>2, <3>1, <3>2, <3>3 DEF Reserve, TypeOK
  <2>4. CASE Record(r) # None
    <3>1. Answer(r, "inFlight", None) /\ records' = records
      BY <1>2, <2>4 DEF Reserve
    <3>2. pc' \in [Requests -> PCs] /\ answer' \in [Requests -> Answers]
      BY <3>1, AnswerType
    <3> QED BY <1>2, <3>1, <3>2 DEF Reserve, TypeOK
  <2> QED BY <2>3, <2>4
<1>3. ASSUME NEW r \in Requests, FindCustomer(r) PROVE TypeOK'
  <2>1. pc' \in [Requests -> PCs]
    BY <1>3, GoToType DEF FindCustomer, PCs
  <2>2. customer' \in [Requests -> Requests \cup {None}]
    BY <1>3 DEF FindCustomer, TypeOK
  <2> QED BY <1>3, <2>1, <2>2 DEF FindCustomer, TypeOK
<1>4. ASSUME NEW r \in Requests, CreateCustomer(r) PROVE TypeOK'
  <2>1. pc' \in [Requests -> PCs]
    BY <1>4, GoToType DEF CreateCustomer, PCs
  <2>2. Body(r).email \in Emails \cup {NoEmail}
    BY DEF TypeOK, Body, Bodies
  <2>3. customers' \subseteq [id : Requests, email : Emails \cup {NoEmail}]
    BY <1>4, <2>2 DEF CreateCustomer, TypeOK
  <2>4. customer' \in [Requests -> Requests \cup {None}]
    BY <1>4 DEF CreateCustomer, TypeOK
  <2> QED BY <1>4, <2>1, <2>3, <2>4 DEF CreateCustomer, TypeOK
<1>5. ASSUME NEW r \in Requests, Destination(r) PROVE TypeOK'
  <2>1. pc' \in [Requests -> PCs]
    BY <1>5, GoToType DEF Destination, PCs
  <2> QED BY <1>5, <2>1 DEF Destination, TypeOK
<1>6. ASSUME NEW r \in Requests, CheckoutLink(r) PROVE TypeOK'
  <2>1. pc' \in [Requests -> PCs]
    BY <1>6, GoToType DEF CheckoutLink, PCs
  <2> QED BY <1>6, <2>1 DEF CheckoutLink, TypeOK
<1>7. ASSUME NEW r \in Requests, CreatePayment(r) PROVE TypeOK'
  <2>1. pc' \in [Requests -> PCs]
    BY <1>7, GoToType DEF CreatePayment, PCs
  <2> QED BY <1>7, <2>1 DEF CreatePayment, TypeOK
<1>8. ASSUME NEW r \in Requests, EmitCreated(r) PROVE TypeOK'
  <2>1. pc' \in [Requests -> PCs]
    BY <1>8, GoToType DEF EmitCreated, PCs
  <2> QED BY <1>8, <2>1 DEF EmitCreated, TypeOK
<1>9. ASSUME NEW r \in Requests, ToPending(r) PROVE TypeOK'
  <2>1. pc' \in [Requests -> PCs]
    BY <1>9, GoToType DEF ToPending, PCs
  <2> QED BY <1>9, <2>1 DEF ToPending, TypeOK
<1>10. ASSUME NEW r \in Requests, EmitPending(r) PROVE TypeOK'
  <2>1. pc' \in [Requests -> PCs]
    BY <1>10, GoToType DEF EmitPending, PCs
  <2> QED BY <1>10, <2>1 DEF EmitPending, TypeOK
<1>11. ASSUME NEW r \in Requests, Complete(r) PROVE TypeOK'
  <2>1. records' \in [Keys -> Records \cup {None}]
    BY <1>11, StoredType DEF Complete, PastReserve, PCs
  <2>2. pc' \in [Requests -> PCs] /\ answer' \in [Requests -> Answers]
    BY <1>11, AnswerType DEF Complete
  <2> QED BY <1>11, <2>1, <2>2 DEF Complete, TypeOK
<1>12. ASSUME NEW r \in Requests, Abandon(r) PROVE TypeOK'
  <2>1. records' = records \/ records' = Stored(r, InFlight, None)
    BY <1>12 DEF Abandon
  <2>2. records' \in [Keys -> Records \cup {None}]
    BY <1>12, <2>1, StoredType DEF Abandon, PastReserve, PCs, TypeOK
  <2>3. pc' \in [Requests -> PCs] /\ answer' \in [Requests -> Answers]
    BY <1>12, AnswerType DEF Abandon
  <2> QED BY <1>12, <2>2, <2>3 DEF Abandon, TypeOK
<1>13. ASSUME NEW r \in Requests, Reject(r) PROVE TypeOK'
  <2>1. CASE Answer(r, "failed", None) /\ UNCHANGED records
    BY <1>13, <2>1, AnswerType DEF Reject, TypeOK
  <2>2. CASE /\ pc[r] \in PastReserve /\ GoTo(r, "abandon") /\ UNCHANGED answer
             /\ records' = records \/ records' = Stored(r, 201, r)
    <3>1. records' \in [Keys -> Records \cup {None}]
      BY <2>2, StoredType DEF TypeOK
    <3>2. pc' \in [Requests -> PCs]
      BY <2>2, GoToType DEF PCs
    <3> QED BY <1>13, <2>2, <3>1, <3>2 DEF Reject, TypeOK
  <2> QED BY <1>13, <2>1, <2>2 DEF Reject, PastReserve
<1>14. ASSUME NEW r \in Requests, Die(r) PROVE TypeOK'
  <2>1. pc' \in [Requests -> PCs]
    BY <1>14, GoToType DEF Die, PCs
  <2> QED BY <1>14, <2>1 DEF Die, TypeOK
<1>15. ASSUME NEW r \in Requests, Close(r) PROVE TypeOK'
  BY <1>15 DEF Close, TypeOK
<1>16. CASE UNCHANGED vars
  BY <1>16 DEF vars, TypeOK
<1> QED BY <1>1, <1>2, <1>3, <1>4, <1>5, <1>6, <1>7, <1>8, <1>9, <1>10, <1>11,
           <1>12, <1>13, <1>14, <1>15, <1>16 DEF Next, Step

-----------------------------------------------------------------------------
LEMMA InitInv == Init => IInv
<1> SUFFICES ASSUME Init PROVE IInv
  OBVIOUS
<1>1. TypeOK
  BY DEF Init, TypeOK, PCs, Answers, NoAnswer
<1>2. OwnersOK /\ ProgressOK
  BY DEF Init, OwnersOK, PastReserve, PCs, ProgressOK, Progress
<1>3. RecordsOK /\ CompletedOK
  BY DEF Init, RecordsOK, CompletedOK
<1>4. AnswersOK
  BY DEF Init, AnswersOK, Success, NoAnswer
<1> QED BY <1>1, <1>2, <1>3, <1>4 DEF IInv

(* What is recorded of a payment stays recorded when only another request  *)
(* moves, and customers and links are added.                               *)
LEMMA OthersKeep ==
  ASSUME NEW s \in Requests, sent' = sent,
         UNCHANGED <<pc[s], customer[s], payment[s], events[s]>>,
         customers \subseteq customers', links \subseteq links'
  PROVE  /\ HasCustomer(s) => HasCustomer(s)'
         /\ Backed(s) => Backed(s)'
         /\ Progress(s) => Progress(s)'
<1>1. HasCustomer(s) => HasCustomer(s)'
  BY DEF HasCustomer, Body
<1>2. Open(s)' = Open(s)
  BY DEF Open
<1> QED BY <1>1, <1>2 DEF Backed, Progress

(* A step of one request that leaves the idempotency records alone. *)
LEMMA LocalStep ==
  ASSUME IInv, TypeOK', NEW r \in Requests, UNCHANGED <<sent, records>>,
         \A s \in Requests \ {r} :
           UNCHANGED <<pc[s], customer[s], payment[s], events[s], answer[s]>>,
         customers \subseteq customers', links \subseteq links',
         pc'[r] \in PastReserve \/ payment'[r] # None =>
           pc[r] \in PastReserve \/ payment[r] # None,
         Progress(r)',
         pc[r] \in {"abandon", "end"} => pc'[r] \in {"abandon", "end"},
         pc[r] \in {"abandon", "end"} /\ Backed(r) => Backed(r)',
         \/ answer'[r] = answer[r]
         \/ answer'[r].kind \notin {"created", "cached"}
         \/ /\ Record(r) # None
            /\ Record(r).requestHash = hashBody(Body(r))
            /\ Record(r).responseStatus = 201
            /\ answer'[r].payment = Record(r).responseBody
  PROVE  IInv'
<1>1. \A s \in Requests \ {r} :
        /\ Backed(s) => Backed(s)'
        /\ Progress(s) => Progress(s)'
  BY OthersKeep
<1>2. \A s \in Requests : Key(s)' = Key(s) /\ Body(s)' = Body(s) /\ Record(s)' = Record(s)
  BY DEF Key, Body, Record
<1>3. OwnersOK'
  BY <1>2 DEF IInv, OwnersOK, Owns
<1>4. RecordsOK'
  BY DEF IInv, RecordsOK, hashBody, Key, Body
<1>5. ProgressOK'
  BY <1>1 DEF IInv, ProgressOK
<1>6. \A s \in Requests :
        pc[s] \in {"abandon", "end"} /\ Backed(s) =>
          pc'[s] \in {"abandon", "end"} /\ Backed(s)'
  BY <1>1
<1>7. \A k \in Keys : records[k] # None => records[k].owner \in Requests
  BY DEF IInv, TypeOK, Records
<1>8. CompletedOK'
  BY <1>6, <1>7 DEF IInv, CompletedOK
<1>9. ASSUME NEW s \in Requests, Success(s)'
      PROVE  /\ Record(s) # None
             /\ Record(s).owner \in Requests
             /\ answer'[s].payment = Record(s).owner
             /\ Record(s).requestHash = hashBody(Body(s))
             /\ Backed(Record(s).owner)
             /\ pc[Record(s).owner] \in {"abandon", "end"}
  <2>1. Key(s) \in Keys
    BY DEF IInv, TypeOK, Key
  <2>2. CASE answer'[s] = answer[s]
    BY <1>7, <1>9, <2>1, <2>2 DEF Success, IInv, AnswersOK, Record
  <2>3. CASE answer'[s] # answer[s]
    <3>1. s = r
      BY <2>3
    <3>2. /\ Record(r) # None
          /\ Record(r).requestHash = hashBody(Body(r))
          /\ Record(r).responseStatus = 201
          /\ answer'[r].payment = Record(r).responseBody
      BY <1>9, <2>3, <3>1 DEF Success
    <3> QED BY <1>7, <2>1, <3>1, <3>2 DEF IInv, CompletedOK, Record
  <2> QED BY <2>2, <2>3
<1>10. AnswersOK'
  <2>1. \A o \in Requests :
          Backed(o) /\ pc[o] \in {"abandon", "end"} =>
            Backed(o)' /\ pc'[o] \in {"abandon", "end"}
    BY <1>6
  <2>2. \A s \in Requests : hashBody(Body(s))' = hashBody(Body(s))
    BY <1>2 DEF hashBody
  <2> QED BY <1>2, <1>9, <2>1, <2>2 DEF AnswersOK
<1> QED BY <1>3, <1>4, <1>5, <1>8, <1>10 DEF IInv

(* complete() or the catch block writes the record of its request. *)
LEMMA StoreStep ==
  ASSUME IInv, TypeOK', NEW r \in Requests, pc[r] \in PastReserve,
         UNCHANGED <<sent, customers, customer, links, payment, events>>,
         \A s \in Requests \ {r} : UNCHANGED <<pc[s], answer[s]>>,
         NEW st \in {InFlight, 201}, NEW b \in Requests \cup {None},
         records' = Stored(r, st, b),
         pc'[r] \in {"abandon", "end"},
         IF st = 201 THEN b = r /\ Backed(r) ELSE b = None,
         \/ answer'[r] = answer[r]
         \/ answer'[r].kind \notin {"created", "cached"}
         \/ answer'[r].payment = r /\ Backed(r)
  PROVE  IInv'
<1>1. /\ \A k \in Keys : k # Key(r) => records'[k] = records[k]
      /\ Key(r) \in Keys
      /\ records'[Key(r)] \in Records
      /\ records'[Key(r)].owner = r
      /\ records'[Key(r)].requestHash = Record(r).requestHash
      /\ records'[Key(r)].responseStatus = st
      /\ records'[Key(r)].responseBody = b
  BY StoredType DEF IInv
<1>2. records[Key(r)] # None /\ records[Key(r)].owner = r
  BY DEF IInv, OwnersOK, Owns, Record
<1>3. \A k \in Keys :
        /\ (records'[k] # None) <=> (records[k] # None)
        /\ records[k] # None =>
             /\ records[k].owner \in Requests
             /\ records'[k].owner = records[k].owner
             /\ records'[k].requestHash = records[k].requestHash
  <2>1. \A k \in Keys : records[k] # None => records[k].owner \in Requests
    BY DEF IInv, TypeOK, Records
  <2> QED BY <1>1, <1>2, <2>1, RecordAssumption DEF Record
<1>4. \A s \in Requests :
        /\ Key(s)' = Key(s) /\ Body(s)' = Body(s) /\ Key(s) \in Keys
        /\ Record(s)' = records'[Key(s)]
        /\ hashBody(Body(s))' = hashBody(Body(s))
        /\ Backed(s)' = Backed(s)
  BY DEF Key, Body, Record, hashBody, Backed, Open, HasCustomer, IInv, TypeOK
<1>5. OwnersOK'
  <2>1. \A s \in Requests : pc'[s] \in PastReserve => pc[s] \in PastReserve
    OBVIOUS
  <2>2. \A s \in Requests : Owns(s) => Owns(s)'
    BY <1>3, <1>4 DEF Owns, Record
  <2> QED BY <2>1, <2>2 DEF IInv, OwnersOK
<1>6. RecordsOK'
  BY <1>3, <1>4 DEF IInv, RecordsOK
<1>7. ProgressOK'
  <2>1. Progress(r)'
    BY DEF Progress
  <2>2. \A s \in Requests \ {r} : Progress(s) => Progress(s)'
    BY OthersKeep
  <2> QED BY <2>1, <2>2 DEF IInv, ProgressOK
<1>8. \A s \in Requests :
        pc[s] \in {"abandon", "end"} => pc'[s] \in {"abandon", "end"}
  OBVIOUS
<1>9. CompletedOK'
  <2> SUFFICES ASSUME NEW k \in Keys, records'[k] # None
               PROVE  \E o \in Requests :
                        /\ records'[k].owner = o
                        /\ IF records'[k].responseStatus = 201
                             THEN /\ records'[k].responseBody = o
                                  /\ pc'[o] \in {"abandon", "end"}
                                  /\ Backed(o)'
                             ELSE records'[k].responseBody = None
    BY DEF CompletedOK
  <2>1. CASE k = Key(r)
    BY <1>1, <1>4, <2>1
  <2>2. CASE k # Key(r)
    <3>1. records'[k] = records[k] /\ records[k].owner \in Requests
      BY <1>1, <1>3, <2>2
    <3> QED BY <1>4, <1>8, <3>1 DEF IInv, CompletedOK
  <2> QED BY <2>1, <2>2
<1>10. ASSUME NEW s \in Requests, Success(s)'
       PROVE  /\ Record(s) # None
              /\ answer'[s].payment = Record(s).owner
              /\ Record(s).requestHash = hashBody(Body(s))
              /\ Backed(Record(s).owner)
              /\ pc'[Record(s).owner] \in {"abandon", "end"}
  <2>1. CASE answer'[s] = answer[s]
    <3>1. Success(s)
      BY <1>10, <2>1 DEF Success
    <3> QED BY <1>3, <1>4, <1>8, <2>1, <3>1 DEF IInv, AnswersOK, Record
  <2>2. CASE answer'[s] # answer[s]
    <3>1. s = r
      BY <2>2
    <3>2. answer'[r].payment = r /\ Backed(r)
      BY <1>10, <2>2, <3>1 DEF Success
    <3>3. Record(r).requestHash = hashBody(Body(r))
      BY <1>1, <1>2 DEF IInv, RecordsOK, Record
    <3> QED BY <1>2, <3>1, <3>2, <3>3 DEF Record
  <2> QED BY <2>1, <2>2
<1>11. AnswersOK'
  <2>1. \A s \in Requests : Record(s) # None =>
          /\ Record(s)' # None
          /\ Record(s).owner \in Requests
          /\ Record(s)'.owner = Record(s).owner
          /\ Record(s)'.requestHash = Record(s).requestHash
    BY <1>3, <1>4 DEF Record
  <2> QED BY <1>4, <1>10, <2>1 DEF AnswersOK
<1> QED BY <1>5, <1>6, <1>7, <1>9, <1>11 DEF IInv

(* reserve() creates the record of a key that had none. *)
LEMMA ReserveStep ==
  ASSUME IInv, TypeOK', NEW r \in Requests, pc[r] = "reserve", Record(r) = None,
         UNCHANGED <<sent, customers, customer, links, payment, events, answer>>,
         \A s \in Requests \ {r} : UNCHANGED pc[s],
         pc'[r] = "findCustomer",
         records' = [records EXCEPT ![Key(r)] =
             [owner |-> r, requestHash |-> hashBody(Body(r)),
              responseStatus |-> InFlight, responseBody |-> None]]
  PROVE  IInv'
<1>1. \A s \in Requests :
        /\ Key(s)' = Key(s) /\ Body(s)' = Body(s) /\ Key(s) \in Keys
        /\ Record(s)' = records'[Key(s)] /\ Record(s) = records[Key(s)]
        /\ hashBody(Body(s))' = hashBody(Body(s))
        /\ Backed(s)' = Backed(s)
  BY DEF Key, Body, Record, hashBody, Backed, Open, HasCustomer, IInv, TypeOK
<1>2. /\ \A k \in Keys : k # Key(r) => records'[k] = records[k]
      /\ records'[Key(r)].owner = r
      /\ records'[Key(r)].requestHash = hashBody(Body(r))
      /\ records'[Key(r)].responseStatus = InFlight
      /\ records'[Key(r)].responseBody = None
      /\ records'[Key(r)] # None
  <2>1. hashBody(Body(r)) \in Emails \cup {NoEmail}
    BY DEF hashBody, Body, Bodies, IInv, TypeOK
  <2>2. [owner |-> r, requestHash |-> hashBody(Body(r)),
         responseStatus |-> InFlight, responseBody |-> None] \in Records
    BY <2>1 DEF Records
  <2> QED BY <1>1, <2>2, RecordAssumption DEF IInv, TypeOK
<1>3. \A k \in Keys : records[k] # None =>
        /\ records'[k] = records[k] /\ k # Key(r)
        /\ records[k].owner \in Requests /\ records[k].owner # r
  <2>1. \A k \in Keys : records[k] # None =>
          records[k].owner \in Requests /\ Key(records[k].owner) = k
    BY DEF IInv, TypeOK, Records, RecordsOK
  <2> QED BY <1>1, <1>2, <2>1
<1>4. OwnersOK'
  <2>1. Owns(r)'
    BY <1>1, <1>2 DEF Owns
  <2>2. \A s \in Requests \ {r} :
          Owns(s) => Owns(s)'
    BY <1>1, <1>3 DEF Owns
  <2> QED BY <2>1, <2>2 DEF IInv, OwnersOK
<1>5. RecordsOK'
  BY <1>1, <1>2, <1>3 DEF IInv, RecordsOK
<1>6. ProgressOK'
  <2>1. Progress(r)'
    BY DEF IInv, ProgressOK, Progress
  <2>2. \A s \in Requests \ {r} : Progress(s) => Progress(s)'
    BY OthersKeep
  <2> QED BY <2>1, <2>2 DEF IInv, ProgressOK
<1>7. CompletedOK'
  <2> SUFFICES ASSUME NEW k \in Keys, records'[k] # None
               PROVE  \E o \in Requests :
                        /\ records'[k].owner = o
                        /\ IF records'[k].responseStatus = 201
                             THEN /\ records'[k].responseBody = o
                                  /\ pc'[o] \in {"abandon", "end"}
                                  /\ Backed(o)'
                             ELSE records'[k].responseBody = None
    BY DEF CompletedOK
  <2>1. CASE k = Key(r)
    BY <1>2, <2>1 DEF InFlight
  <2>2. CASE k # Key(r)
    <3>1. records'[k] = records[k] /\ records[k].owner \in Requests \ {r}
      BY <1>2, <1>3, <2>2
    <3> QED BY <1>1, <3>1 DEF IInv, CompletedOK
  <2> QED BY <2>1, <2>2
<1>8. AnswersOK'
  <2>1. \A s \in Requests : Success(s)' = Success(s)
    BY DEF Success
  <2>2. \A s \in Requests : Record(s) # None =>
          Record(s)' = Record(s) /\ Record(s).owner \in Requests \ {r}
    BY <1>1, <1>3
  <2> QED BY <1>1, <2>1, <2>2 DEF IInv, AnswersOK
<1> QED BY <1>4, <1>5, <1>6, <1>7, <1>8 DEF IInv

(* Facts about a moving request that every local step uses. *)
LEMMA MovingRequest ==
  ASSUME IInv, NEW r \in Requests
  PROVE  /\ Progress(r)
         /\ PCs = PastReserve \cup {"check", "reserve", "end"}
         /\ pc \in [Requests -> PCs]
         /\ payment \in [Requests -> {None, "created", "pending", "canceled", "expired"}]
         /\ events \in [Requests -> SUBSET {"created", "pending"}]
         /\ customer \in [Requests -> Requests \cup {None}]
         /\ answer \in [Requests -> Answers]
  BY DEF IInv, ProgressOK, TypeOK, PastReserve, PCs

LEMMA InvStep == IInv /\ [Next]_vars => IInv'
<1> SUFFICES ASSUME IInv, [Next]_vars PROVE IInv'
  OBVIOUS
<1>0. TypeOK'
  BY TypeStep DEF IInv
<1>1. ASSUME NEW r \in Requests, Check(r) PROVE IInv'
  <2>1. /\ UNCHANGED <<sent, records, customers, customer, links, payment, events>>
        /\ pc[r] = "check"
        /\ pc'[r] \in {"reserve", "end"}
        /\ \A s \in Requests \ {r} : UNCHANGED <<pc[s], answer[s]>>
    BY <1>1, MovingRequest DEF Check, GoTo, Answer
  <2>2. Progress(r)'
    BY <2>1, MovingRequest DEF Progress
  <2>3. \/ answer'[r] = answer[r]
        \/ answer'[r].kind \notin {"created", "cached"}
        \/ /\ Record(r) # None
           /\ Record(r).requestHash = hashBody(Body(r))
           /\ Record(r).responseStatus = 201
           /\ answer'[r].payment = Record(r).responseBody
    <3>1. Record(r) # None => Record(r).responseStatus \in {InFlight, 201}
      BY DEF IInv, TypeOK, Record, Key, Records
    <3> QED BY <1>1, <3>1, MovingRequest DEF Check, GoTo, Answer
  <2> QED BY <1>0, <2>1, <2>2, <2>3, LocalStep DEF PastReserve, PCs
<1>2. ASSUME NEW r \in Requests, Reserve(r) PROVE IInv'
  <2>1. CASE Record(r) = None
    <3>1. /\ pc[r] = "reserve" /\ pc'[r] = "findCustomer"
          /\ \A s \in Requests \ {r} : UNCHANGED pc[s]
          /\ UNCHANGED <<sent, customers, customer, links, payment, events, answer>>
          /\ records' = [records EXCEPT ![Key(r)] =
                [owner |-> r, requestHash |-> hashBody(Body(r)),
                 responseStatus |-> InFlight, responseBody |-> None]]
      BY <1>2, <2>1, MovingRequest DEF Reserve, GoTo
    <3> QED BY <1>0, <2>1, <3>1, ReserveStep
  <2>2. CASE Record(r) # None
    <3>1. /\ UNCHANGED <<sent, records, customers, customer, links, payment, events>>
          /\ pc[r] = "reserve" /\ pc'[r] = "end"
          /\ \A s \in Requests \ {r} : UNCHANGED <<pc[s], answer[s]>>
          /\ answer'[r].kind = "inFlight"
      BY <1>2, <2>2, MovingRequest DEF Reserve, Answer, GoTo
    <3>2. Progress(r)'
      BY <3>1 DEF Progress
    <3> QED BY <1>0, <3>1, <3>2, LocalStep DEF PastReserve
  <2> QED BY <2>1, <2>2
<1>3. ASSUME NEW r \in Requests, FindCustomer(r) PROVE IInv'
  <2>1. /\ UNCHANGED <<sent, records, customers, links, payment, events, answer>>
        /\ pc[r] = "findCustomer" /\ pc'[r] \in {"destination", "createCustomer"}
        /\ \A s \in Requests \ {r} : UNCHANGED <<pc[s], customer[s]>>
    BY <1>3, MovingRequest DEF FindCustomer, GoTo
  <2>2. pc'[r] = "destination" => HasCustomer(r)'
    BY <1>3, MovingRequest DEF FindCustomer, GoTo, HasCustomer, Body
  <2>3. Progress(r)'
    BY <2>1, <2>2, MovingRequest DEF Progress
  <2> QED BY <1>0, <2>1, <2>3, LocalStep DEF PastReserve, PCs
<1>4. ASSUME NEW r \in Requests, CreateCustomer(r) PROVE IInv'
  <2>1. /\ UNCHANGED <<sent, records, links, payment, events, answer>>
        /\ customers \subseteq customers'
        /\ pc[r] = "createCustomer" /\ pc'[r] = "destination"
        /\ \A s \in Requests \ {r} : UNCHANGED <<pc[s], customer[s]>>
    BY <1>4, MovingRequest DEF CreateCustomer, GoTo
  <2>2. HasCustomer(r)'
    <3> DEFINE new == [id |-> r, email |-> Body(r).email]
    <3>1. new \in customers' /\ customer'[r] = r /\ Body(r)' = Body(r)
      BY <1>4, MovingRequest DEF CreateCustomer, Body
    <3>2. new.id = r /\ new.email = Body(r).email
      OBVIOUS
    <3> QED BY <3>1, <3>2 DEF HasCustomer
  <2>3. Progress(r)'
    BY <2>1, <2>2, MovingRequest DEF Progress
  <2> QED BY <1>0, <2>1, <2>3, LocalStep DEF PastReserve, PCs
<1>5. ASSUME NEW r \in Requests, Destination(r) PROVE IInv'
  <2>1. /\ UNCHANGED <<sent, records, customers, customer, links, payment, events, answer>>
        /\ pc[r] = "destination" /\ pc'[r] \in {"checkoutLink", "abandon"}
        /\ \A s \in Requests \ {r} : UNCHANGED pc[s]
    BY <1>5, MovingRequest DEF Destination, GoTo
  <2>2. Progress(r)'
    BY <2>1, MovingRequest DEF Progress, HasCustomer, Body
  <2> QED BY <1>0, <2>1, <2>2, LocalStep DEF PastReserve, PCs
<1>6. ASSUME NEW r \in Requests, CheckoutLink(r) PROVE IInv'
  <2>1. /\ UNCHANGED <<sent, records, customers, customer, payment, events, answer>>
        /\ links' = links \cup {r}
        /\ pc[r] = "checkoutLink" /\ pc'[r] = "createPayment"
        /\ \A s \in Requests \ {r} : UNCHANGED pc[s]
    BY <1>6, MovingRequest DEF CheckoutLink, GoTo
  <2>2. Progress(r)'
    BY <2>1, MovingRequest DEF Progress, HasCustomer, Body
  <2> QED BY <1>0, <2>1, <2>2, LocalStep DEF PastReserve, PCs
<1>7. ASSUME NEW r \in Requests, CreatePayment(r) PROVE IInv'
  <2>1. /\ UNCHANGED <<sent, records, customers, customer, links, events, answer>>
        /\ payment'[r] = "created"
        /\ pc[r] = "createPayment" /\ pc'[r] = "emitCreated"
        /\ \A s \in Requests \ {r} : UNCHANGED <<pc[s], payment[s]>>
    BY <1>7, MovingRequest DEF CreatePayment, GoTo
  <2>2. payment'[r] # None
    BY <2>1, NoneAssumption DEF Status
  <2>3. Progress(r)'
    BY <2>1, <2>2, MovingRequest DEF Progress, HasCustomer, Body
  <2> QED BY <1>0, <2>1, <2>3, LocalStep DEF PastReserve, PCs
<1>8. ASSUME NEW r \in Requests, EmitCreated(r) PROVE IInv'
  <2>1. /\ UNCHANGED <<sent, records, customers, customer, links, payment, answer>>
        /\ events'[r] = events[r] \cup {"created"}
        /\ pc[r] = "emitCreated" /\ pc'[r] = "toPending"
        /\ \A s \in Requests \ {r} : UNCHANGED <<pc[s], events[s]>>
    BY <1>8, MovingRequest DEF EmitCreated, GoTo
  <2>2. Progress(r)'
    BY <2>1, MovingRequest DEF Progress, HasCustomer, Body
  <2> QED BY <1>0, <2>1, <2>2, LocalStep DEF PastReserve, PCs
<1>9. ASSUME NEW r \in Requests, ToPending(r) PROVE IInv'
  <2>1. /\ UNCHANGED <<sent, records, customers, customer, links, events, answer>>
        /\ pc[r] = "toPending"
        /\ \/ pc'[r] = "emitPending" /\ payment'[r] = "pending"
           \/ pc'[r] = "abandon" /\ payment'[r] = payment[r]
        /\ \A s \in Requests \ {r} : UNCHANGED <<pc[s], payment[s]>>
    BY <1>9, MovingRequest DEF ToPending, GoTo
  <2>2. payment[r] # None
    BY <2>1, MovingRequest DEF Progress
  <2>3. pc'[r] = "emitPending" => Open(r)'
    BY <2>1, NoneAssumption DEF Open, Status
  <2>4. Progress(r)'
    BY <2>1, <2>2, <2>3, MovingRequest DEF Progress, HasCustomer, Body
  <2> QED BY <1>0, <2>1, <2>2, <2>4, LocalStep DEF PastReserve, PCs
<1>10. ASSUME NEW r \in Requests, EmitPending(r) PROVE IInv'
  <2>1. /\ UNCHANGED <<sent, records, customers, customer, links, payment, answer>>
        /\ events'[r] = events[r] \cup {"pending"}
        /\ pc[r] = "emitPending" /\ pc'[r] = "complete"
        /\ \A s \in Requests \ {r} : UNCHANGED <<pc[s], events[s]>>
    BY <1>10, MovingRequest DEF EmitPending, GoTo
  <2>2. Progress(r)'
    BY <2>1, MovingRequest DEF Progress, HasCustomer, Body, Open
  <2> QED BY <1>0, <2>1, <2>2, LocalStep DEF PastReserve, PCs
<1>11. ASSUME NEW r \in Requests, pc[r] = "complete" PROVE Backed(r)
  BY <1>11, MovingRequest DEF Progress, Backed
<1>12. ASSUME NEW r \in Requests, Complete(r) PROVE IInv'
  <2>1. /\ UNCHANGED <<sent, customers, customer, links, payment, events>>
        /\ pc[r] = "complete" /\ pc'[r] = "end"
        /\ \A s \in Requests \ {r} : UNCHANGED <<pc[s], answer[s]>>
        /\ records' = Stored(r, 201, r)
        /\ answer'[r].payment = r
    BY <1>12, MovingRequest DEF Complete, Answer, GoTo
  <2> QED BY <1>0, <1>11, <2>1, StoreStep DEF PastReserve, PCs
<1>13. ASSUME NEW r \in Requests, Abandon(r) PROVE IInv'
  <2>1. /\ UNCHANGED <<sent, customers, customer, links, payment, events>>
        /\ pc[r] = "abandon" /\ pc'[r] = "end"
        /\ \A s \in Requests \ {r} : UNCHANGED <<pc[s], answer[s]>>
        /\ records' = records \/ records' = Stored(r, InFlight, None)
        /\ answer'[r].kind = "failed"
    BY <1>13, MovingRequest DEF Abandon, Answer, GoTo
  <2>2. Progress(r)' /\ Backed(r)' = Backed(r)
    BY <2>1 DEF Progress, Backed, Open, HasCustomer, Body
  <2>3. CASE records' = records
    BY <1>0, <2>1, <2>2, <2>3, LocalStep DEF PastReserve, PCs
  <2>4. CASE records' = Stored(r, InFlight, None)
    BY <1>0, <2>1, <2>4, StoreStep DEF PastReserve, PCs, InFlight
  <2> QED BY <2>1, <2>3, <2>4
<1>14. ASSUME NEW r \in Requests, Reject(r) PROVE IInv'
  <2>1. UNCHANGED <<sent, customers, customer, links, payment, events>>
    BY <1>14 DEF Reject
  <2>2. CASE /\ pc[r] \in {"check", "reserve"} /\ Answer(r, "failed", None)
             /\ UNCHANGED records
    <3>1. /\ pc'[r] = "end" /\ answer'[r].kind = "failed"
          /\ \A s \in Requests \ {r} : UNCHANGED <<pc[s], answer[s]>>
      BY <2>2, MovingRequest DEF Answer, GoTo
    <3>2. Progress(r)'
      BY <3>1 DEF Progress
    <3> QED BY <1>0, <2>1, <2>2, <3>1, <3>2, LocalStep DEF PastReserve
  <2>3. CASE /\ pc[r] \in PastReserve \ {"abandon"} /\ GoTo(r, "abandon")
             /\ UNCHANGED <<answer, records>>
    <3>1. /\ pc'[r] = "abandon" /\ pc[r] \notin {"abandon", "end"}
          /\ \A s \in Requests \ {r} : UNCHANGED pc[s]
      BY <2>3, MovingRequest DEF GoTo, PastReserve
    <3>2. Progress(r)'
      BY <3>1 DEF Progress
    <3> QED BY <1>0, <2>1, <2>3, <3>1, <3>2, LocalStep
  <2>4. CASE /\ pc[r] = "complete" /\ GoTo(r, "abandon") /\ UNCHANGED answer
             /\ records' = Stored(r, 201, r)
    <3>1. pc'[r] = "abandon" /\ \A s \in Requests \ {r} : UNCHANGED pc[s]
      BY <2>4, MovingRequest DEF GoTo
    <3> QED BY <1>0, <1>11, <2>1, <2>4, <3>1, StoreStep DEF PastReserve, PCs
  <2> QED BY <1>14, <2>2, <2>3, <2>4 DEF Reject, PastReserve
<1>15. ASSUME NEW r \in Requests, Die(r) PROVE IInv'
  <2>1. /\ UNCHANGED <<sent, records, customers, customer, links, payment, events, answer>>
        /\ pc'[r] = "end" /\ \A s \in Requests \ {r} : UNCHANGED pc[s]
    BY <1>15, MovingRequest DEF Die, GoTo
  <2>2. Progress(r)' /\ Backed(r)' = Backed(r)
    BY <2>1 DEF Progress, Backed, Open, HasCustomer, Body
  <2> QED BY <1>0, <2>1, <2>2, LocalStep DEF PastReserve
<1>16. ASSUME NEW p \in Requests, Close(p) PROVE IInv'
  <2>1. /\ UNCHANGED <<sent, pc, records, customers, customer, links, events, answer>>
        /\ payment[p] \in {"created", "pending"}
        /\ payment'[p] \in {"canceled", "expired"}
        /\ \A s \in Requests \ {p} : UNCHANGED payment[s]
    BY <1>16, MovingRequest, ClosedFromOpen DEF Close
  <2>2. payment[p] # None /\ Open(p)'
    BY <2>1, NoneAssumption DEF Open, Status
  <2>3. Progress(p)'
    BY <2>1, <2>2, MovingRequest DEF Progress, HasCustomer, Body, Open
  <2>4. Backed(p) => Backed(p)'
    BY <2>1, <2>2 DEF Backed, HasCustomer, Body
  <2> QED BY <1>0, <2>1, <2>2, <2>3, <2>4, LocalStep
<1>17. CASE UNCHANGED vars
  BY <1>17, SMTT(30) DEF vars, IInv, TypeOK, OwnersOK, Owns, RecordsOK, ProgressOK,
     Progress, CompletedOK, AnswersOK, Success, Backed, Open, HasCustomer,
     Record, Key, Body, hashBody
<1> QED BY <1>1, <1>2, <1>3, <1>4, <1>5, <1>6, <1>7, <1>8, <1>9, <1>10, <1>12,
           <1>13, <1>14, <1>15, <1>16, <1>17 DEF Next, Step

(* The inductive invariant holds in every reachable state. *)
THEOREM Invariance == Spec => []IInv
<1>1. Init => IInv
  BY InitInv
<1>2. IInv /\ [Next]_vars => IInv'
  BY InvStep
<1> QED BY <1>1, <1>2, PTL DEF Spec

THEOREM TypeCorrect == Spec => []TypeOK
<1>1. IInv => TypeOK
  BY DEF IInv
<1> QED BY <1>1, Invariance, PTL

(* A key buys one payment, for any retries, failures and crashes: the      *)
(* unique index of reserve() is what makes a request the owner of its key. *)
THEOREM OnePaymentPerKeyHolds == Spec => []OnePaymentPerKey
<1>1. IInv => OnePaymentPerKey
  BY DEF IInv, OwnersOK, Owns, Record, OnePaymentPerKey
<1> QED BY <1>1, Invariance, PTL

(* Every successful answer under a key names the payment of its owner, and *)
(* that payment has its link, its customer and both events.                *)
LEMMA SuccessesNameTheOwner ==
  ASSUME IInv, NEW r \in Requests, Success(r)
  PROVE  \E o \in Requests :
           /\ answer[r].payment = o /\ Record(r) # None /\ Record(r).owner = o
           /\ Key(o) = Key(r) /\ hashBody(Body(o)) = hashBody(Body(r))
           /\ Backed(o)
<1>1. /\ Record(r) # None
      /\ answer[r].payment = Record(r).owner
      /\ Record(r).requestHash = hashBody(Body(r))
      /\ Backed(Record(r).owner)
  BY DEF IInv, AnswersOK
<1>2. Key(r) \in Keys /\ Record(r).owner \in Requests
  BY <1>1 DEF IInv, TypeOK, Key, Record, Records
<1>3. /\ Key(Record(r).owner) = Key(r)
      /\ Record(r).requestHash = hashBody(Body(Record(r).owner))
  BY <1>1, <1>2 DEF IInv, RecordsOK, Record
<1> QED BY <1>1, <1>2, <1>3

(* A replay is the original: same payment, same key, same hash.            *)
THEOREM ReplayIsOriginalHolds == Spec => []ReplayIsOriginal
<1>1. ASSUME IInv PROVE ReplayIsOriginal
  <2> SUFFICES ASSUME NEW r \in Requests, Success(r)
               PROVE  /\ answer[r].payment \in Requests
                      /\ payment[answer[r].payment] # None
                      /\ Key(answer[r].payment) = Key(r)
                      /\ hashBody(Body(answer[r].payment)) = hashBody(Body(r))
                      /\ \A s \in Requests : Success(s) /\ Key(s) = Key(r) =>
                           answer[s].payment = answer[r].payment
    BY DEF ReplayIsOriginal
  <2>1. PICK o \in Requests :
          /\ answer[r].payment = o /\ Record(r).owner = o
          /\ Key(o) = Key(r) /\ hashBody(Body(o)) = hashBody(Body(r))
          /\ Backed(o)
    BY <1>1, SuccessesNameTheOwner
  <2>2. payment[o] # None
    BY <2>1 DEF Backed, Open
  <2>3. ASSUME NEW s \in Requests, Success(s), Key(s) = Key(r)
        PROVE  answer[s].payment = o
    <3>1. answer[s].payment = Record(s).owner
      BY <1>1, <2>3, SuccessesNameTheOwner
    <3> QED BY <2>1, <2>3, <3>1 DEF Record
  <2> QED BY <2>1, <2>2, <2>3
<1> QED BY <1>1, Invariance, PTL

(* A payment reported to the merchant is completely recorded, whatever     *)
(* failed or died on the way.                                              *)
THEOREM AnswerIsBackedHolds == Spec => []AnswerIsBacked
<1>1. ASSUME IInv PROVE AnswerIsBacked
  BY <1>1, SuccessesNameTheOwner DEF AnswerIsBacked, Backed, Open, HasCustomer
<1> QED BY <1>1, Invariance, PTL

(* The record of a key is written by its owner only and stays on guard.    *)
THEOREM RecordKeepsItsOwnerHolds == Spec => RecordKeepsItsOwner
<1> DEFINE Kept(k) == records[k] # None =>
             /\ records'[k] # None
             /\ records'[k].owner = records[k].owner
             /\ records'[k].requestHash = records[k].requestHash
             /\ records'[k] # records[k] =>
                  pc[records[k].owner] \in {"complete", "abandon"}
<1>1. ASSUME IInv, [Next]_vars, NEW k \in Keys PROVE Kept(k)
  <2>1. CASE records' = records
    BY <2>1
  <2>2. CASE \E r \in Requests :
               /\ pc[r] \in {"complete", "abandon"}
               /\ \E st \in {InFlight, 201}, b \in Requests \cup {None} :
                    records' = Stored(r, st, b)
    <3>1. PICK r \in Requests, st \in {InFlight, 201}, b \in Requests \cup {None} :
            pc[r] \in {"complete", "abandon"} /\ records' = Stored(r, st, b)
      BY <2>2
    <3>2. pc[r] \in PastReserve
      BY <3>1 DEF PastReserve, PCs
    <3>3. /\ k # Key(r) => records'[k] = records[k]
          /\ records'[Key(r)] \in Records
          /\ records'[Key(r)].owner = r
          /\ records'[Key(r)].requestHash = Record(r).requestHash
      BY <1>1, <3>1, <3>2, StoredType DEF IInv
    <3>4. Record(r).owner = r
      BY <1>1, <3>2 DEF IInv, OwnersOK, Owns
    <3> QED BY <3>1, <3>3, <3>4, RecordAssumption DEF Record
  <2>3. CASE \E r \in Requests : Reserve(r)
    BY <2>3, <1>1 DEF Reserve, IInv, TypeOK, Record
  <2>4. CASE \E r \in Requests : Check(r) \/ FindCustomer(r) \/ CreateCustomer(r)
               \/ Destination(r) \/ CheckoutLink(r) \/ CreatePayment(r)
               \/ EmitCreated(r) \/ ToPending(r) \/ EmitPending(r) \/ Die(r) \/ Close(r)
    BY <2>1, <2>4 DEF Check, FindCustomer, CreateCustomer, Destination, CheckoutLink,
       CreatePayment, EmitCreated, ToPending, EmitPending, Die, Close
  <2>5. CASE \E r \in Requests : Complete(r) \/ Abandon(r) \/ Reject(r)
    BY <2>1, <2>2, <2>5 DEF Complete, Abandon, Reject
  <2>6. CASE UNCHANGED vars
    BY <2>1, <2>6 DEF vars
  <2> QED BY <1>1, <2>3, <2>4, <2>5, <2>6 DEF Next, Step
<1>2. IInv /\ [Next]_vars => [\A k \in Keys : Kept(k)]_vars
  BY <1>1
<1> QED BY <1>2, Invariance, PTL DEF Spec, RecordKeepsItsOwner
=============================================================================
