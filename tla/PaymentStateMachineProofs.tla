--------------------- MODULE PaymentStateMachineProofs ---------------------
(***************************************************************************)
(* For any payments, callers and hashes: the inductive invariant of        *)
(* PaymentStateMachine, the safety properties that follow from it, and the *)
(* refinement of the atomic contract PaymentLifecycle.                     *)
(***************************************************************************)
EXTENDS PaymentStateMachine, TLAPS

(* Every row of the transition table climbs, and none starts in a terminal *)
(* status: ALLOWED_FROM has no cycle and no way out of a final status.     *)
LEMMA TableClimbs ==
  ASSUME NEW t \in Targets, NEW s \in AllowedFrom[t]
  PROVE  /\ s \in Status
         /\ s \notin Terminal
         /\ Rank(s) < Rank(t)
<1>1. CASE t \in {"pending", "confirmed", "completed"}
  BY <1>1 DEF Targets, Status, AllowedFrom, Terminal, Rank
<1>2. CASE t \in {"failed", "expired", "canceled"}
  BY <1>2 DEF Targets, Status, AllowedFrom, Terminal, Rank
<1> QED BY <1>1, <1>2 DEF Targets, Status

(* A status is terminal exactly when its rank is the highest. *)
LEMMA RankType ==
  ASSUME NEW s \in Status
  PROVE  /\ Rank(s) \in 0..3
         /\ s \in Terminal <=> Rank(s) = 3
<1>1. CASE s \in {"created", "pending", "confirmed"}
  <2>1. \E t \in Targets : s \in AllowedFrom[t]
    <3>1. "created" \in AllowedFrom["pending"] /\ "pending" \in AllowedFrom["confirmed"]
          /\ "confirmed" \in AllowedFrom["completed"]
      BY DEF AllowedFrom
    <3> QED BY <1>1, <3>1 DEF Targets, Status
  <2> QED BY <1>1, <2>1 DEF Terminal, Rank
<1>2. CASE s \in {"completed", "failed", "expired", "canceled"}
  <2>1. ASSUME NEW t \in Targets PROVE s \notin AllowedFrom[t]
    <3>1. CASE t \in {"pending", "confirmed", "completed"}
      BY <1>2, <3>1 DEF AllowedFrom
    <3>2. CASE t \in {"failed", "expired", "canceled"}
      BY <1>2, <3>2 DEF AllowedFrom
    <3> QED BY <3>1, <3>2 DEF Targets, Status
  <2> QED BY <1>2, <2>1 DEF Terminal, Rank
<1> QED BY <1>1, <1>2 DEF Status

(* The steps of a call, without the disjunction they come in. *)
LEMMA StepCases ==
  ASSUME [Next]_vars
  PROVE  \/ \E w \in Workers, p \in Payments, t \in Targets, h \in Hashes \cup {NoHash} :
              Load(w, p, t, h)
         \/ \E w \in Workers : UpdateMany(w)
         \/ \E w \in Workers : Reload(w)
         \/ \E w \in Workers : Lost(w)
         \/ \E w \in Workers : Emit(w)
         \/ \E w \in Workers : Dispatch(w)
         \/ \E w \in Workers : UpdateConflict(w) \/ Interrupt(w)
         \/ \E w \in Workers : UpdateNothing(w)
         \/ UNCHANGED vars
  BY DEF Next, Step

(* The type invariant is inductive but for the snapshot an Emit stores,    *)
(* which CallsOK types.                                                    *)
LEMMA TypeStep ==
  ASSUME TypeOK, CallsOK, [Next]_vars
  PROVE  TypeOK'
<1> USE DEF TypeOK
<1>1. ASSUME NEW w \in Workers, NEW p \in Payments, NEW t \in Targets,
             NEW h \in Hashes \cup {NoHash}, Load(w, p, t, h)
      PROVE  TypeOK'
  BY <1>1 DEF Load, Calls
<1>2. ASSUME NEW w \in Workers, UpdateMany(w) PROVE TypeOK'
  <2>1. call[w] \in Calls
    BY <1>2 DEF UpdateMany, Idle
  <2>2. call[w].to \in Status
    BY <2>1 DEF Calls, Targets
  <2> QED BY <1>2, <2>1, <2>2 DEF UpdateMany, GoTo, Calls
<1>3. ASSUME NEW w \in Workers, Reload(w) PROVE TypeOK'
  <2>1. call[w] \in Calls
    BY <1>3 DEF Reload, Idle
  <2> QED BY <1>3, <2>1 DEF Reload, Reread, Calls
<1>4. ASSUME NEW w \in Workers, Lost(w) PROVE TypeOK'
  <2>1. call[w] \in Calls
    BY <1>4 DEF Lost, Idle
  <2> QED BY <1>4, <2>1 DEF Lost, Reread, Throw, Calls
<1>5. ASSUME NEW w \in Workers, Emit(w) PROVE TypeOK'
  <2>1. call[w] \in Calls
    BY <1>5 DEF Emit, Idle
  <2>2. call[w].seen \in Targets
    BY <1>5, <2>1 DEF Emit, CallsOK, Calls
  <2> QED BY <1>5, <2>1, <2>2 DEF Emit, GoTo, Throw, Calls, Event
<1>6. ASSUME NEW w \in Workers, Dispatch(w) PROVE TypeOK'
  <2>1. call[w] \in Calls
    BY <1>6 DEF Dispatch, Idle
  <2> QED BY <1>6, <2>1 DEF Dispatch, GoTo, Calls
<1>7. ASSUME NEW w \in Workers, UpdateConflict(w) \/ Interrupt(w) PROVE TypeOK'
  BY <1>7 DEF UpdateConflict, Interrupt, Throw
<1>8. ASSUME NEW w \in Workers, UpdateNothing(w) PROVE TypeOK'
  <2>1. call[w] \in Calls
    BY <1>8 DEF UpdateNothing, Idle
  <2> QED BY <1>8, <2>1 DEF UpdateNothing, GoTo, Calls
<1>9. CASE UNCHANGED vars
  BY <1>9 DEF vars
<1> QED BY <1>1, <1>2, <1>3, <1>4, <1>5, <1>6, <1>7, <1>8, <1>9, StepCases

(* Behind is an order on statuses, and a move along the table goes up it. *)
LEMMA BehindOrder ==
  ASSUME NEW r \in Status, NEW s \in Status, NEW t \in Status
  PROVE  /\ Behind(s, s)
         /\ Behind(r, s) /\ Behind(s, t) => Behind(r, t)
         /\ Behind(s, t) /\ Rank(t) < Rank(r) => Rank(s) < Rank(r)
  BY RankType DEF Behind

LEMMA InitInv == Init => IInv
<1> SUFFICES ASSUME Init PROVE IInv
  OBVIOUS
<1>1. TypeOK
  BY DEF Init, TypeOK, Status, Targets
<1>2. EnteredOK /\ Attribution /\ HashesUnique /\ SnapshotNotBehind
  BY DEF Init, EnteredOK, Attribution, HashesUnique, SnapshotNotBehind
<1>3. CallsOK /\ EmitNeverConflicts /\ OneAnnouncer
  BY DEF Init, Idle, CallsOK, EmitNeverConflicts, OneAnnouncer
<1> QED BY <1>1, <1>2, <1>3 DEF IInv

(* The update is the only step that moves a payment. *)
LEMMA UpdatePreserves ==
  ASSUME IInv, NEW w \in Workers, UpdateMany(w)
  PROVE  /\ EnteredOK' /\ Attribution' /\ HashesUnique'
         /\ SnapshotNotBehind' /\ CallsOK' /\ EmitNeverConflicts' /\ OneAnnouncer'
<1> DEFINE c == call[w]
           p == c.payment
<1>1. c \in Calls /\ p \in Payments /\ c.to \in Targets /\ c.to \in Status
  BY DEF IInv, TypeOK, UpdateMany, Idle, Calls, Targets
<1>2. status[p] \in AllowedFrom[c.to] /\ status[p] \in Status
  BY <1>1 DEF UpdateMany, StillAllowed, IInv, TypeOK
<1>3. Rank(status[p]) < Rank(c.to)
  BY <1>1, <1>2, TableClimbs
<1>4. c.to \notin entered[p]
  <2>1. ASSUME c.to \in entered[p] PROVE FALSE
    <3>1. Behind(c.to, status[p])
      BY <1>1, <2>1 DEF IInv, EnteredOK
    <3> QED BY <1>1, <1>2, <1>3, <3>1, RankType DEF Behind
  <2> QED BY <2>1
<1>5. /\ status' = [status EXCEPT ![p] = c.to]
      /\ entered' = [entered EXCEPT ![p] = @ \cup {c.to}]
      /\ call' = [call EXCEPT ![w].pc = "reload"]
      /\ events' = events
  BY DEF UpdateMany, GoTo
<1>6. EnteredOK'
  <2> SUFFICES ASSUME NEW q \in Payments
               PROVE  /\ \A t \in entered'[q] : Behind(t, status'[q])
                      /\ status'[q] = "created" \/ status'[q] \in entered'[q]
    BY DEF EnteredOK, Behind
  <2>1. CASE q # p
    BY <1>1, <1>5, <2>1 DEF IInv, TypeOK, EnteredOK
  <2>2. CASE q = p
    <3>1. status'[p] = c.to /\ entered'[p] = entered[p] \cup {c.to}
      BY <1>1, <1>5 DEF IInv, TypeOK
    <3>2. ASSUME NEW t \in entered[p] PROVE Behind(t, c.to)
      <4>1. Behind(t, status[p]) /\ t \in Status
        BY <1>1, <3>2 DEF IInv, EnteredOK, TypeOK, Targets
      <4> QED BY <1>1, <1>2, <1>3, <4>1, BehindOrder DEF Behind
    <3> QED BY <1>1, <2>2, <3>1, <3>2, BehindOrder
  <2> QED BY <2>1, <2>2
<1>7. Attribution'
  <2>1. \A q \in Payments : q # p =>
           /\ status'[q] = status[q] /\ entered'[q] = entered[q]
           /\ transactionHash'[q] = transactionHash[q]
    BY <1>1, <1>5 DEF UpdateMany, IInv, TypeOK
  <2>2. status'[p] = c.to /\ entered'[p] = entered[p] \cup {c.to}
    BY <1>1, <1>5 DEF IInv, TypeOK
  <2>3. CASE c.to = "confirmed"
    <3>1. transactionHash'[p] = c.hash
      BY <1>1, <2>3 DEF UpdateMany, IInv, TypeOK
    <3>2. c.hash # NoHash
      BY <1>1, <2>3 DEF UpdateMany, IInv, CallsOK
    <3> QED BY <2>1, <2>2, <2>3, <3>1, <3>2 DEF Attribution, IInv
  <2>4. CASE c.to # "confirmed"
    <3>1. transactionHash' = transactionHash
      BY <2>4 DEF UpdateMany
    <3>2. c.to \in {"pending", "expired", "canceled"} => status[p] \in {"created", "pending"}
      BY <1>2 DEF AllowedFrom
    <3>3. c.to # "created"
      BY <1>1 DEF Targets
    <3> QED BY <1>1, <2>1, <2>2, <2>4, <3>1, <3>2, <3>3 DEF Attribution, IInv
  <2> QED BY <2>3, <2>4
<1>8. HashesUnique'
  <2>1. CASE c.to = "confirmed"
    <3>1. transactionHash' = [transactionHash EXCEPT ![p] = c.hash]
      BY <2>1 DEF UpdateMany
    <3>2. c.hash # NoHash
      BY <1>1, <2>1 DEF UpdateMany, IInv, CallsOK
    <3>3. \A q \in Payments \ {p} : transactionHash[q] # c.hash
      BY <3>2 DEF UpdateMany, HashTaken
    <3> QED BY <1>1, <3>1, <3>2, <3>3 DEF HashesUnique, IInv, TypeOK
  <2>2. CASE c.to # "confirmed"
    BY <2>2 DEF UpdateMany, HashesUnique, IInv
  <2> QED BY <2>1, <2>2
<1>9. SnapshotNotBehind'
  BY <1>1, <1>5 DEF SnapshotNotBehind, IInv, TypeOK, Behind
<1>10. CallsOK'
  <2> SUFFICES ASSUME NEW v \in Workers
               PROVE  LET d == call'[v] IN
                      /\ d.pc = "update" => (d.hash = NoHash) = (d.to # "confirmed")
                      /\ d.pc \in {"reload", "emit", "dispatch", "returned"} =>
                           d.to \in entered'[d.payment]
                      /\ d.pc \in {"emit", "dispatch", "returned"} =>
                           /\ d.seen \in entered'[d.payment]
                           /\ Behind(d.to, d.seen)
    BY DEF CallsOK, Behind
  <2>1. CASE v = w
    <3>1. /\ call'[w].pc = "reload" /\ call'[w].to = c.to
          /\ call'[w].payment = p /\ c.to \in entered'[p]
      BY <1>1, <1>5 DEF IInv, TypeOK, Calls
    <3> QED BY <2>1, <3>1
  <2>2. CASE v # w
    <3>1. call'[v] = call[v]
      BY <1>5, <2>2 DEF IInv, TypeOK
    <3>2. \A q \in Payments : entered[q] \subseteq entered'[q]
      BY <1>1, <1>5 DEF IInv, TypeOK
    <3>3. call[v].pc \in {"reload", "emit", "dispatch", "returned"} =>
            call[v].payment \in Payments
      BY DEF IInv, TypeOK, Calls, Idle
    <3> QED BY <3>1, <3>2, <3>3 DEF IInv, CallsOK
  <2> QED BY <2>1, <2>2
<1>11. ~HasEvent(p, c.to)
  BY <1>1, <1>4 DEF HasEvent, IInv, SnapshotNotBehind
<1>12. EmitNeverConflicts'
  <2> SUFFICES ASSUME NEW v \in Workers, call'[v].pc \in {"reload", "emit"}
               PROVE  ~HasEvent(call'[v].payment, call'[v].to)
    BY <1>5 DEF EmitNeverConflicts, HasEvent
  <2>1. CASE v = w
    BY <1>1, <1>5, <1>11, <2>1 DEF IInv, TypeOK, Calls
  <2>2. CASE v # w
    BY <1>5, <2>2 DEF IInv, TypeOK, EmitNeverConflicts
  <2> QED BY <2>1, <2>2
<1>13. OneAnnouncer'
  <2>1. /\ call'[w].pc = "reload" /\ call'[w].to = c.to /\ call'[w].payment = p
        /\ \A v \in Workers : v # w => call'[v] = call[v]
    BY <1>1, <1>5 DEF IInv, TypeOK, Calls
  <2>2. ASSUME NEW v \in Workers, v # w, call[v].pc \in {"reload", "emit"},
               call[v].payment = p
        PROVE  call[v].to # c.to
    BY <1>4, <2>2 DEF IInv, CallsOK
  <2> QED BY <2>1, <2>2 DEF OneAnnouncer, IInv
<1> QED BY <1>6, <1>7, <1>8, <1>9, <1>10, <1>12, <1>13

(* Every other step leaves the payments alone: it moves one call on.       *)
LEMMA CallStepPreserves ==
  ASSUME IInv, TypeOK', NEW w \in Workers,
         UNCHANGED <<status, transactionHash, entered>>,
         \A v \in Workers : v # w => call'[v] = call[v],
         SnapshotNotBehind',
         LET d == call'[w] IN
           /\ d.pc = "update" => (d.hash = NoHash) = (d.to # "confirmed")
           /\ d.pc \in {"reload", "emit", "dispatch", "returned"} =>
                d.to \in entered[d.payment]
           /\ d.pc \in {"emit", "dispatch", "returned"} =>
                /\ d.seen \in entered[d.payment]
                /\ Behind(d.to, d.seen)
           /\ d.pc \in {"reload", "emit"} =>
                /\ call[w].pc \in {"reload", "emit"}
                /\ call[w].payment = d.payment
                /\ call[w].to = d.to,
         \/ events' = events
         \/ /\ call[w].pc = "emit"
            /\ call'[w].pc = "dispatch"
            /\ \A q \in Payments, t \in Targets :
                 HasEvent(q, t)' =>
                   HasEvent(q, t) \/ (q = call[w].payment /\ t = call[w].to)
  PROVE  IInv'
<1>1. EnteredOK' /\ Attribution' /\ HashesUnique'
  BY DEF IInv, EnteredOK, Attribution, HashesUnique, Behind
<1>2. CallsOK'
  BY DEF IInv, CallsOK, Behind
<1>3. OneAnnouncer'
  BY DEF IInv, OneAnnouncer
<1>4. EmitNeverConflicts'
  <2> SUFFICES ASSUME NEW v \in Workers, call'[v].pc \in {"reload", "emit"}
               PROVE  ~\E e \in events'[call'[v].payment] : e.type = call'[v].to
    BY DEF EmitNeverConflicts, HasEvent
  <2>1. /\ call[v].pc \in {"reload", "emit"}
        /\ call[v].payment = call'[v].payment
        /\ call[v].to = call'[v].to
        /\ ~HasEvent(call[v].payment, call[v].to)
    BY DEF IInv, EmitNeverConflicts
  <2>2. call'[v].payment \in Payments /\ call'[v].to \in Targets
    BY DEF TypeOK, Calls, Idle
  <2>3. CASE events' = events
    BY <2>1, <2>3 DEF HasEvent
  <2>4. CASE /\ call[w].pc = "emit"
             /\ call'[w].pc = "dispatch"
             /\ \A q \in Payments, t \in Targets :
                  HasEvent(q, t)' =>
                    HasEvent(q, t) \/ (q = call[w].payment /\ t = call[w].to)
    <3>1. v # w
      BY <2>4
    <3>2. ~(call[v].payment = call[w].payment /\ call[v].to = call[w].to)
      BY <2>1, <2>4, <3>1 DEF IInv, OneAnnouncer
    <3> QED BY <2>1, <2>2, <2>4, <3>2 DEF HasEvent
  <2> QED BY <2>3, <2>4
<1> QED BY <1>1, <1>2, <1>3, <1>4 DEF IInv

LEMMA InvStep ==
  ASSUME IInv, [Next]_vars
  PROVE  IInv'
<1>t. TypeOK'
  BY TypeStep DEF IInv
<1>1. ASSUME NEW w \in Workers, NEW p \in Payments, NEW t \in Targets,
             NEW h \in Hashes \cup {NoHash}, Load(w, p, t, h)
      PROVE  IInv'
  <2>1. call'[w] = [pc |-> "update", payment |-> p, to |-> t, hash |-> h,
                    seen |-> status[p]]
    BY <1>1 DEF Load, IInv, TypeOK
  <2>2. \A v \in Workers : v # w => call'[v] = call[v]
    BY <1>1 DEF Load, IInv, TypeOK
  <2>3. SnapshotNotBehind'
    BY <1>1 DEF Load, IInv, SnapshotNotBehind, Behind
  <2>4. UNCHANGED <<status, transactionHash, entered, events>>
        /\ (h = NoHash) = (t # "confirmed")
    BY <1>1 DEF Load
  <2> QED BY <1>t, <2>1, <2>2, <2>3, <2>4, CallStepPreserves
<1>2. ASSUME NEW w \in Workers, UpdateMany(w) PROVE IInv'
  BY <1>t, <1>2, UpdatePreserves DEF IInv
<1>3. ASSUME NEW w \in Workers, Reload(w) PROVE IInv'
  <2>1. /\ call[w] \in Calls /\ call[w].pc = "reload"
        /\ UNCHANGED <<status, transactionHash, entered, events>>
        /\ call' = [call EXCEPT ![w].pc = "emit", ![w].seen = status[call[w].payment]]
    BY <1>3 DEF Reload, Reread, IInv, TypeOK, Idle
  <2>2. /\ call'[w].pc = "emit" /\ call'[w].to = call[w].to
        /\ call'[w].payment = call[w].payment
        /\ call'[w].seen = status[call[w].payment]
        /\ \A v \in Workers : v # w => call'[v] = call[v]
    BY <2>1 DEF IInv, TypeOK, Calls
  <2>3. /\ call[w].payment \in Payments
        /\ call[w].to \in entered[call[w].payment]
    BY <2>1 DEF Calls, IInv, CallsOK
  <2>4. /\ status[call[w].payment] \in entered[call[w].payment]
        /\ Behind(call[w].to, status[call[w].payment])
    <3>1. Behind(call[w].to, status[call[w].payment])
      BY <2>3 DEF IInv, EnteredOK
    <3>2. status[call[w].payment] # "created"
      BY <2>1, <2>3, <3>1, RankType DEF Behind, Rank, Calls, Targets, Status
    <3> QED BY <2>3, <3>1, <3>2 DEF IInv, EnteredOK
  <2>5. SnapshotNotBehind'
    BY <2>1 DEF IInv, SnapshotNotBehind, Behind
  <2> QED BY <1>t, <2>1, <2>2, <2>3, <2>4, <2>5, CallStepPreserves
<1>4. ASSUME NEW w \in Workers, Lost(w) PROVE IInv'
  <2>1. /\ call[w] \in Calls /\ call[w].pc = "lost"
        /\ UNCHANGED <<status, transactionHash, entered, events>>
        /\ \A v \in Workers : v # w => call'[v] = call[v]
    BY <1>4 DEF Lost, Reread, Throw, IInv, TypeOK, Idle
  <2>2. SnapshotNotBehind'
    BY <2>1 DEF IInv, SnapshotNotBehind, Behind
  <2>3. CASE status[call[w].payment] = call[w].to
    <3>1. /\ call'[w].pc = "returned" /\ call'[w].to = call[w].to
          /\ call'[w].payment = call[w].payment /\ call'[w].seen = call[w].to
      BY <1>4, <2>1, <2>3 DEF Lost, Reread, IInv, TypeOK, Calls
    <3>2. /\ call[w].to \in entered[call[w].payment]
          /\ Behind(call[w].to, call[w].to)
      BY <2>1, <2>3 DEF IInv, EnteredOK, Calls, Targets, Behind
    <3> QED BY <1>t, <2>1, <2>2, <3>1, <3>2, CallStepPreserves
  <2>4. CASE status[call[w].payment] # call[w].to
    <3>1. call'[w].pc = "idle"
      BY <1>4, <2>4 DEF Lost, Throw, Idle, IInv, TypeOK
    <3> QED BY <1>t, <2>1, <2>2, <3>1, CallStepPreserves
  <2> QED BY <2>3, <2>4
<1>5. ASSUME NEW w \in Workers, Emit(w) PROVE IInv'
  <2> DEFINE c == call[w]
  <2>1. /\ c \in Calls /\ c.pc = "emit" /\ c.payment \in Payments
        /\ UNCHANGED <<status, transactionHash, entered>>
    BY <1>5 DEF Emit, IInv, TypeOK, Idle, Calls
  <2>2. ~HasEvent(c.payment, c.to)
    BY <2>1 DEF IInv, EmitNeverConflicts
  <2>3. /\ events' = [events EXCEPT ![c.payment] =
                              @ \cup {[type |-> c.to, seen |-> c.seen]}]
        /\ call' = [call EXCEPT ![w].pc = "dispatch"]
    BY <1>5, <2>2 DEF Emit, GoTo
  <2>4. /\ call'[w].pc = "dispatch" /\ call'[w].to = c.to
        /\ call'[w].payment = c.payment /\ call'[w].seen = c.seen
        /\ \A v \in Workers : v # w => call'[v] = call[v]
    BY <2>1, <2>3 DEF IInv, TypeOK, Calls
  <2>5. /\ c.to \in entered[c.payment] /\ c.seen \in entered[c.payment]
        /\ Behind(c.to, c.seen)
    BY <2>1 DEF IInv, CallsOK
  <2>6. SnapshotNotBehind'
    BY <2>1, <2>3, <2>5 DEF IInv, TypeOK, SnapshotNotBehind, Behind
  <2>7. \A q \in Payments, t \in Targets :
          HasEvent(q, t)' => HasEvent(q, t) \/ (q = c.payment /\ t = c.to)
    BY <2>1, <2>3 DEF HasEvent, IInv, TypeOK
  <2> QED BY <1>t, <2>1, <2>4, <2>5, <2>6, <2>7, CallStepPreserves
<1>6. ASSUME NEW w \in Workers, Dispatch(w) PROVE IInv'
  <2>1. /\ call[w] \in Calls /\ call[w].pc = "dispatch"
        /\ UNCHANGED <<status, transactionHash, entered, events>>
        /\ call' = [call EXCEPT ![w].pc = "returned"]
    BY <1>6 DEF Dispatch, GoTo, IInv, TypeOK, Idle
  <2>2. /\ call'[w].pc = "returned" /\ call'[w].to = call[w].to
        /\ call'[w].payment = call[w].payment /\ call'[w].seen = call[w].seen
        /\ \A v \in Workers : v # w => call'[v] = call[v]
    BY <2>1 DEF IInv, TypeOK, Calls
  <2>3. /\ call[w].to \in entered[call[w].payment]
        /\ call[w].seen \in entered[call[w].payment]
        /\ Behind(call[w].to, call[w].seen)
    BY <2>1 DEF IInv, CallsOK
  <2>4. SnapshotNotBehind'
    BY <2>1 DEF IInv, SnapshotNotBehind, Behind
  <2> QED BY <1>t, <2>1, <2>2, <2>3, <2>4, CallStepPreserves
<1>7. ASSUME NEW w \in Workers, UpdateConflict(w) \/ Interrupt(w) PROVE IInv'
  <2>1. /\ UNCHANGED <<status, transactionHash, entered, events>>
        /\ call'[w].pc = "idle"
        /\ \A v \in Workers : v # w => call'[v] = call[v]
    BY <1>7 DEF UpdateConflict, Interrupt, Throw, Idle, IInv, TypeOK
  <2>2. SnapshotNotBehind'
    BY <2>1 DEF IInv, SnapshotNotBehind, Behind
  <2> QED BY <1>t, <2>1, <2>2, CallStepPreserves
<1>8. ASSUME NEW w \in Workers, UpdateNothing(w) PROVE IInv'
  <2>1. /\ call[w] \in Calls
        /\ UNCHANGED <<status, transactionHash, entered, events>>
        /\ call' = [call EXCEPT ![w].pc = "lost"]
    BY <1>8 DEF UpdateNothing, GoTo, IInv, TypeOK, Idle
  <2>2. /\ call'[w].pc = "lost"
        /\ \A v \in Workers : v # w => call'[v] = call[v]
    BY <2>1 DEF IInv, TypeOK, Calls
  <2>3. SnapshotNotBehind'
    BY <2>1 DEF IInv, SnapshotNotBehind, Behind
  <2> QED BY <1>t, <2>1, <2>2, <2>3, CallStepPreserves
<1>9. CASE UNCHANGED vars
  BY <1>9 DEF vars, IInv, TypeOK, EnteredOK, Attribution, HashesUnique,
              SnapshotNotBehind, CallsOK, EmitNeverConflicts, OneAnnouncer,
              HasEvent, Behind
<1> QED BY <1>1, <1>2, <1>3, <1>4, <1>5, <1>6, <1>7, <1>8, <1>9, StepCases

-----------------------------------------------------------------------------
(* The invariant holds in every reachable state. *)
THEOREM Invariance == Spec => []IInv
<1>1. IInv /\ UNCHANGED vars => IInv'
  BY InvStep
<1> QED BY InitInv, InvStep, <1>1, PTL DEF Spec

(* Every variable keeps its type, whatever the callers do. *)
THEOREM TypeCorrect == Spec => []TypeOK
<1>1. IInv => TypeOK
  BY DEF IInv
<1> QED BY <1>1, Invariance, PTL

(* Canceled and expired payments hold no transaction; confirmed ones do. *)
THEOREM AttributionHolds == Spec => []Attribution
<1>1. IInv => Attribution
  BY DEF IInv
<1> QED BY <1>1, Invariance, PTL

(* No two payments are paid by one transaction. *)
THEOREM HashesUniqueHolds == Spec => []HashesUnique
<1>1. IInv => HashesUnique
  BY DEF IInv
<1> QED BY <1>1, Invariance, PTL

(* The unique index on (paymentId, type) never makes a transition throw. *)
THEOREM EmitNeverConflictsHolds == Spec => []EmitNeverConflicts
<1>1. IInv => EmitNeverConflicts
  BY DEF IInv
<1> QED BY <1>1, Invariance, PTL

(* Snapshots are never older than the move they announce. *)
THEOREM SnapshotNotBehindHolds == Spec => []SnapshotNotBehind
<1>1. IInv => SnapshotNotBehind
  BY DEF IInv
<1> QED BY <1>1, Invariance, PTL

(* A call that returned reports a move that was made. *)
THEOREM SuccessIsRealHolds == Spec => []SuccessIsReal
<1>1. IInv => SuccessIsReal
  BY DEF IInv, CallsOK, SuccessIsReal
<1> QED BY <1>1, Invariance, PTL

(* At most one outcome is announced, the one the payment has. *)
THEOREM OneOutcomeHolds == Spec => []OneOutcome
<1>1. ASSUME IInv, NEW p \in Payments, NEW e \in events[p], e.type \in Terminal
      PROVE  status[p] = e.type
  <2>1. e.type \in Status /\ status[p] \in Status
    BY <1>1 DEF IInv, TypeOK, Event, Targets
  <2>2. Behind(e.type, status[p])
    BY <1>1 DEF IInv, SnapshotNotBehind, EnteredOK
  <2> QED BY <1>1, <2>1, <2>2, RankType DEF Behind
<1>2. IInv => OneOutcome
  BY <1>1 DEF OneOutcome
<1> QED BY <1>2, Invariance, PTL

(* A payment never leaves a terminal status and no event is rewritten. *)
THEOREM TerminalIsFinalHolds == Spec => TerminalIsFinal
<1> DEFINE Final == \A p \in Payments :
                      /\ status[p] \in Terminal =>
                           /\ status'[p] = status[p]
                           /\ transactionHash'[p] = transactionHash[p]
                      /\ events[p] \subseteq events'[p]
<1>1. ASSUME IInv, [Next]_vars PROVE [Final]_vars
  <2>1. ASSUME NEW w \in Workers, UpdateMany(w) PROVE Final
    <3>1. /\ call[w] \in Calls /\ call[w].payment \in Payments
          /\ call[w].to \in Targets
      BY <1>1, <2>1 DEF UpdateMany, IInv, TypeOK, Idle, Calls
    <3>2. status[call[w].payment] \in AllowedFrom[call[w].to]
      BY <2>1 DEF UpdateMany, StillAllowed
    <3>3. status[call[w].payment] \notin Terminal
      BY <3>1, <3>2, TableClimbs
    <3> QED BY <1>1, <2>1, <3>1, <3>3 DEF UpdateMany, IInv, TypeOK
  <2>2. ASSUME NEW w \in Workers, Emit(w) PROVE Final
    BY <1>1, <2>2 DEF Emit, IInv, TypeOK
  <2>3. ASSUME UNCHANGED <<status, transactionHash, events>> PROVE Final
    BY <2>3
  <2>4. \/ \E w \in Workers : UpdateMany(w)
        \/ \E w \in Workers : Emit(w)
        \/ UNCHANGED <<status, transactionHash, events>>
    BY <1>1, StepCases DEF Load, Reload, Lost, Dispatch, UpdateConflict,
                           UpdateNothing, Interrupt, vars
  <2> QED BY <2>1, <2>2, <2>3, <2>4
<1> QED BY <1>1, Invariance, PTL DEF Spec, TerminalIsFinal

-----------------------------------------------------------------------------
(* Both specifications speak of the same table. *)
LEMMA SameTable == Lifecycle!AllowedFrom = AllowedFrom /\ Lifecycle!Targets = Targets
  BY DEF Lifecycle!AllowedFrom, AllowedFrom, Lifecycle!Targets, Targets,
         Lifecycle!Status, Status

(* Where no event is written, nothing is announced. *)
LEMMA SameAnnounced ==
  ASSUME UNCHANGED events
  PROVE  UNCHANGED Announced
  BY DEF Announced

(* Each step of a call is a step of the atomic contract, or is invisible.  *)
LEMMA LifecycleStep ==
  ASSUME IInv, IInv', [Next]_vars
  PROVE  [Lifecycle!Next]_Lifecycle!vars
<1>1. ASSUME NEW w \in Workers, UpdateMany(w) PROVE Lifecycle!Next
  <2> DEFINE c == call[w]
             p == c.payment
  <2>1. c \in Calls /\ p \in Payments /\ c.to \in Targets
    BY <1>1 DEF UpdateMany, IInv, TypeOK, Idle, Calls
  <2>2. /\ status[p] \in AllowedFrom[c.to]
        /\ status' = [status EXCEPT ![p] = c.to]
        /\ entered' = [entered EXCEPT ![p] = @ \cup {c.to}]
        /\ events' = events
    BY <1>1 DEF UpdateMany, StillAllowed
  <2>3. Announced' = Announced
    BY <2>2, SameAnnounced
  <2>4. CASE c.to = "confirmed"
    <3>1. c.hash \in Hashes /\ c.hash # NoHash
      BY <1>1, <2>1, <2>4 DEF UpdateMany, IInv, CallsOK, Calls
    <3>2. transactionHash' = [transactionHash EXCEPT ![p] = c.hash]
      BY <1>1, <2>4 DEF UpdateMany
    <3>3. transactionHash[p] = NoHash
      BY <2>1, <2>2, <2>4 DEF IInv, Attribution, AllowedFrom
    <3>4. \A q \in Payments : transactionHash[q] # c.hash
      BY <1>1, <3>1, <3>3 DEF UpdateMany, HashTaken
    <3>5. Lifecycle!Confirm(p, c.hash)
      BY <2>2, <2>3, <2>4, <3>2, <3>4, SameTable DEF Lifecycle!Confirm
    <3> QED BY <2>1, <3>1, <3>5 DEF Lifecycle!Next
  <2>5. CASE c.to # "confirmed"
    <3>1. transactionHash' = transactionHash
      BY <1>1, <2>5 DEF UpdateMany
    <3>2. Lifecycle!Advance(p, c.to)
      BY <2>2, <2>3, <2>5, <3>1, SameTable DEF Lifecycle!Advance
    <3> QED BY <2>1, <3>2, SameTable DEF Lifecycle!Next
  <2> QED BY <2>4, <2>5
<1>2. ASSUME NEW w \in Workers, Emit(w) PROVE Lifecycle!Next
  <2> DEFINE c == call[w]
             p == c.payment
  <2>1. c \in Calls /\ p \in Payments /\ c.to \in Targets /\ c.pc = "emit"
    BY <1>2 DEF Emit, IInv, TypeOK, Idle, Calls
  <2>2. ~HasEvent(p, c.to) /\ c.to \in entered[p]
    BY <2>1 DEF IInv, EmitNeverConflicts, CallsOK
  <2>3. events' = [events EXCEPT ![p] = @ \cup {[type |-> c.to, seen |-> c.seen]}]
    BY <1>2, <2>2 DEF Emit
  <2>4. Announced' = [Announced EXCEPT ![p] = @ \cup {c.to}]
    <3> DEFINE new == [type |-> c.to, seen |-> c.seen]
    <3>1. events'[p] = events[p] \cup {new}
      BY <2>1, <2>3 DEF IInv, TypeOK
    <3>2. \A q \in Payments : q # p => events'[q] = events[q]
      BY <2>1, <2>3 DEF IInv, TypeOK
    <3>3. new.type = c.to
      OBVIOUS
    <3>4. {e.type : e \in events'[p]} = {e.type : e \in events[p]} \cup {c.to}
      <4> HIDE DEF new
      <4> QED BY <3>1, <3>3, Zenon
    <3> QED BY <2>1, <3>2, <3>4 DEF Announced
  <2>5. c.to \notin Announced[p]
    BY <2>1, <2>2 DEF Announced, HasEvent
  <2>6. UNCHANGED <<status, transactionHash, entered>>
    BY <1>2 DEF Emit
  <2>7. Lifecycle!Announce(p, c.to)
    BY <2>2, <2>4, <2>5, <2>6 DEF Lifecycle!Announce
  <2> QED BY <2>1, <2>7, SameTable DEF Lifecycle!Next
<1>3. ASSUME UNCHANGED <<status, transactionHash, entered, events>>
      PROVE  UNCHANGED Lifecycle!vars
  BY <1>3, SameAnnounced DEF Lifecycle!vars
<1>4. \/ \E w \in Workers : UpdateMany(w)
      \/ \E w \in Workers : Emit(w)
      \/ UNCHANGED <<status, transactionHash, entered, events>>
  BY StepCases DEF Load, Reload, Lost, Dispatch, UpdateConflict,
                   UpdateNothing, Interrupt, vars
<1> QED BY <1>1, <1>2, <1>3, <1>4

(* The code, one action per await, implements the atomic lifecycle. *)
THEOREM ImplementsLifecycle == Spec => LifecycleSpec
<1>1. Init => Lifecycle!Init
  BY DEF Init, Lifecycle!Init, Announced
<1> QED BY <1>1, LifecycleStep, Invariance, PTL DEF Spec, LifecycleSpec, Lifecycle!Spec
=============================================================================
