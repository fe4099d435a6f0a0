-------------------------- MODULE ReconcilerProofs --------------------------
(***************************************************************************)
(* For any payments, pods, ledger and attempts, with outages, failing      *)
(* calls, dying pods and lost locks: outcomes are grounded in the ledger,  *)
(* links show the attribution, a payment is counted once while its         *)
(* finality job keeps its lock, and its amount is missing only where pods  *)
(* updated the customer at once.                                           *)
(***************************************************************************)
EXTENDS Reconciler, TLAPS

Paid == {"confirmed", "completed", "failed"}

(* A payment, the operations with its memo, and its row in the books. *)
PaymentOK(p) ==
  /\ hash[p] \in 0..Len(ledger[p])
  /\ hash[p] # 0 => ledger[p][hash[p]] = "valid" /\ status[p] \in Paid
  /\ status[p] \in {"confirmed", "completed"} => hash[p] # 0
  /\ status[p] = "failed" /\ hash[p] = 0 => \E i \in 1..Len(ledger[p]) : ledger[p][i] = "wrong"
  /\ status[p] = "expired" => overdue[p]
  /\ \A i \in 1..Len(ledger[p]) : ledger[p][i] = "late" => overdue[p]

BooksOK(p) ==
  /\ link[p] # 0 => link[p] = hash[p]
  /\ count[p] > 0 => status[p] = "completed"
  /\ value[p] <= count[p]

(* What a transition about to be made rests on. *)
VerdictOK(t) ==
  /\ t.to \in {"confirmed", "failed", "expired"}
  /\ t.to = "confirmed" => t.seen \in 1..Len(ledger[t.payment]) /\ ledger[t.payment][t.seen] = "valid"
  /\ t.to = "failed" => \E i \in 1..Len(ledger[t.payment]) : ledger[t.payment][i] = "wrong"
  /\ t.to = "expired" => overdue[t.payment]

PollPCs == {"next", "horizon", "load", "cas", "syncLink", "enqueue"}
CheckPCs == {"find", "getTransaction", "load", "cas", "syncLink", "readCustomer", "updateCustomer"}

TaskOK(w) ==
  LET t == worker[w] IN
  /\ t.pc = "idle" <=> t.job = "none"
  /\ t.pc \notin {"idle", "next"} => t.payment \in Payments
  /\ t.job = "poll" =>
       /\ t.pc \in PollPCs
       /\ t.pc \in {"load", "cas"} => VerdictOK(t)
       /\ t.pc = "syncLink" => t.to = "confirmed"
  /\ t.job \in {"finality", "zombie"} =>
       /\ t.pc \in CheckPCs
       /\ t.pc # "find" => hash[t.payment] # 0
       /\ t.pc \in {"load", "cas"} => t.to \in {"completed", "failed"}
       /\ t.pc = "syncLink" => t.to = "completed"
  /\ t.pc = "syncLink" => hash[t.payment] # 0 /\ status[t.payment] \in Paid
  /\ t.pc = "syncLink" /\ t.to = "completed" => status[t.payment] = "completed"
  /\ t.pc \in {"readCustomer", "updateCustomer"} => status[t.payment] = "completed"
  /\ t.pc = "updateCustomer" => t.read \in [Payments -> Nat] /\ \A q \in Payments : t.read[q] <= count[q]

(* While nobody lost the lock of a job, one pod at most works on it, and none that *)
(* is past find() works on a payment that was counted.                             *)
Holds(w, p) == worker[w].job = "finality" /\ worker[w].payment = p

LockOK(p) ==
  p \notin lockLost =>
    /\ count[p] <= 1
    /\ \A w \in Workers : worker[w].payment = p => worker[w].job # "zombie"
    /\ \A w \in Workers :
         Holds(w, p) => /\ finality[p].state = "active"
                        /\ worker[w].pc # "find" => count[p] = 0
    /\ \A v, w \in Workers : Holds(v, p) /\ Holds(w, p) => v = w

IInv ==
  /\ TypeOK
  /\ \A p \in Payments : PaymentOK(p) /\ BooksOK(p) /\ LockOK(p)
  /\ \A w \in Workers : TaskOK(w)

-----------------------------------------------------------------------------
(* Facts of the table and of the types *)

LEMMA Table ==
  /\ AllowedFrom["confirmed"] = {"pending"} /\ AllowedFrom["completed"] = {"confirmed"}
  /\ AllowedFrom["failed"] = {"pending", "confirmed"}
  /\ AllowedFrom["expired"] = {"created", "pending"}
  /\ AllowedFrom["canceled"] = {"created", "pending"} /\ AllowedFrom["pending"] = {"created"}
  BY DEF AllowedFrom

LEMMA IdleType == Idle \in Tasks /\ \A todo \in SUBSET Payments : Polling(todo) \in Tasks
<1>1. Idle \in Tasks
  BY DEF Idle, Tasks
<1>2. ASSUME NEW todo \in SUBSET Payments PROVE Polling(todo) \in Tasks
  BY <1>1, <1>2 DEF Polling, Idle, Tasks
<1> QED BY <1>1, <1>2

(* Nobody but w moves. *)
Others(w) == /\ worker' \in [Workers -> Tasks]
             /\ \A v \in Workers : v # w => worker'[v] = worker[v]

LEMMA MoveType ==
  ASSUME TypeOK, NEW w \in Workers, NEW t \in Tasks, worker' = [worker EXCEPT ![w] = t]
  PROVE  Others(w) /\ worker'[w] = t
  BY DEF Others, TypeOK

LEMMA GoToType ==
  ASSUME TypeOK, NEW w \in Workers, NEW pc, GoTo(w, pc),
         pc \in {"cas", "syncLink", "enqueue", "getTransaction", "readCustomer"}
  PROVE  /\ Others(w) /\ worker'[w] = [worker[w] EXCEPT !.pc = pc]
         /\ worker'[w].pc = pc /\ worker'[w].job = worker[w].job
         /\ worker'[w].payment = worker[w].payment /\ worker'[w].to = worker[w].to
         /\ worker'[w].seen = worker[w].seen
<1> DEFINE t == [worker[w] EXCEPT !.pc = pc]
<1>1. worker[w] \in Tasks /\ worker \in [Workers -> Tasks]
  BY DEF TypeOK
<1>2. t \in Tasks
  BY <1>1 DEF Tasks
<1>3. /\ t.pc = pc /\ t.job = worker[w].job /\ t.payment = worker[w].payment
      /\ t.to = worker[w].to /\ t.seen = worker[w].seen
  BY <1>1 DEF Tasks
<1>4. worker' = [worker EXCEPT ![w] = t]
  BY <1>1 DEF GoTo
<1> HIDE DEF t
<1>5. Others(w) /\ worker'[w] = t
  BY <1>2, <1>4, MoveType
<1> QED BY <1>3, <1>5 DEF t

LEMMA TransitionType ==
  ASSUME TypeOK, NEW w \in Workers, NEW to \in Targets, NEW seen \in Nat, Transition(w, to, seen)
  PROVE  /\ Others(w)
         /\ worker'[w].pc = "load" /\ worker'[w].to = to /\ worker'[w].seen = seen
         /\ worker'[w].job = worker[w].job /\ worker'[w].payment = worker[w].payment
<1>1. worker[w] \in Tasks /\ worker \in [Workers -> Tasks]
  BY DEF TypeOK
<1> DEFINE a == [worker[w] EXCEPT !.pc = "load"]
           b == [a EXCEPT !.to = to]
           t == [b EXCEPT !.seen = seen]
<1>2. a \in Tasks
  BY <1>1 DEF Tasks
<1>3. b \in Tasks
  BY <1>2 DEF Tasks
<1>4. t \in Tasks
  BY <1>3 DEF Tasks
<1>5. /\ t.pc = "load" /\ t.to = to /\ t.seen = seen
      /\ t.job = worker[w].job /\ t.payment = worker[w].payment
  BY <1>1 DEF Tasks
<1>6. worker' = [worker EXCEPT ![w] = t]
  BY <1>1 DEF Transition
<1> HIDE DEF t
<1> QED BY <1>4, <1>5, <1>6, MoveType

-----------------------------------------------------------------------------
(* What no step undoes keeps the tasks of the pods that do not move. *)
WorldGrows ==
  \A p \in Payments :
    /\ hash[p] # 0 => hash'[p] = hash[p]
    /\ status[p] = "completed" => status'[p] = "completed"
    /\ status[p] \in Paid => status'[p] \in Paid
    /\ overdue[p] => overdue'[p]
    /\ \A i \in 1..Len(ledger[p]) : i \in 1..Len(ledger'[p]) /\ ledger'[p][i] = ledger[p][i]
    /\ count[p] <= count'[p]

LEMMA TaskKept ==
  ASSUME TypeOK, TypeOK', WorldGrows, NEW w \in Workers, TaskOK(w), worker'[w] = worker[w]
  PROVE  TaskOK(w)'
<1> DEFINE t == worker[w]
<1>1. t.pc \notin {"idle", "next"} => t.payment \in Payments
  BY DEF TaskOK
<1>2. t.job = "poll" /\ t.pc \in {"load", "cas"} => VerdictOK(t)'
  <2> SUFFICES ASSUME t.job = "poll", t.pc \in {"load", "cas"} PROVE VerdictOK(t)'
    OBVIOUS
  <2>1. VerdictOK(t) /\ t.payment \in Payments
    BY <1>1 DEF TaskOK
  <2>2. /\ overdue[t.payment] => overdue'[t.payment]
        /\ \A i \in 1..Len(ledger[t.payment]) :
             i \in 1..Len(ledger'[t.payment]) /\ ledger'[t.payment][i] = ledger[t.payment][i]
    BY <2>1 DEF WorldGrows
  <2> QED BY <2>1, <2>2 DEF VerdictOK
<1>3. t.pc \notin {"idle", "next"} =>
        /\ hash[t.payment] # 0 => hash'[t.payment] # 0
        /\ status[t.payment] = "completed" => status'[t.payment] = "completed"
        /\ status[t.payment] \in Paid => status'[t.payment] \in Paid
  BY <1>1 DEF WorldGrows
<1>4. t.pc = "updateCustomer" => t.read \in [Payments -> Nat] /\ \A q \in Payments : t.read[q] <= count'[q]
  <2> SUFFICES ASSUME t.pc = "updateCustomer", NEW q \in Payments
               PROVE  t.read \in [Payments -> Nat] /\ t.read[q] <= count'[q]
    BY DEF TaskOK
  <2>2. t.read \in [Payments -> Nat]
    BY DEF TaskOK
  <2>3. t.read[q] \in Nat /\ count[q] \in Nat /\ count'[q] \in Nat
    BY <2>2 DEF TypeOK
  <2>4. t.read[q] <= count[q] /\ count[q] <= count'[q]
    BY DEF TaskOK, WorldGrows
  <2> QED BY <2>2, <2>3, <2>4
<1>5. t.job = "poll" =>
        /\ t.pc \in PollPCs
        /\ t.pc \in {"load", "cas"} => VerdictOK(t)'
        /\ t.pc = "syncLink" => t.to = "confirmed"
  BY <1>2 DEF TaskOK
<1>6. t.job \in {"finality", "zombie"} =>
        /\ t.pc \in CheckPCs
        /\ t.pc # "find" => hash'[t.payment] # 0
        /\ t.pc \in {"load", "cas"} => t.to \in {"completed", "failed"}
        /\ t.pc = "syncLink" => t.to = "completed"
  BY <1>3 DEF TaskOK, CheckPCs
<1>7. /\ t.pc = "syncLink" => hash'[t.payment] # 0 /\ status'[t.payment] \in Paid
      /\ t.pc = "syncLink" /\ t.to = "completed" => status'[t.payment] = "completed"
      /\ t.pc \in {"readCustomer", "updateCustomer"} => status'[t.payment] = "completed"
  BY <1>3 DEF TaskOK
<1>8. t.pc = "idle" <=> t.job = "none"
  BY DEF TaskOK
<1>9. TaskOK(w)' <=>
        /\ t.pc = "idle" <=> t.job = "none"
        /\ t.pc \notin {"idle", "next"} => t.payment \in Payments
        /\ t.job = "poll" =>
             /\ t.pc \in PollPCs
             /\ t.pc \in {"load", "cas"} => VerdictOK(t)'
             /\ t.pc = "syncLink" => t.to = "confirmed"
        /\ t.job \in {"finality", "zombie"} =>
             /\ t.pc \in CheckPCs
             /\ t.pc # "find" => hash'[t.payment] # 0
             /\ t.pc \in {"load", "cas"} => t.to \in {"completed", "failed"}
             /\ t.pc = "syncLink" => t.to = "completed"
        /\ t.pc = "syncLink" => hash'[t.payment] # 0 /\ status'[t.payment] \in Paid
        /\ t.pc = "syncLink" /\ t.to = "completed" => status'[t.payment] = "completed"
        /\ t.pc \in {"readCustomer", "updateCustomer"} => status'[t.payment] = "completed"
        /\ t.pc = "updateCustomer" => t.read \in [Payments -> Nat] /\ \A q \in Payments : t.read[q] <= count'[q]
  BY DEF TaskOK
<1> QED BY <1>1, <1>4, <1>5, <1>6, <1>7, <1>8, <1>9

(* What a step of pod w may do to the locks. *)
LEMMA LockStep ==
  ASSUME IInv, NEW w \in Workers, Others(w), NEW p \in Payments,
         lockLost \subseteq lockLost',
         p \notin lockLost' =>
           /\ \/ count'[p] = count[p]
              \/ Holds(w, p) /\ ~Holds(w, p)' /\ count'[p] <= 1
           /\ \/ finality'[p].state = finality[p].state
              \/ finality[p].state # "active"
              \/ Holds(w, p)
           /\ worker'[w].payment = p => worker'[w].job # "zombie"
           /\ Holds(w, p)' => /\ finality'[p].state = "active"
                              /\ worker'[w].pc # "find" => count'[p] = 0
                              /\ Holds(w, p) \/ finality[p].state # "active"
  PROVE  LockOK(p)'
<1> SUFFICES ASSUME p \notin lockLost'
             PROVE  /\ count'[p] <= 1
                    /\ \A v \in Workers : worker'[v].payment = p => worker'[v].job # "zombie"
                    /\ \A v \in Workers :
                         Holds(v, p)' => /\ finality'[p].state = "active"
                                         /\ worker'[v].pc # "find" => count'[p] = 0
                    /\ \A u, v \in Workers : Holds(u, p)' /\ Holds(v, p)' => u = v
  BY DEF LockOK
<1>1. /\ count[p] <= 1
      /\ \A v \in Workers : worker[v].payment = p => worker[v].job # "zombie"
      /\ \A v \in Workers : Holds(v, p) => /\ finality[p].state = "active"
                                           /\ worker[v].pc # "find" => count[p] = 0
      /\ \A u, v \in Workers : Holds(u, p) /\ Holds(v, p) => u = v
  BY DEF IInv, LockOK
<1>2. \A v \in Workers : v # w => worker'[v] = worker[v] /\ (Holds(v, p)' <=> Holds(v, p))
  BY DEF Others, Holds
<1>3. count'[p] <= 1
  BY <1>1
<1>4. \A v \in Workers : worker'[v].payment = p => worker'[v].job # "zombie"
  BY <1>1, <1>2
<1>5. ASSUME NEW v \in Workers, v # w, Holds(v, p)'
      PROVE  /\ finality'[p].state = "active" /\ ~Holds(w, p)'
             /\ worker'[v].pc # "find" => count'[p] = 0
  <2>1. Holds(v, p) /\ worker'[v] = worker[v] /\ finality[p].state = "active" /\ ~Holds(w, p)
    BY <1>1, <1>2, <1>5
  <2> QED BY <1>1, <2>1
<1>6. ASSUME NEW v \in Workers, Holds(v, p)'
      PROVE  /\ finality'[p].state = "active"
             /\ worker'[v].pc # "find" => count'[p] = 0
  <2>1. CASE v = w
    BY <1>6, <2>1
  <2>2. CASE v # w
    BY <1>5, <1>6, <2>2
  <2> QED BY <2>1, <2>2
<1>7. ASSUME NEW u \in Workers, NEW v \in Workers, Holds(u, p)', Holds(v, p)'
      PROVE  u = v
  BY <1>1, <1>2, <1>5, <1>7
<1> QED BY <1>3, <1>4, <1>6, <1>7

(* A step of pod w that leaves payments and ledger alone. *)
LEMMA PodStep ==
  ASSUME IInv, NEW w \in Workers, Others(w), TaskOK(w)', UNCHANGED <<payments, ledger, overdue>>,
         link' \in [Payments -> Nat], count' \in [Payments -> Nat], value' \in [Payments -> Nat],
         finality' \in [Payments -> Jobs], lockLost' \subseteq Payments,
         overlapped' \subseteq Payments,
         \A p \in Payments : count[p] <= count'[p] /\ BooksOK(p)' /\ LockOK(p)'
  PROVE  IInv'
<1>1. TypeOK'
  BY DEF IInv, TypeOK, Others, payments
<1>2. WorldGrows
  BY DEF WorldGrows, payments, IInv, TypeOK
<1>3. ASSUME NEW v \in Workers PROVE TaskOK(v)'
  <2>1. CASE v = w
    BY <2>1
  <2>2. CASE v # w
    BY <1>1, <1>2, <2>2, TaskKept DEF IInv, Others
  <2> QED BY <2>1, <2>2
<1>4. \A p \in Payments : PaymentOK(p)'
  BY DEF IInv, PaymentOK, payments
<1> QED BY <1>1, <1>3, <1>4 DEF IInv

LEMMA BooksKept ==
  ASSUME IInv, UNCHANGED <<payments, books>>
  PROVE  /\ link' \in [Payments -> Nat] /\ count' \in [Payments -> Nat] /\ value' \in [Payments -> Nat]
         /\ overlapped' \subseteq Payments
         /\ \A p \in Payments : count'[p] = count[p] /\ count[p] <= count'[p] /\ BooksOK(p)'
  BY DEF IInv, TypeOK, BooksOK, payments, books, totals

(* Pod w takes its next step on the same job. *)
GoesOn(w) ==
  /\ Others(w)
  /\ worker'[w].job = worker[w].job /\ worker[w].job # "none" /\ worker'[w].pc # "find"
  /\ worker[w].job # "poll" => worker'[w].payment = worker[w].payment
  /\ worker[w].job = "finality" /\ worker[w].pc = "find" => count[worker[w].payment] = 0

LEMMA GoesOnLocks ==
  ASSUME IInv, NEW w \in Workers, GoesOn(w), UNCHANGED <<lockLost, count, finality>>,
         NEW p \in Payments
  PROVE  LockOK(p)'
<1>1. worker[w].job \in {"poll", "finality", "zombie"}
  BY DEF IInv, TypeOK, Tasks, GoesOn
<1>2. LockOK(p)
  BY DEF IInv
<1>3. p \notin lockLost /\ worker'[w].payment = p => worker'[w].job # "zombie"
  BY <1>2 DEF LockOK, GoesOn
<1>4. p \notin lockLost /\ Holds(w, p)' => Holds(w, p) /\ finality[p].state = "active" /\ count[p] = 0
  BY <1>2 DEF LockOK, Holds, GoesOn
<1> QED BY <1>3, <1>4, LockStep DEF GoesOn

LEMMA Advance ==
  ASSUME IInv, NEW w \in Workers, GoesOn(w), TaskOK(w)', UNCHANGED <<payments, world, books, finality>>
  PROVE  IInv'
<1>1. \A p \in Payments : LockOK(p)'
  BY GoesOnLocks DEF world, books, totals
<1> QED BY <1>1, BooksKept, PodStep DEF world, IInv, TypeOK, GoesOn

(* Pod w is done with its job, and at most the job it held changes its state. *)
LetsGo(w) ==
  /\ Others(w)
  /\ worker'[w].pc \in {"idle", "next"} /\ worker'[w].job \in {"none", "poll"}
  /\ worker'[w].pc = "idle" <=> worker'[w].job = "none"
  /\ finality' \in [Payments -> Jobs]
  /\ \A p \in Payments : \/ finality'[p].state = finality[p].state
                         \/ finality[p].state # "active"
                         \/ Holds(w, p)

LEMMA LetsGoTask ==
  ASSUME NEW w \in Workers, LetsGo(w)
  PROVE  TaskOK(w)'
  BY DEF LetsGo, TaskOK, PollPCs

LEMMA LetsGoLocks ==
  ASSUME IInv, NEW w \in Workers, LetsGo(w), UNCHANGED <<lockLost, count>>, NEW p \in Payments
  PROVE  LockOK(p)'
<1>1. ~Holds(w, p)' /\ worker'[w].job # "zombie"
  BY DEF LetsGo, Holds
<1> QED BY <1>1, LockStep DEF LetsGo

LEMMA LetsGoStep ==
  ASSUME IInv, NEW w \in Workers, LetsGo(w), UNCHANGED <<payments, world, books>>
  PROVE  IInv'
<1>1. \A p \in Payments : LockOK(p)'
  BY LetsGoLocks DEF world, books, totals
<1> QED BY <1>1, LetsGoTask, BooksKept, PodStep DEF world, IInv, TypeOK, LetsGo

LEMMA JobTypes ==
  /\ NoJob \in Jobs /\ NoJob.state = "none"
  /\ \A j \in Jobs : /\ j.attempts \in Nat /\ j.stalled \in BOOLEAN
                     /\ \A s \in {"waiting", "active", "failed"}, b \in BOOLEAN, n \in Nat :
                          [state |-> s, attempts |-> n, stalled |-> b] \in Jobs
  BY DEF NoJob, Jobs

LEMMA HolderWorks ==
  ASSUME IInv, NEW w \in Workers, worker[w].job \in {"finality", "zombie"}
  PROVE  worker[w].payment \in Payments /\ worker[w].pc \in CheckPCs
  BY DEF IInv, TaskOK, CheckPCs

LEMMA PollingEnds ==
  ASSUME IInv, NEW w \in Workers, NEW t \in {Idle} \cup {Polling(todo) : todo \in SUBSET Payments},
         worker' = [worker EXCEPT ![w] = t], finality' \in [Payments -> Jobs],
         \A p \in Payments : \/ finality'[p].state = finality[p].state
                             \/ finality[p].state # "active"
                             \/ Holds(w, p)
  PROVE  LetsGo(w)
<1>1. t \in Tasks
  BY IdleType
<1>2. Others(w) /\ worker'[w] = t
  BY <1>1, MoveType DEF IInv
<1>3. t.pc \in {"idle", "next"} /\ t.job \in {"none", "poll"} /\ (t.pc = "idle" <=> t.job = "none")
  <2>1. Idle.pc = "idle" /\ Idle.job = "none"
    BY DEF Idle
  <2>2. \A todo : Polling(todo).pc = "next" /\ Polling(todo).job = "poll"
    BY DEF Polling, Idle
  <2> QED BY <2>1, <2>2
<1> QED BY <1>2, <1>3 DEF LetsGo

(* Only the job of the payment that w holds changes. *)
LEMMA HeldJobChanges ==
  ASSUME IInv, NEW w \in Workers, worker[w].job = "finality", NEW j \in Jobs,
         finality' = [finality EXCEPT ![worker[w].payment] = j]
  PROVE  /\ finality' \in [Payments -> Jobs]
         /\ \A p \in Payments : finality'[p].state = finality[p].state \/ Holds(w, p)
  BY HolderWorks DEF IInv, TypeOK, Holds

LEMMA ReturnEnds ==
  ASSUME IInv, NEW w \in Workers, Return(w)
  PROVE  LetsGo(w)
<1>1. worker[w] \in Tasks /\ worker[w].todo \in SUBSET Payments
  BY DEF IInv, TypeOK, Tasks
<1>2. finality \in [Payments -> Jobs]
  BY DEF IInv, TypeOK
<1>3. CASE worker[w].job = "poll"
  BY <1>1, <1>2, <1>3, PollingEnds DEF Return
<1>4. CASE worker[w].job = "finality"
  BY <1>4, JobTypes, HeldJobChanges, PollingEnds DEF Return
<1>5. CASE worker[w].job \notin {"poll", "finality"}
  BY <1>2, <1>5, PollingEnds DEF Return
<1> QED BY <1>3, <1>4, <1>5

LEMMA ThrowEnds ==
  ASSUME IInv, NEW w \in Workers, Throw(w)
  PROVE  LetsGo(w)
<1>1. finality \in [Payments -> Jobs]
  BY DEF IInv, TypeOK
<1>2. CASE worker[w].job = "finality"
  <2> DEFINE p == worker[w].payment
             s == IF finality[p].attempts + 1 < MaxAttempts THEN "waiting" ELSE "failed"
             j == [state |-> s, attempts |-> finality[p].attempts + 1, stalled |-> finality[p].stalled]
  <2>1. p \in Payments /\ finality[p] \in Jobs
    BY <1>1, <1>2, HolderWorks
  <2>2. j \in Jobs
    BY <2>1, JobTypes
  <2>3. worker' = [worker EXCEPT ![w] = Idle] /\ finality' = [finality EXCEPT ![p] = j]
    BY <1>1, <1>2, <2>1 DEF Throw
  <2> HIDE DEF j
  <2> QED BY <1>2, <2>2, <2>3, HeldJobChanges, PollingEnds
<1>3. CASE worker[w].job # "finality"
  BY <1>1, <1>3, PollingEnds DEF Throw
<1> QED BY <1>2, <1>3

LEMMA RedeliveredJob ==
  ASSUME IInv, NEW p \in Payments, finality' = Redelivered(p)
  PROVE  \E j \in Jobs : finality' = [finality EXCEPT ![p] = j]
<1>1. finality[p] \in Jobs /\ finality \in [Payments -> Jobs]
  BY DEF IInv, TypeOK
<1> DEFINE s == IF finality[p].stalled THEN "failed" ELSE "waiting"
           j == [state |-> s, attempts |-> finality[p].attempts, stalled |-> TRUE]
<1>2. j \in Jobs
  BY <1>1, JobTypes
<1>3. finality' = [finality EXCEPT ![p] = j]
  BY <1>1 DEF Redelivered
<1> HIDE DEF j
<1> QED BY <1>2, <1>3

-----------------------------------------------------------------------------
(* The poll *)

LEMMA Worker ==
  ASSUME IInv, NEW w \in Workers
  PROVE  /\ worker[w] \in Tasks /\ TaskOK(w) /\ worker \in [Workers -> Tasks]
         /\ finality \in [Payments -> Jobs]
         /\ worker[w].job \in {"none", "poll", "finality", "zombie"}
         /\ worker[w].pc = "next" => worker[w].job = "poll"
  BY DEF IInv, TypeOK, TaskOK, Tasks, CheckPCs

LEMMA PollOK ==
  ASSUME IInv, NEW w \in Workers, Poll(w)
  PROVE  IInv'
<1>1. {p \in Payments : status[p] = "pending"} \in SUBSET Payments
  OBVIOUS
<1>2. LetsGo(w)
  BY <1>1, Worker, PollingEnds DEF Poll
<1> QED BY <1>2, LetsGoStep DEF Poll

LEMMA PollNextOK ==
  ASSUME IInv, NEW w \in Workers, PollNext(w)
  PROVE  IInv'
<1> DEFINE t == worker[w]
<1>1. /\ t \in Tasks /\ t.pc = "next" /\ t.job = "poll" /\ worker \in [Workers -> Tasks]
      /\ UNCHANGED <<payments, world, books, finality>>
  BY Worker DEF PollNext
<1>2. CASE worker' = [worker EXCEPT ![w] = Idle]
  BY <1>1, <1>2, Worker, PollingEnds, LetsGoStep
<1>3. ASSUME NEW p \in t.todo,
             worker' = [worker EXCEPT ![w] =
               [t EXCEPT !.todo = @ \ {p}, !.payment = p,
                         !.pc = IF overdue[p] THEN "load" ELSE "horizon",
                         !.to = IF overdue[p] THEN "expired" ELSE None]]
      PROVE  IInv'
  <2> DEFINE a == [t EXCEPT !.todo = t.todo \ {p}]
             b == [a EXCEPT !.payment = p]
             c == [b EXCEPT !.pc = IF overdue[p] THEN "load" ELSE "horizon"]
             d == [c EXCEPT !.to = IF overdue[p] THEN "expired" ELSE None]
  <2>1. p \in Payments /\ a \in Tasks
    BY <1>1 DEF Tasks
  <2>2. b \in Tasks
    BY <2>1 DEF Tasks
  <2>3. c \in Tasks
    BY <2>2 DEF Tasks
  <2>4. d \in Tasks
    <3> HIDE DEF c
    <3> QED BY <2>3 DEF Tasks, Targets, Status
  <2>5. /\ d.payment = p /\ d.job = "poll"
        /\ d.pc = IF overdue[p] THEN "load" ELSE "horizon"
        /\ d.to = IF overdue[p] THEN "expired" ELSE None
    BY <1>1 DEF Tasks
  <2>6. worker' = [worker EXCEPT ![w] = d]
    BY <1>1, <1>3
  <2> HIDE DEF d
  <2>7. Others(w) /\ worker'[w] = d
    BY <2>4, <2>6, MoveType DEF IInv
  <2>8. overdue' = overdue
    BY <1>1 DEF world
  <2>9. d.pc = "load" => VerdictOK(worker[w])'
    BY <2>5, <2>7, <2>8 DEF VerdictOK
  <2>10. TaskOK(w)'
    BY <2>1, <2>5, <2>7, <2>9 DEF TaskOK, PollPCs
  <2> QED BY <1>1, <2>5, <2>7, <2>10, Advance DEF GoesOn
<1> QED BY <1>1, <1>2, <1>3 DEF PollNext

LEMMA HorizonOK ==
  ASSUME IInv, NEW w \in Workers, Horizon(w)
  PROVE  IInv'
<1> DEFINE p == worker[w].payment
<1>1. /\ worker[w].pc = "horizon" /\ worker[w].job = "poll" /\ p \in Payments
      /\ UNCHANGED <<payments, world, books>>
  BY Worker DEF Horizon, TaskOK, CheckPCs
<1>2. CASE Return(w)
  BY <1>1, <1>2, ReturnEnds, LetsGoStep
<1>3. ASSUME NEW i \in 1..Len(ledger[p]), Transition(w, Verdict(ledger[p][i]), i),
             UNCHANGED finality
      PROVE  IInv'
  <2> DEFINE v == ledger[p][i]
  <2>1. PaymentOK(p) /\ ledger[p] \in Seq(Worths) /\ ledger' = ledger /\ overdue' = overdue
    BY <1>1 DEF IInv, TypeOK, world
  <2>2. v \in Worths /\ i \in Nat
    BY <1>3, <2>1
  <2> HIDE DEF v
  <2>3. \/ v = "valid" /\ Verdict(v) = "confirmed"
        \/ v = "wrong" /\ Verdict(v) = "failed"
        \/ v = "late" /\ Verdict(v) = "expired"
    BY <2>2 DEF Worths, Verdict
  <2>8. v = "late" => overdue[p]
    BY <1>3, <2>1 DEF PaymentOK, v
  <2>4. Verdict(v) \in Targets
    BY <2>3 DEF Targets, Status
  <2>5. /\ Others(w) /\ worker'[w].pc = "load" /\ worker'[w].to = Verdict(v) /\ worker'[w].seen = i
        /\ worker'[w].job = "poll" /\ worker'[w].payment = p
    BY <1>1, <1>3, <2>2, <2>4, TransitionType DEF IInv, v
  <2>6. VerdictOK(worker[w])'
    BY <1>3, <2>1, <2>3, <2>5, <2>8 DEF VerdictOK, v
  <2>7. TaskOK(w)'
    BY <1>1, <2>5, <2>6 DEF TaskOK, PollPCs
  <2> QED BY <1>1, <1>3, <2>5, <2>7, Advance DEF GoesOn
<1> QED BY <1>1, <1>2, <1>3 DEF Horizon

LEMMA LoadOK ==
  ASSUME IInv, NEW w \in Workers, Load(w)
  PROVE  IInv'
<1>1. worker[w].pc = "load" /\ UNCHANGED <<payments, world, books>> /\ TaskOK(w)
  BY Worker DEF Load
<1>2. CASE Return(w)
  BY <1>1, <1>2, ReturnEnds, LetsGoStep
<1>3. CASE GoTo(w, "cas") /\ UNCHANGED finality
  <2>1. /\ Others(w) /\ worker'[w].pc = "cas" /\ worker'[w].job = worker[w].job
        /\ worker'[w].payment = worker[w].payment /\ worker'[w].to = worker[w].to
        /\ worker'[w].seen = worker[w].seen
    BY <1>3, GoToType DEF IInv
  <2>2. VerdictOK(worker[w]) => VerdictOK(worker[w])'
    BY <1>1, <2>1 DEF VerdictOK, world
  <2>3. TaskOK(w)'
    BY <1>1, <2>1, <2>2 DEF TaskOK, PollPCs, CheckPCs, payments
  <2>4. worker[w].job # "none"
    BY <1>1 DEF TaskOK
  <2> QED BY <1>1, <1>3, <2>1, <2>3, <2>4, Advance DEF GoesOn
<1> QED BY <1>2, <1>3 DEF Load

LEMMA EnqueueOK ==
  ASSUME IInv, NEW w \in Workers, EnqueueFinalityCheck(w)
  PROVE  IInv'
<1> DEFINE p == worker[w].payment
<1>1. /\ p \in Payments /\ worker[w].todo \in SUBSET Payments /\ finality \in [Payments -> Jobs]
      /\ worker' = [worker EXCEPT ![w] = Polling(worker[w].todo)]
      /\ UNCHANGED <<payments, world, books>>
  BY Worker DEF EnqueueFinalityCheck, TaskOK, Tasks
<1>2. Waiting \in Jobs /\ NoJob.state = "none"
  BY DEF Waiting, NoJob, Jobs
<1>3. /\ finality' \in [Payments -> Jobs]
      /\ \A q \in Payments : finality'[q].state = finality[q].state \/ finality[q].state # "active"
  BY <1>1, <1>2 DEF EnqueueFinalityCheck
<1> QED BY <1>1, <1>3, PollingEnds, LetsGoStep

-----------------------------------------------------------------------------
(* The finality check *)

LEMMA FinalizeOK ==
  ASSUME IInv, NEW w \in Workers, NEW p \in Payments, Finalize(w, p)
  PROVE  IInv'
<1> DEFINE a == [Idle EXCEPT !.pc = "find"]
           b == [a EXCEPT !.job = "finality"]
           t == [b EXCEPT !.payment = p]
<1>1. a \in Tasks
  BY IdleType DEF Tasks
<1>2. b \in Tasks
  BY <1>1 DEF Tasks
<1>9. t \in Tasks
  BY <1>2 DEF Tasks
<1>3. /\ worker[w].pc = "idle" /\ finality[p].state = "waiting"
      /\ worker' = [worker EXCEPT ![w] = t] /\ UNCHANGED <<payments, world, books>>
      /\ finality' = [finality EXCEPT ![p].state = "active"]
  BY DEF Finalize
<1>4. t.pc = "find" /\ t.job = "finality" /\ t.payment = p
  BY IdleType DEF Tasks
<1> HIDE DEF t
<1>5. Others(w) /\ worker'[w] = t
  BY <1>3, <1>9, MoveType DEF IInv
<1>6. TaskOK(w)'
  BY <1>4, <1>5 DEF TaskOK, CheckPCs
<1>7. /\ finality' \in [Payments -> Jobs] /\ finality'[p].state = "active"
      /\ \A q \in Payments : q # p => finality'[q] = finality[q]
  <2>1. finality \in [Payments -> Jobs] /\ [finality[p] EXCEPT !.state = "active"] \in Jobs
    BY Worker DEF Jobs
  <2> QED BY <1>3, <2>1 DEF Jobs
<1>8. ASSUME NEW q \in Payments PROVE LockOK(q)'
  <2>1. lockLost' = lockLost /\ count'[q] = count[q]
    BY <1>3 DEF world, books, totals
  <2>2. Holds(w, q)' => q = p /\ worker'[w].pc = "find"
    BY <1>4, <1>5 DEF Holds
  <2>3. finality'[q].state = finality[q].state \/ finality[q].state # "active"
    BY <1>3, <1>7
  <2> QED BY <1>3, <1>4, <1>5, <1>7, <2>1, <2>2, <2>3, LockStep
<1> QED BY <1>3, <1>5, <1>6, <1>7, <1>8, BooksKept, PodStep DEF world, IInv, TypeOK

LEMMA FindOK ==
  ASSUME IInv, NEW w \in Workers, Find(w)
  PROVE  IInv'
<1> DEFINE p == worker[w].payment
<1>1. /\ worker[w].pc = "find" /\ UNCHANGED <<payments, world, books>> /\ p \in Payments
      /\ worker[w].job \in {"finality", "zombie"}
  BY Worker DEF Find, TaskOK, PollPCs
<1>2. CASE Return(w)
  BY <1>1, <1>2, ReturnEnds, LetsGoStep
<1>3. CASE /\ status[p] = "confirmed" /\ hash[p] # 0
           /\ GoTo(w, "getTransaction") /\ UNCHANGED finality
  <2>1. /\ Others(w) /\ worker'[w].pc = "getTransaction" /\ worker'[w].job = worker[w].job
        /\ worker'[w].payment = p
    BY <1>3, GoToType DEF IInv
  <2>2. TaskOK(w)'
    BY <1>1, <1>3, <2>1 DEF TaskOK, CheckPCs, payments
  <2>3. BooksOK(p) /\ count[p] \in Nat
    BY <1>1 DEF IInv, TypeOK
  <2>4. count[p] = 0
    BY <1>3, <2>3 DEF BooksOK
  <2> QED BY <1>1, <1>3, <2>1, <2>2, <2>4, Advance DEF GoesOn
<1> QED BY <1>2, <1>3 DEF Find

LEMMA GetTransactionOK ==
  ASSUME IInv, NEW w \in Workers, GetTransaction(w)
  PROVE  IInv'
<1>1. /\ worker[w].pc = "getTransaction" /\ UNCHANGED <<payments, world, books, finality>>
      /\ worker[w].payment \in Payments /\ worker[w].job \in {"finality", "zombie"}
      /\ hash[worker[w].payment] # 0
  BY Worker DEF GetTransaction, TaskOK, PollPCs
<1>2. PICK to \in {"completed", "failed"} : Transition(w, to, 0)
  BY DEF GetTransaction
<1>3. to \in Targets /\ 0 \in Nat
  BY DEF Targets, Status
<1>4. /\ Others(w) /\ worker'[w].pc = "load" /\ worker'[w].to = to
      /\ worker'[w].job = worker[w].job /\ worker'[w].payment = worker[w].payment
  BY <1>2, <1>3, TransitionType DEF IInv
<1>5. TaskOK(w)'
  BY <1>1, <1>4 DEF TaskOK, CheckPCs, payments
<1> QED BY <1>1, <1>4, <1>5, Advance DEF GoesOn

LEMMA ReadCustomerTask ==
  ASSUME IInv, NEW w \in Workers, ReadCustomer(w)
  PROVE  /\ Others(w) /\ worker'[w].pc = "updateCustomer" /\ worker'[w].read = value
         /\ worker'[w].job = worker[w].job /\ worker'[w].payment = worker[w].payment
         /\ worker[w].job \in {"finality", "zombie"} /\ TaskOK(w)
<1> DEFINE a == [worker[w] EXCEPT !.pc = "updateCustomer"]
           t == [a EXCEPT !.read = value]
<1>1. /\ worker[w].pc = "readCustomer" /\ TaskOK(w)
      /\ worker[w] \in Tasks /\ value \in [Payments -> Nat] /\ worker \in [Workers -> Tasks]
  BY Worker DEF ReadCustomer, IInv, TypeOK
<1>2. a \in Tasks
  BY <1>1 DEF Tasks
<1>3. t \in Tasks
  BY <1>1, <1>2 DEF Tasks
<1>4. /\ t.pc = "updateCustomer" /\ t.job = worker[w].job /\ t.payment = worker[w].payment
      /\ t.read = value
  BY <1>1 DEF Tasks
<1>5. worker' = [worker EXCEPT ![w] = t]
  BY <1>1 DEF ReadCustomer
<1> HIDE DEF t
<1>6. Others(w) /\ worker'[w] = t
  BY <1>3, <1>5, MoveType DEF IInv
<1>7. worker[w].job \in {"finality", "zombie"}
  BY <1>1, Worker DEF TaskOK, PollPCs
<1> QED BY <1>1, <1>4, <1>6, <1>7

LEMMA ReadCustomerOK ==
  ASSUME IInv, NEW w \in Workers, ReadCustomer(w)
  PROVE  IInv'
<1>1. /\ worker[w].pc = "readCustomer"
      /\ UNCHANGED <<payments, world, link, count, value, finality>>
  BY DEF ReadCustomer
<1>2. /\ Others(w) /\ worker'[w].pc = "updateCustomer" /\ worker'[w].read = value
      /\ worker'[w].job = worker[w].job /\ worker'[w].payment = worker[w].payment
      /\ worker[w].job \in {"finality", "zombie"} /\ TaskOK(w)
  BY ReadCustomerTask
<1>3. /\ link \in [Payments -> Nat] /\ count \in [Payments -> Nat] /\ value \in [Payments -> Nat]
      /\ finality \in [Payments -> Jobs] /\ lockLost \subseteq Payments
      /\ \A q \in Payments : BooksOK(q) /\ value[q] <= count[q]
  BY DEF IInv, TypeOK, BooksOK
<1>4. TaskOK(w)'
  BY <1>1, <1>2, <1>3 DEF TaskOK, CheckPCs, payments
<1>5. overlapped' \subseteq Payments
  <2>1. \A v \in Updating \cup {w} : worker[v].payment \in Payments
    BY <1>1 DEF IInv, TaskOK, Updating
  <2>2. overlapped \subseteq Payments
    BY DEF IInv, TypeOK
  <2> QED BY <2>1, <2>2 DEF ReadCustomer
<1>6. GoesOn(w)
  BY <1>1, <1>2 DEF GoesOn
<1>7. \A q \in Payments : LockOK(q)'
  BY <1>1, <1>6, GoesOnLocks DEF world
<1>8. \A q \in Payments : count[q] <= count'[q] /\ BooksOK(q)'
  BY <1>1, <1>3 DEF BooksOK, payments
<1> QED BY <1>1, <1>2, <1>3, <1>4, <1>5, <1>7, <1>8, PodStep DEF world

-----------------------------------------------------------------------------
(* The writes *)

LEMMA SyncCheckoutLinkOK ==
  ASSUME IInv, NEW w \in Workers, SyncCheckoutLink(w)
  PROVE  IInv'
<1> DEFINE t == worker[w]
           p == t.payment
<1>1. /\ t.pc = "syncLink" /\ p \in Payments /\ TaskOK(w)
      /\ link' = [link EXCEPT ![p] = hash[p]] /\ GoTo(w, AfterLink(t.to))
      /\ UNCHANGED <<payments, world, finality, count, value, overlapped>>
  BY Worker DEF SyncCheckoutLink, TaskOK, totals
<1>2. /\ t.job = "poll" /\ t.to = "confirmed" /\ AfterLink(t.to) = "enqueue"
      \/ /\ t.job \in {"finality", "zombie"} /\ t.to = "completed"
         /\ AfterLink(t.to) = "readCustomer" /\ status[p] = "completed"
  BY <1>1, Worker DEF TaskOK, AfterLink
<1>3. /\ Others(w) /\ worker'[w].pc = AfterLink(t.to) /\ worker'[w].job = t.job
      /\ worker'[w].payment = p /\ worker'[w].to = t.to
  BY <1>1, <1>2, GoToType DEF IInv
<1>4. hash[p] # 0
  BY <1>1 DEF TaskOK
<1>5. TaskOK(w)'
  BY <1>1, <1>2, <1>3, <1>4 DEF TaskOK, PollPCs, CheckPCs, payments
<1>6. GoesOn(w)
  BY <1>1, <1>2, <1>3 DEF GoesOn
<1>7. \A q \in Payments : LockOK(q)'
  BY <1>1, <1>6, GoesOnLocks DEF world
<1>8. link \in [Payments -> Nat] /\ hash \in [Payments -> Nat]
  BY DEF IInv, TypeOK
<1>9. link' \in [Payments -> Nat]
  BY <1>1, <1>8
<1>10. ASSUME NEW q \in Payments PROVE BooksOK(q)'
  <2>1. link'[q] = link[q] \/ link'[q] = hash[q]
    BY <1>1, <1>8
  <2> QED BY <1>1, <2>1 DEF IInv, BooksOK, payments
<1>11. \A q \in Payments : count[q] <= count'[q]
  BY <1>1 DEF IInv, TypeOK
<1> QED BY <1>1, <1>3, <1>5, <1>7, <1>9, <1>10, <1>11, PodStep DEF world, IInv, TypeOK

LEMMA UpdateCustomerOK ==
  ASSUME IInv, NEW w \in Workers, UpdateCustomer(w)
  PROVE  IInv'
<1> DEFINE t == worker[w]
           p == t.payment
<1>1. /\ t.pc = "updateCustomer" /\ p \in Payments /\ TaskOK(w)
      /\ count' = [count EXCEPT ![p] = @ + 1] /\ value' = [t.read EXCEPT ![p] = @ + 1]
      /\ Return(w) /\ UNCHANGED <<payments, world, link, overlapped>>
  BY Worker DEF UpdateCustomer, TaskOK
<1>2. /\ t.job \in {"finality", "zombie"} /\ status[p] = "completed"
      /\ t.read \in [Payments -> Nat] /\ \A q \in Payments : t.read[q] <= count[q]
  BY <1>1, Worker DEF TaskOK, PollPCs
<1>3. LetsGo(w) /\ TaskOK(w)'
  BY <1>1, ReturnEnds, LetsGoTask
<1>4. count \in [Payments -> Nat]
  BY DEF IInv, TypeOK
<1>5. /\ count' \in [Payments -> Nat] /\ value' \in [Payments -> Nat]
      /\ count'[p] = count[p] + 1 /\ value'[p] = t.read[p] + 1
      /\ \A q \in Payments : q # p => count'[q] = count[q] /\ value'[q] = t.read[q]
  BY <1>1, <1>2, <1>4
<1>6. ASSUME NEW q \in Payments PROVE count[q] <= count'[q] /\ BooksOK(q)'
  <2>1. count[q] \in Nat /\ t.read[q] \in Nat /\ BooksOK(q)
    BY <1>2, <1>4 DEF IInv
  <2>2. count[q] <= count'[q] /\ value'[q] <= count'[q]
    BY <1>2, <1>5, <2>1
  <2>3. count'[q] > 0 => status[q] = "completed"
    BY <1>2, <1>5, <2>1 DEF BooksOK
  <2> QED BY <1>1, <2>1, <2>2, <2>3 DEF BooksOK, payments
<1>7. ASSUME NEW q \in Payments PROVE LockOK(q)'
  <2>1. lockLost' = lockLost /\ ~Holds(w, q)' /\ worker'[w].job # "zombie"
    BY <1>1, <1>3 DEF LetsGo, Holds, world
  <2>2. CASE q = p
    <3>1. LockOK(p)
      BY <1>1 DEF IInv
    <3>2. p \notin lockLost => Holds(w, p) /\ count[p] = 0
      BY <1>1, <1>2, <3>1 DEF LockOK, Holds
    <3>3. p \notin lockLost => Holds(w, p) /\ count'[p] <= 1
      BY <1>5, <3>2
    <3> QED BY <1>3, <2>1, <2>2, <3>3, LockStep DEF LetsGo
  <2>3. CASE q # p
    BY <1>3, <1>5, <2>1, <2>3, LockStep DEF LetsGo
  <2> QED BY <2>2, <2>3
<1> QED BY <1>1, <1>3, <1>5, <1>6, <1>7, PodStep DEF world, IInv, TypeOK, LetsGo

(* A step that changes payments, the ledger or the clock. *)
LEMMA WorldStep ==
  ASSUME IInv, TypeOK', WorldGrows, UNCHANGED books,
         \A p \in Payments : PaymentOK(p)' /\ LockOK(p)',
         \A w \in Workers : worker'[w] = worker[w] \/ TaskOK(w)'
  PROVE  IInv'
<1>1. \A w \in Workers : TaskOK(w)'
  BY TaskKept DEF IInv
<1>2. ASSUME NEW p \in Payments PROVE BooksOK(p)'
  BY DEF BooksOK, IInv, WorldGrows, books, totals
<1> QED BY <1>1, <1>2 DEF IInv

(* The compare-and-set of a payment succeeds. *)
LEMMA MoveOK ==
  ASSUME IInv, NEW p \in Payments, NEW to \in Targets, status[p] \in AllowedFrom[to],
         status' = [status EXCEPT ![p] = to], UNCHANGED <<ledger, overdue, count>>,
         to = "confirmed" =>
           \E seen \in 1..Len(ledger[p]) :
             ledger[p][seen] = "valid" /\ hash' = [hash EXCEPT ![p] = seen],
         to # "confirmed" => hash' = hash,
         to = "failed" => hash[p] # 0 \/ \E i \in 1..Len(ledger[p]) : ledger[p][i] = "wrong",
         to = "expired" => overdue[p]
  PROVE  /\ WorldGrows /\ \A q \in Payments : PaymentOK(q)'
         /\ status' \in [Payments -> Status] /\ hash' \in [Payments -> Nat]
         /\ status'[p] = to /\ to \in {"confirmed", "completed"} => hash'[p] # 0
<1>1. /\ status \in [Payments -> Status] /\ hash \in [Payments -> Nat]
      /\ ledger \in [Payments -> Seq(Worths)] /\ count \in [Payments -> Nat]
  BY DEF IInv, TypeOK
<1>2. PaymentOK(p) /\ Len(ledger[p]) \in Nat
  BY <1>1 DEF IInv
<1>3. \/ to = "pending" /\ status[p] = "created"
      \/ to = "confirmed" /\ status[p] = "pending"
      \/ to = "completed" /\ status[p] = "confirmed"
      \/ to = "failed" /\ status[p] \in {"pending", "confirmed"}
      \/ to \in {"expired", "canceled"} /\ status[p] \in {"created", "pending"}
  BY Table DEF Targets, Status
<1>4. /\ status' \in [Payments -> Status] /\ status'[p] = to
      /\ \A q \in Payments : q # p => status'[q] = status[q]
  BY <1>1 DEF Targets
<1>5. /\ hash' \in [Payments -> Nat]
      /\ \A q \in Payments : q # p => hash'[q] = hash[q]
      /\ to = "confirmed" => /\ hash'[p] \in 1..Len(ledger[p])
                             /\ ledger[p][hash'[p]] = "valid"
      /\ to # "confirmed" => hash'[p] = hash[p]
  <2>1. CASE to = "confirmed"
    <3>1. PICK seen \in 1..Len(ledger[p]) :
            ledger[p][seen] = "valid" /\ hash' = [hash EXCEPT ![p] = seen]
      BY <2>1
    <3>2. seen \in Nat
      BY <1>2, <3>1
    <3> QED BY <1>1, <2>1, <3>1, <3>2
  <2>2. CASE to # "confirmed"
    BY <1>1, <2>2
  <2> QED BY <2>1, <2>2
<1>6. ASSUME NEW q \in Payments
      PROVE  /\ hash[q] # 0 => hash'[q] = hash[q]
             /\ status[q] = "completed" => status'[q] = "completed"
             /\ status[q] \in Paid => status'[q] \in Paid
  <2>1. CASE q = p
    BY <1>2, <1>3, <1>4, <1>5, <2>1 DEF PaymentOK, Paid
  <2>2. CASE q # p
    BY <1>4, <1>5, <2>2
  <2> QED BY <2>1, <2>2
<1>7. WorldGrows
  BY <1>1, <1>6 DEF WorldGrows
<1>8. PaymentOK(p)'
  <2>1. hash'[p] \in 0..Len(ledger[p]) /\ (to \in {"confirmed", "completed"} => hash'[p] # 0)
    BY <1>2, <1>3, <1>5 DEF PaymentOK
  <2>2. hash'[p] # 0 => ledger[p][hash'[p]] = "valid" /\ to \in Paid
    BY <1>2, <1>3, <1>5 DEF PaymentOK, Paid
  <2>3. to = "failed" /\ hash'[p] = 0 => \E i \in 1..Len(ledger[p]) : ledger[p][i] = "wrong"
    BY <1>5
  <2> QED BY <1>2, <1>4, <2>1, <2>2, <2>3 DEF PaymentOK
<1>9. ASSUME NEW q \in Payments, q # p PROVE PaymentOK(q)'
  BY <1>4, <1>5, <1>9 DEF IInv, PaymentOK
<1>10. to \in {"confirmed", "completed"} => hash'[p] # 0
  BY <1>4, <1>8 DEF PaymentOK
<1> QED BY <1>4, <1>5, <1>7, <1>8, <1>9, <1>10

LEMMA CompareAndSetOK ==
  ASSUME IInv, NEW w \in Workers, CompareAndSet(w)
  PROVE  IInv'
<1> DEFINE t == worker[w]
           p == t.payment
<1>1. /\ t.pc = "cas" /\ p \in Payments /\ TaskOK(w) /\ t.job \in {"poll", "finality", "zombie"}
      /\ UNCHANGED <<world, books>>
  BY Worker DEF CompareAndSet, TaskOK
<1>2. /\ t.job = "poll" => VerdictOK(t)
      /\ t.job # "poll" => t.to \in {"completed", "failed"} /\ hash[p] # 0
  BY <1>1 DEF TaskOK
<1>3. t.to \in Targets
  BY <1>1, <1>2 DEF VerdictOK, Targets, Status
(* Who is told it succeeded goes on to the link of an attributed payment. *)
<1>4. ASSUME GoTo(w, "syncLink"), UNCHANGED finality, t.to \in {"confirmed", "completed"},
             status'[p] = t.to, hash'[p] # 0
      PROVE  GoesOn(w) /\ TaskOK(w)' /\ Others(w)
  <2>1. /\ Others(w) /\ worker'[w].pc = "syncLink" /\ worker'[w].job = t.job
        /\ worker'[w].payment = p /\ worker'[w].to = t.to
    BY <1>4, GoToType DEF IInv
  <2>2. t.job = "poll" => t.to = "confirmed"
    BY <1>2, <1>4 DEF VerdictOK
  <2>3. t.job # "poll" => t.to = "completed"
    BY <1>2, <1>4
  <2>4. TaskOK(w)'
    BY <1>1, <1>4, <2>1, <2>2, <2>3 DEF TaskOK, PollPCs, CheckPCs, Paid
  <2> QED BY <1>1, <2>1, <2>4 DEF GoesOn
<1>5. CASE status[p] \in AllowedFrom[t.to]
  <2>1. /\ status' = [status EXCEPT ![p] = t.to]
        /\ hash' = IF t.to = "confirmed" THEN [hash EXCEPT ![p] = t.seen] ELSE hash
        /\ Succeed(w)
    BY <1>5 DEF CompareAndSet
  <2>2. /\ t.to = "confirmed" => t.seen \in 1..Len(ledger[p]) /\ ledger[p][t.seen] = "valid"
        /\ t.to = "failed" => hash[p] # 0 \/ \E i \in 1..Len(ledger[p]) : ledger[p][i] = "wrong"
        /\ t.to = "expired" => overdue[p]
    BY <1>1, <1>2 DEF VerdictOK
  <2>3. UNCHANGED <<ledger, overdue, count, lockLost>>
    BY <1>1 DEF world, books, totals
  <2>4. /\ WorldGrows /\ \A q \in Payments : PaymentOK(q)'
        /\ status' \in [Payments -> Status] /\ hash' \in [Payments -> Nat]
        /\ status'[p] = t.to /\ t.to \in {"confirmed", "completed"} => hash'[p] # 0
    BY <1>1, <1>3, <1>5, <2>1, <2>2, <2>3, MoveOK
  <2>5. Others(w) /\ TaskOK(w)' /\ finality' \in [Payments -> Jobs] /\ \A q \in Payments : LockOK(q)'
    <3>1. CASE t.to \in {"confirmed", "completed"}
      <4>1. GoTo(w, "syncLink") /\ UNCHANGED finality
        BY <2>1, <3>1 DEF Succeed
      <4>2. status'[p] = t.to /\ hash'[p] # 0
        BY <1>1, <2>1, <2>4, <3>1 DEF IInv, TypeOK
      <4>3. GoesOn(w) /\ TaskOK(w)' /\ Others(w)
        BY <1>4, <3>1, <4>1, <4>2
      <4> QED BY <2>3, <4>1, <4>3, GoesOnLocks, Worker
    <3>2. CASE t.to \notin {"confirmed", "completed"}
      <4>1. LetsGo(w)
        BY <2>1, <3>2, ReturnEnds DEF Succeed
      <4> QED BY <2>3, <4>1, LetsGoTask, LetsGoLocks DEF LetsGo
    <3> QED BY <3>1, <3>2
  <2>6. TypeOK'
    BY <1>1, <2>4, <2>5 DEF IInv, TypeOK, Others, world, books, totals
  <2> QED BY <1>1, <2>4, <2>5, <2>6, WorldStep DEF Others
<1>6. CASE status[p] \notin AllowedFrom[t.to]
  <2>1. /\ IF status[p] = t.to THEN Succeed(w) ELSE Return(w)
        /\ UNCHANGED payments
    BY <1>6 DEF CompareAndSet
  <2>2. CASE Return(w)
    BY <1>1, <2>1, <2>2, ReturnEnds, LetsGoStep
  <2>3. CASE status[p] = t.to /\ Succeed(w) /\ t.to \in {"confirmed", "completed"}
    <3>1. GoTo(w, "syncLink") /\ UNCHANGED finality
      BY <2>3 DEF Succeed
    <3>2. status'[p] = t.to /\ hash'[p] # 0
      BY <1>1, <2>1, <2>3 DEF IInv, PaymentOK, payments
    <3>3. GoesOn(w) /\ TaskOK(w)'
      BY <1>4, <2>3, <3>1, <3>2
    <3> QED BY <1>1, <2>1, <3>1, <3>3, Advance
  <2> QED BY <2>1, <2>2, <2>3 DEF Succeed
<1> QED BY <1>5, <1>6
-----------------------------------------------------------------------------
(* Outages, failing calls, dying pods, lost locks *)

LEMMA HorizonUnavailableOK ==
  ASSUME IInv, NEW w \in Workers, HorizonUnavailable(w)
  PROVE  IInv'
<1>1. LetsGo(w)
  BY ReturnEnds, ThrowEnds DEF HorizonUnavailable
<1> QED BY <1>1, LetsGoStep DEF HorizonUnavailable

LEMMA RejectOK ==
  ASSUME IInv, NEW w \in Workers, Reject(w)
  PROVE  IInv'
  BY ThrowEnds, LetsGoStep DEF Reject

LEMMA DieOK ==
  ASSUME IInv, NEW w \in Workers, Die(w)
  PROVE  IInv'
<1>1. worker' = [worker EXCEPT ![w] = Idle] /\ UNCHANGED <<payments, world, books>>
  BY DEF Die
<1>2. CASE worker[w].job = "finality"
  <2>1. worker[w].payment \in Payments /\ finality' = Redelivered(worker[w].payment)
    BY <1>2, HolderWorks DEF Die
  <2>2. PICK j \in Jobs : finality' = [finality EXCEPT ![worker[w].payment] = j]
    BY <2>1, RedeliveredJob
  <2>3. LetsGo(w)
    BY <1>1, <1>2, <2>2, HeldJobChanges, PollingEnds
  <2> QED BY <1>1, <2>3, LetsGoStep
<1>3. CASE worker[w].job # "finality"
  <2>1. finality' = finality
    BY <1>3 DEF Die
  <2>2. LetsGo(w)
    BY <1>1, <2>1, Worker, PollingEnds
  <2> QED BY <1>1, <2>2, LetsGoStep
<1> QED BY <1>2, <1>3

LEMMA StallOK ==
  ASSUME IInv, NEW w \in Workers, Stall(w)
  PROVE  IInv'
<1> DEFINE p == worker[w].payment
           t == [worker[w] EXCEPT !.job = "zombie"]
<1>1. /\ worker[w].job = "finality" /\ p \in Payments /\ finality' = Redelivered(p)
      /\ lockLost' = lockLost \cup {p} /\ UNCHANGED <<payments, ledger, overdue, books>>
      /\ worker[w] \in Tasks /\ TaskOK(w) /\ worker \in [Workers -> Tasks]
  BY Worker, HolderWorks DEF Stall
<1>2. PICK j \in Jobs : finality' = [finality EXCEPT ![p] = j]
  BY <1>1, RedeliveredJob
<1>3. /\ finality' \in [Payments -> Jobs]
      /\ \A q \in Payments : q # p => finality'[q] = finality[q]
  BY <1>1, <1>2, Worker
<1>4. /\ t \in Tasks /\ t.job = "zombie" /\ t.pc = worker[w].pc /\ t.payment = p
      /\ t.to = worker[w].to /\ t.read = worker[w].read
  BY <1>1 DEF Tasks
<1>5. worker' = [worker EXCEPT ![w] = t]
  BY <1>1 DEF Stall
<1> HIDE DEF t
<1>6. Others(w) /\ worker'[w] = t
  BY <1>4, <1>5, MoveType DEF IInv
<1>7. TaskOK(w)'
  BY <1>1, <1>4, <1>6 DEF TaskOK, payments, books, totals
<1>8. ASSUME NEW q \in Payments PROVE LockOK(q)'
  <2>1. lockLost \subseteq lockLost' /\ count'[q] = count[q] /\ ~Holds(w, q)'
    BY <1>1, <1>4, <1>6 DEF Holds, books, totals
  <2>2. q \notin lockLost' => finality'[q].state = finality[q].state /\ worker'[w].payment # q
    BY <1>1, <1>3, <1>4, <1>6
  <2> QED BY <1>6, <2>1, <2>2, LockStep
<1>9. lockLost' \subseteq Payments
  BY <1>1 DEF IInv, TypeOK
<1> QED BY <1>1, <1>3, <1>6, <1>7, <1>8, <1>9, BooksKept, PodStep

-----------------------------------------------------------------------------
(* The merchant, the cron, the customer and the clock *)

LEMMA OutsideOK ==
  ASSUME IInv, NEW p \in Payments, NEW to \in {"pending", "canceled", "expired"},
         status[p] \in AllowedFrom[to], to = "expired" => overdue[p],
         status' = [status EXCEPT ![p] = to],
         UNCHANGED <<hash, world, books, finality, worker>>
  PROVE  IInv'
<1>1. to \in Targets
  BY DEF Targets, Status
<1>2. UNCHANGED <<ledger, overdue, count, lockLost>>
  BY DEF world, books, totals
<1>3. /\ WorldGrows /\ \A q \in Payments : PaymentOK(q)'
      /\ status' \in [Payments -> Status]
  BY <1>1, <1>2, MoveOK
<1>4. TypeOK'
  BY <1>3 DEF IInv, TypeOK, world, books, totals
<1>5. \A q \in Payments : LockOK(q)'
  BY <1>2 DEF IInv, LockOK, Holds
<1> QED BY <1>3, <1>4, <1>5, WorldStep

LEMMA ToPendingOK ==
  ASSUME IInv, NEW p \in Payments, ToPending(p)
  PROVE  IInv'
  BY OutsideOK DEF ToPending

LEMMA CancelOK ==
  ASSUME IInv, NEW p \in Payments, Cancel(p)
  PROVE  IInv'
  BY OutsideOK DEF Cancel

LEMMA ExpireOverdueOK ==
  ASSUME IInv, NEW p \in Payments, ExpireOverdue(p)
  PROVE  IInv'
  BY Table, OutsideOK DEF ExpireOverdue, Open

LEMMA PayOK ==
  ASSUME IInv, NEW p \in Payments, Pay(p)
  PROVE  IInv'
<1>1. UNCHANGED <<payments, overdue, lockLost, books, finality, worker>>
  BY DEF Pay
<1>2. PICK worth \in {"wrong", IF overdue[p] THEN "late" ELSE "valid"} :
        ledger' = [ledger EXCEPT ![p] = Append(@, worth)]
  BY DEF Pay
<1>3. /\ ledger \in [Payments -> Seq(Worths)] /\ hash \in [Payments -> Nat]
      /\ worth \in Worths /\ (worth = "late" => overdue[p])
  BY <1>2 DEF IInv, TypeOK, Worths
<1>4. ledger[p] \in Seq(Worths) /\ Len(ledger[p]) \in Nat
  BY <1>3
<1>5. /\ ledger'[p] = Append(ledger[p], worth)
      /\ \A q \in Payments : q # p => ledger'[q] = ledger[q]
      /\ ledger' \in [Payments -> Seq(Worths)]
  BY <1>2, <1>3, <1>4
<1>6. /\ Len(ledger'[p]) = Len(ledger[p]) + 1 /\ ledger'[p][Len(ledger[p]) + 1] = worth
      /\ \A i \in 1..Len(ledger[p]) : i \in 1..Len(ledger'[p]) /\ ledger'[p][i] = ledger[p][i]
  BY <1>3, <1>4, <1>5
<1>7. WorldGrows
  <2>1. ASSUME NEW q \in Payments, NEW i \in 1..Len(ledger[q])
        PROVE  i \in 1..Len(ledger'[q]) /\ ledger'[q][i] = ledger[q][i]
    BY <1>5, <1>6
  <2>2. \A q \in Payments : count[q] <= count[q]
    BY DEF IInv, TypeOK
  <2> QED BY <1>1, <2>1, <2>2 DEF WorldGrows, payments, books, totals
<1>8. PaymentOK(p)'
  <2>1. PaymentOK(p) /\ hash[p] \in Nat
    BY <1>3 DEF IInv
  <2>2. hash[p] \in 0..Len(ledger'[p]) /\ (hash[p] # 0 => ledger'[p][hash[p]] = "valid")
    BY <1>4, <1>6, <2>1 DEF PaymentOK
  <2>3. (\E i \in 1..Len(ledger[p]) : ledger[p][i] = "wrong")
          => \E i \in 1..Len(ledger'[p]) : ledger'[p][i] = "wrong"
    BY <1>6
  <2>4. \A i \in 1..Len(ledger'[p]) : i \in 1..Len(ledger[p]) \/ i = Len(ledger[p]) + 1
    BY <1>4, <1>6
  <2>5. \A i \in 1..Len(ledger'[p]) : ledger'[p][i] = "late" => overdue[p]
    BY <1>3, <1>6, <2>1, <2>4 DEF PaymentOK
  <2> QED BY <1>1, <2>1, <2>2, <2>3, <2>5 DEF PaymentOK, payments
<1>9. \A q \in Payments : q # p => PaymentOK(q)'
  BY <1>1, <1>5 DEF IInv, PaymentOK, payments
<1>10. TypeOK'
  BY <1>1, <1>5 DEF IInv, TypeOK, payments, books, totals
<1>11. \A q \in Payments : LockOK(q)'
  BY <1>1 DEF IInv, LockOK, Holds, books, totals
<1> QED BY <1>1, <1>7, <1>8, <1>9, <1>10, <1>11, WorldStep

LEMMA PassExpiryOK ==
  ASSUME IInv, NEW p \in Payments, PassExpiry(p)
  PROVE  IInv'
<1>1. /\ UNCHANGED <<payments, ledger, lockLost, books, finality, worker>>
      /\ overdue' = [overdue EXCEPT ![p] = TRUE]
  BY DEF PassExpiry
<1>2. /\ overdue' \in [Payments -> BOOLEAN]
      /\ \A q \in Payments : overdue[q] => overdue'[q]
  BY <1>1 DEF IInv, TypeOK
<1>3. WorldGrows
  BY <1>1, <1>2 DEF WorldGrows, payments, books, totals, IInv, TypeOK
<1>4. \A q \in Payments : PaymentOK(q)'
  BY <1>1, <1>2 DEF IInv, PaymentOK, payments
<1>5. TypeOK'
  BY <1>1, <1>2 DEF IInv, TypeOK, payments, books, totals
<1>6. \A q \in Payments : LockOK(q)'
  BY <1>1 DEF IInv, LockOK, Holds, books, totals
<1> QED BY <1>1, <1>3, <1>4, <1>5, <1>6, WorldStep

-----------------------------------------------------------------------------
(* The theorems *)

LEMMA InitOK == Init => IInv
<1> SUFFICES ASSUME Init PROVE IInv
  OBVIOUS
<1>1. TypeOK
  BY IdleType, JobTypes DEF Init, TypeOK, Status
<1>2. \A p \in Payments : PaymentOK(p)
  BY DEF Init, PaymentOK
<1>3. \A p \in Payments : BooksOK(p)
  BY DEF Init, BooksOK
<1>4. \A w \in Workers : worker[w].job = "none" /\ worker[w].pc = "idle"
  BY DEF Init, Idle
<1>5. \A p \in Payments : LockOK(p)
  BY <1>4 DEF Init, LockOK, Holds
<1>6. \A w \in Workers : TaskOK(w)
  BY <1>4 DEF TaskOK
<1> QED BY <1>1, <1>2, <1>3, <1>5, <1>6 DEF IInv

LEMMA StutterOK ==
  ASSUME IInv, UNCHANGED vars
  PROVE  IInv'
<1>1. UNCHANGED <<payments, world, books, finality, worker>>
  BY DEF vars, payments, world, books, totals
<1>2. TypeOK' /\ WorldGrows
  BY <1>1 DEF IInv, TypeOK, WorldGrows, payments, world, books, totals
<1>3. \A p \in Payments : PaymentOK(p)' /\ LockOK(p)'
  BY <1>1 DEF IInv, PaymentOK, LockOK, Holds, payments, world, books, totals
<1> QED BY <1>1, <1>2, <1>3, WorldStep

LEMMA StepOK == IInv /\ [Next]_vars => IInv'
<1> SUFFICES ASSUME IInv, [Next]_vars PROVE IInv'
  OBVIOUS
<1>1. ASSUME NEW w \in Workers, Step(w) PROVE IInv'
  BY <1>1, PollNextOK, HorizonOK, LoadOK, CompareAndSetOK, SyncCheckoutLinkOK, EnqueueOK,
     FindOK, GetTransactionOK, ReadCustomerOK, UpdateCustomerOK DEF Step
<1>2. ASSUME NEW w \in Workers, Trouble(w) PROVE IInv'
  BY <1>2, HorizonUnavailableOK, RejectOK, DieOK, StallOK DEF Trouble
<1>3. ASSUME NEW p \in Payments,
             ToPending(p) \/ Cancel(p) \/ ExpireOverdue(p) \/ Pay(p) \/ PassExpiry(p)
      PROVE  IInv'
  BY <1>3, ToPendingOK, CancelOK, ExpireOverdueOK, PayOK, PassExpiryOK
<1> QED BY <1>1, <1>2, <1>3, PollOK, FinalizeOK, StutterOK DEF Next

(* The inductive invariant, of every job, outage and crash in any order. *)
THEOREM Invariance == Spec => []IInv
  BY InitOK, StepOK, PTL DEF Spec

(* Payments, the books and the pods' tasks keep their types. *)
THEOREM TypeCorrect == Spec => []TypeOK
<1>1. IInv => TypeOK
  BY DEF IInv
<1> QED BY <1>1, Invariance, PTL

(* reconcilePayment: whatever happens between the operation a pod read and  *)
(* its update, an outcome has its ground in the ledger and the clock.       *)
THEOREM OutcomeIsGroundedHolds == Spec => []OutcomeIsGrounded
<1>1. IInv => OutcomeIsGrounded
  <2> SUFFICES ASSUME IInv, NEW p \in Payments
               PROVE  /\ status[p] \in {"confirmed", "completed"} => hash[p] # 0
                      /\ hash[p] # 0 => ledger[p][hash[p]] = "valid"
                      /\ status[p] = "failed" /\ hash[p] = 0 =>
                           \E i \in 1..Len(ledger[p]) : ledger[p][i] = "wrong"
                      /\ status[p] = "expired" => overdue[p] /\ hash[p] = 0
    BY DEF OutcomeIsGrounded
  <2>1. PaymentOK(p)
    BY DEF IInv
  <2> QED BY <2>1 DEF PaymentOK, Paid
<1> QED BY <1>1, Invariance, PTL

(* syncCheckoutLink: a link shows nothing but the transaction its payment   *)
(* was attributed, whichever pods confirm or check it.                      *)
THEOREM LinkShowsTheAttributionHolds == Spec => []LinkShowsTheAttribution
<1>1. IInv => LinkShowsTheAttribution
  <2> SUFFICES ASSUME IInv, NEW p \in Payments, link[p] # 0
               PROVE  link[p] = hash[p] /\ status[p] \in Paid
    BY DEF LinkShowsTheAttribution, Paid
  <2>1. PaymentOK(p) /\ BooksOK(p)
    BY DEF IInv
  <2> QED BY <2>1 DEF PaymentOK, BooksOK
<1> QED BY <1>1, Invariance, PTL

-----------------------------------------------------------------------------
(* lifetimeValue *)

(* A pod that is about to write the customer has read what is there now, except *)
(* for payments whose pods overlapped; two such pods at a time have overlapped. *)
AmountsOK ==
  /\ \A p \in Payments \ overlapped : value[p] = count[p]
  /\ \A w \in Updating : \A p \in Payments \ overlapped : worker[w].read[p] = value[p]
  /\ \A v, w \in Updating : v # w => worker[v].payment \in overlapped

(* A pod moves, and not to the write of the customer. *)
LEMMA AmountsElsewhere ==
  ASSUME AmountsOK, NEW w \in Workers, Others(w), worker'[w].pc # "updateCustomer",
         UNCHANGED totals
  PROVE  AmountsOK'
<1>1. \A v \in Updating' : v \in Updating /\ worker'[v] = worker[v]
  BY DEF Updating, Others
<1> QED BY <1>1 DEF AmountsOK, totals

LEMMA AmountsLetGo ==
  ASSUME AmountsOK, NEW w \in Workers, LetsGo(w), UNCHANGED totals
  PROVE  AmountsOK'
  BY AmountsElsewhere DEF LetsGo

LEMMA AmountsGoTo ==
  ASSUME IInv, AmountsOK, NEW w \in Workers, UNCHANGED totals,
         NEW pc \in {"cas", "syncLink", "enqueue", "getTransaction", "readCustomer"}, GoTo(w, pc)
  PROVE  AmountsOK'
  BY GoToType, AmountsElsewhere DEF IInv

LEMMA AmountsTransition ==
  ASSUME IInv, AmountsOK, NEW w \in Workers, UNCHANGED totals,
         NEW to \in Targets, NEW seen \in Nat, Transition(w, to, seen)
  PROVE  AmountsOK'
  BY TransitionType, AmountsElsewhere DEF IInv

LEMMA AmountsPollNext ==
  ASSUME IInv, AmountsOK, NEW w \in Workers, PollNext(w)
  PROVE  AmountsOK'
<1>1. worker[w] \in Tasks /\ worker \in [Workers -> Tasks]
  BY Worker
<1>2. ASSUME worker' = [worker EXCEPT ![w] = Idle]
      PROVE  /\ worker'[w].pc # "updateCustomer"
             /\ \A v \in Workers : v # w => worker'[v] = worker[v]
  <2>1. Idle.pc = "idle"
    BY DEF Idle
  <2>2. worker'[w] = Idle /\ \A v \in Workers : v # w => worker'[v] = worker[v]
    BY <1>1, <1>2
  <2> QED BY <2>1, <2>2
<1>3. ASSUME NEW p \in worker[w].todo,
             worker' = [worker EXCEPT ![w] =
               [worker[w] EXCEPT !.todo = @ \ {p}, !.payment = p,
                                 !.pc = IF overdue[p] THEN "load" ELSE "horizon",
                                 !.to = IF overdue[p] THEN "expired" ELSE None]]
      PROVE  /\ worker'[w].pc # "updateCustomer"
             /\ \A v \in Workers : v # w => worker'[v] = worker[v]
  BY <1>1, <1>3 DEF Tasks
<1>4. /\ worker'[w].pc # "updateCustomer"
      /\ \A v \in Workers : v # w => worker'[v] = worker[v]
  BY <1>2, <1>3 DEF PollNext
<1>5. IInv'
  BY PollNextOK
<1> QED BY <1>4, <1>5, AmountsElsewhere DEF Others, IInv, TypeOK, PollNext, books

LEMMA AmountsRead ==
  ASSUME IInv, AmountsOK, NEW w \in Workers, ReadCustomer(w)
  PROVE  AmountsOK'
<1>1. /\ Others(w) /\ worker'[w].read = value /\ worker'[w].payment = worker[w].payment
      /\ worker[w].pc = "readCustomer" /\ UNCHANGED <<count, value>> /\ overlapped \subseteq overlapped'
      /\ Updating # {} => \A v \in Updating \cup {w} : worker[v].payment \in overlapped'
  BY ReadCustomerTask DEF ReadCustomer
<1>2. ASSUME NEW v \in Updating', v # w
      PROVE  v \in Updating /\ worker'[v] = worker[v]
  BY <1>1, <1>2 DEF Updating, Others
<1>3. \A v \in Updating' : \A p \in Payments \ overlapped' : worker'[v].read[p] = value'[p]
  BY <1>1, <1>2 DEF AmountsOK
<1>4. \A u, v \in Updating' : u # v => worker'[u].payment \in overlapped'
  BY <1>1, <1>2 DEF AmountsOK
<1> QED BY <1>1, <1>3, <1>4 DEF AmountsOK

(* What a pod adds to is as it read it, or belongs to payments that overlapped. *)
LEMMA AmountsUpdate ==
  ASSUME IInv, AmountsOK, NEW w \in Workers, UpdateCustomer(w)
  PROVE  AmountsOK'
<1> DEFINE t == worker[w]
           p == t.payment
<1>1. /\ w \in Updating /\ p \in Payments /\ overlapped' = overlapped
      /\ count' = [count EXCEPT ![p] = @ + 1] /\ value' = [t.read EXCEPT ![p] = @ + 1]
      /\ t.read \in [Payments -> Nat] /\ count \in [Payments -> Nat] /\ LetsGo(w)
  BY Worker, ReturnEnds DEF UpdateCustomer, TaskOK, Updating, IInv, TypeOK
<1>2. \A v \in Updating' : v # w /\ v \in Updating /\ worker'[v] = worker[v]
  BY <1>1 DEF Updating, LetsGo, Others
<1>3. \A q \in Payments \ overlapped : value[q] = count[q] /\ t.read[q] = value[q]
  BY <1>1 DEF AmountsOK
<1>4. \A q \in Payments \ overlapped : value'[q] = count'[q]
  BY <1>1, <1>3
<1>5. \A v \in Updating' : p \in overlapped
  BY <1>1, <1>2 DEF AmountsOK
<1>6. ASSUME NEW v \in Updating', NEW q \in Payments \ overlapped
      PROVE  worker'[v].read[q] = value'[q]
  <2>1. q # p
    BY <1>5, <1>6
  <2>2. worker[v].read[q] = value[q]
    BY <1>2, <1>6 DEF AmountsOK
  <2> QED BY <1>1, <1>2, <1>3, <1>6, <2>1, <2>2
<1>7. \A u, v \in Updating' : u # v => worker'[u].payment \in overlapped'
  BY <1>1, <1>2 DEF AmountsOK
<1> QED BY <1>1, <1>4, <1>6, <1>7 DEF AmountsOK

(* The lock of a job is lost, and its pod goes on. *)
LEMMA AmountsStall ==
  ASSUME IInv, AmountsOK, NEW w \in Workers, Stall(w)
  PROVE  AmountsOK'
<1>1. worker[w] \in Tasks /\ worker \in [Workers -> Tasks]
  BY Worker
<1>2. worker' = [worker EXCEPT ![w].job = "zombie"] /\ UNCHANGED totals
  BY DEF Stall, books
<1>3. \A v \in Workers : /\ worker'[v].pc = worker[v].pc /\ worker'[v].read = worker[v].read
                         /\ worker'[v].payment = worker[v].payment
  BY <1>1, <1>2 DEF Tasks
<1>4. Updating' = Updating
  BY <1>3 DEF Updating
<1>5. \A v \in Updating : v \in Workers
  BY DEF Updating
<1> QED BY <1>2, <1>3, <1>4, <1>5 DEF AmountsOK, totals

LEMMA AmountsStep ==
  ASSUME IInv, AmountsOK, NEW w \in Workers, Step(w)
  PROVE  AmountsOK'
<1>1. CASE Horizon(w)
  <2>1. CASE Return(w)
    BY <1>1, <2>1, ReturnEnds, AmountsLetGo DEF Horizon, books
  <2>2. CASE ~Return(w)
    <3>1. PICK i \in 1..Len(ledger[worker[w].payment]) :
                 Transition(w, Verdict(ledger[worker[w].payment][i]), i)
      BY <1>1, <2>2 DEF Horizon
    <3>2. worker[w].payment \in Payments /\ ledger \in [Payments -> Seq(Worths)]
      BY <1>1, Worker DEF Horizon, TaskOK, IInv, TypeOK
    <3>3. ledger[worker[w].payment][i] \in Worths
      BY <3>2
    <3>4. Verdict(ledger[worker[w].payment][i]) \in Targets /\ i \in Nat
      BY <3>3 DEF Verdict, Worths, Targets, Status
    <3> QED BY <1>1, <3>1, <3>4, AmountsTransition DEF Horizon, books
  <2> QED BY <2>1, <2>2
<1>2. CASE Load(w)
  BY <1>2, ReturnEnds, AmountsLetGo, AmountsGoTo DEF Load, books
<1>3. CASE CompareAndSet(w)
  <2>1. Return(w) \/ GoTo(w, "syncLink")
    BY <1>3 DEF CompareAndSet, Succeed
  <2> QED BY <1>3, <2>1, ReturnEnds, AmountsLetGo, AmountsGoTo DEF CompareAndSet, books
<1>4. CASE SyncCheckoutLink(w)
  BY <1>4, AmountsGoTo DEF SyncCheckoutLink, AfterLink
<1>5. CASE EnqueueFinalityCheck(w)
  <2>1. worker[w] \in Tasks /\ worker \in [Workers -> Tasks]
    BY Worker
  <2>2. worker'[w].pc = "next" /\ \A v \in Workers : v # w => worker'[v] = worker[v]
    BY <1>5, <2>1 DEF EnqueueFinalityCheck, Polling, Idle
  <2>3. IInv'
    BY <1>5, EnqueueOK
  <2> QED BY <1>5, <2>2, <2>3, AmountsElsewhere DEF Others, IInv, TypeOK, EnqueueFinalityCheck, books
<1>6. CASE Find(w)
  BY <1>6, ReturnEnds, AmountsLetGo, AmountsGoTo DEF Find, books
<1>7. CASE GetTransaction(w)
  BY <1>7, AmountsTransition DEF GetTransaction, books, Targets, Status
<1> QED BY <1>1, <1>2, <1>3, <1>4, <1>5, <1>6, <1>7, AmountsPollNext, AmountsRead, AmountsUpdate DEF Step

LEMMA AmountsTrouble ==
  ASSUME IInv, AmountsOK, NEW w \in Workers, Trouble(w)
  PROVE  AmountsOK'
<1>1. CASE HorizonUnavailable(w) \/ Reject(w)
  <2>1. (Return(w) \/ Throw(w)) /\ UNCHANGED totals
    BY <1>1 DEF HorizonUnavailable, Reject, books
  <2> QED BY <2>1, ReturnEnds, ThrowEnds, AmountsLetGo
<1>2. CASE Die(w)
  <2>1. worker' = [worker EXCEPT ![w] = Idle] /\ UNCHANGED totals
    BY <1>2 DEF Die, books
  <2>2. Others(w) /\ worker'[w] = Idle
    BY <2>1, IdleType, MoveType DEF IInv
  <2>3. Idle.pc = "idle"
    BY DEF Idle
  <2> QED BY <2>1, <2>2, <2>3, AmountsElsewhere
<1> QED BY <1>1, <1>2, AmountsStall DEF Trouble

LEMMA AmountsNext == IInv /\ AmountsOK /\ [Next]_vars => AmountsOK'
<1> SUFFICES ASSUME IInv, AmountsOK, [Next]_vars PROVE AmountsOK'
  OBVIOUS
<1>1. ASSUME NEW w \in Workers, Poll(w) PROVE AmountsOK'
  <2>1. {p \in Payments : status[p] = "pending"} \in SUBSET Payments
    OBVIOUS
  <2>2. LetsGo(w)
    BY <1>1, <2>1, Worker, PollingEnds DEF Poll
  <2> QED BY <1>1, <2>2, AmountsLetGo DEF Poll, books
<1>2. ASSUME NEW w \in Workers, NEW p \in Payments, Finalize(w, p) PROVE AmountsOK'
  <2>1. worker' = [worker EXCEPT ![w] = [Idle EXCEPT !.pc = "find", !.job = "finality",
                                                     !.payment = p]]
    BY <1>2 DEF Finalize
  <2>2. worker'[w].pc = "find" /\ \A v \in Workers : v # w => worker'[v] = worker[v]
    BY <2>1, Worker DEF Idle
  <2>3. IInv'
    BY <1>2, FinalizeOK
  <2> QED BY <1>2, <2>2, <2>3, AmountsElsewhere DEF Others, IInv, TypeOK, Finalize, books
<1>3. ASSUME UNCHANGED <<totals, worker>> PROVE AmountsOK'
  BY <1>3 DEF AmountsOK, totals, Updating
<1>4. ASSUME NEW p \in Payments,
             ToPending(p) \/ Cancel(p) \/ ExpireOverdue(p) \/ Pay(p) \/ PassExpiry(p)
      PROVE  UNCHANGED <<totals, worker>>
  BY <1>4 DEF ToPending, Cancel, ExpireOverdue, Pay, PassExpiry, books
<1>5. CASE UNCHANGED vars
  BY <1>3, <1>5 DEF vars, totals
<1> QED BY <1>1, <1>2, <1>3, <1>4, <1>5, AmountsStep, AmountsTrouble DEF Next

(* What pods hold between the read and the write of the customer, and what the  *)
(* totals are: an amount can only be lost where two pods overlapped.            *)
THEOREM AmountsInvariance == Spec => []AmountsOK
<1>1. Init => AmountsOK
  BY DEF Init, AmountsOK, Updating, Idle
<1> QED BY <1>1, AmountsNext, Invariance, PTL DEF Spec

(* updateCustomerAggregates: retries, crashes and lost updates of the total *)
(* included, a payment is counted when completed, while its finality job    *)
(* keeps its lock at most once, and its amount is missing from the total    *)
(* only if two pods were between the read and the write at once.            *)
THEOREM CountedOnceUnderLockHolds == Spec => []CountedOnceUnderLock
<1>1. IInv /\ AmountsOK => CountedOnceUnderLock
  <2> SUFFICES ASSUME IInv, AmountsOK, NEW p \in Payments
               PROVE  /\ count[p] + value[p] > 0 => status[p] = "completed"
                      /\ value[p] <= count[p]
                      /\ p \notin overlapped => value[p] = count[p]
                      /\ p \notin lockLost => count[p] <= 1
    BY DEF CountedOnceUnderLock
  <2>1. BooksOK(p) /\ LockOK(p) /\ count[p] \in Nat /\ value[p] \in Nat
    BY DEF IInv, TypeOK
  <2> QED BY <2>1 DEF BooksOK, LockOK, AmountsOK
<1> QED BY <1>1, Invariance, AmountsInvariance, PTL

-----------------------------------------------------------------------------
(* The contract *)

(* Both specifications speak of the same table. *)
LEMMA SameTable == \A to \in Targets : Contract!AllowedFrom[to] = AllowedFrom[to]
  BY DEF Contract!AllowedFrom, AllowedFrom

(* What a pod does between its writes is invisible. *)
LEMMA Invisible ==
  ASSUME UNCHANGED <<payments, world, books>>
  PROVE  UNCHANGED Contract!vars
  BY DEF payments, world, books, totals, Contract!vars, Contract!world, Contract!books

(* A move along the table, with its ground and what it attributes. *)
LEMMA MoveContract ==
  ASSUME IInv, NEW p \in Payments, NEW to \in Targets, status[p] \in AllowedFrom[to],
         status' = [status EXCEPT ![p] = to], UNCHANGED <<world, books>>,
         to = "confirmed" =>
           \E seen \in 1..Len(ledger[p]) :
             ledger[p][seen] = "valid" /\ hash' = [hash EXCEPT ![p] = seen],
         to # "confirmed" => hash' = hash,
         to = "failed" => hash[p] # 0 \/ \E i \in 1..Len(ledger[p]) : ledger[p][i] = "wrong",
         to = "expired" => overdue[p]
  PROVE  Contract!Next
<1>1. Contract!Move(p, to)
  BY SameTable DEF Contract!Move, world, books, totals, Contract!world, Contract!books
<1>2. DOMAIN ledger[p] = 1..Len(ledger[p]) /\ PaymentOK(p)
  BY DEF IInv, TypeOK
<1>3. CASE to = "confirmed"
  <2>1. Contract!Attribute(p)
    BY <1>1, <1>2, <1>3 DEF Contract!Attribute, Contract!Found
  <2> QED BY <2>1 DEF Contract!Next
<1>4. CASE to = "failed"
  <2>1. status[p] = "confirmed" \/ Contract!Found(p, "wrong") # {}
    BY <1>2, <1>4, Table DEF Contract!Found, PaymentOK, Paid
  <2>2. Contract!Refuse(p)
    BY <1>1, <1>4, <2>1 DEF Contract!Refuse
  <2> QED BY <2>2 DEF Contract!Next
<1>5. CASE to \in {"pending", "completed", "expired", "canceled"}
  <2>1. Contract!Offer(p) \/ Contract!Complete(p) \/ Contract!Expire(p) \/ Contract!Cancel(p)
    BY <1>1, <1>5 DEF Contract!Offer, Contract!Complete, Contract!Expire, Contract!Cancel
  <2> QED BY <2>1 DEF Contract!Next
<1> QED BY <1>3, <1>4, <1>5 DEF Targets, Status

LEMMA CompareAndSetContract ==
  ASSUME IInv, NEW w \in Workers, CompareAndSet(w)
  PROVE  Contract!Next \/ UNCHANGED Contract!vars
<1> DEFINE t == worker[w]
           p == t.payment
<1>1. /\ t.pc = "cas" /\ p \in Payments /\ TaskOK(w) /\ UNCHANGED <<world, books>>
      /\ t.job \in {"poll", "finality", "zombie"}
  BY Worker DEF CompareAndSet, TaskOK
<1>2. CASE status[p] \in AllowedFrom[t.to]
  <2>1. /\ status' = [status EXCEPT ![p] = t.to]
        /\ hash' = IF t.to = "confirmed" THEN [hash EXCEPT ![p] = t.seen] ELSE hash
    BY <1>2 DEF CompareAndSet
  <2>2. /\ t.to \in Targets
        /\ t.to = "confirmed" => t.seen \in 1..Len(ledger[p]) /\ ledger[p][t.seen] = "valid"
        /\ t.to = "failed" => hash[p] # 0 \/ \E i \in 1..Len(ledger[p]) : ledger[p][i] = "wrong"
        /\ t.to = "expired" => overdue[p]
    BY <1>1 DEF TaskOK, VerdictOK, Targets, Status
  <2> QED BY <1>1, <1>2, <2>1, <2>2, MoveContract
<1>3. CASE status[p] \notin AllowedFrom[t.to]
  BY <1>1, <1>3, Invisible DEF CompareAndSet
<1> QED BY <1>2, <1>3

LEMMA SyncCheckoutLinkContract ==
  ASSUME IInv, NEW w \in Workers, SyncCheckoutLink(w)
  PROVE  Contract!Next
<1> DEFINE p == worker[w].payment
<1>1. p \in Payments /\ hash[p] # 0 /\ status[p] \in Paid
  BY Worker DEF SyncCheckoutLink, TaskOK
<1>2. link' = [link EXCEPT ![p] = hash[p]] /\ UNCHANGED <<payments, world, count, value>>
  BY DEF SyncCheckoutLink, totals
<1>3. Contract!Show(p)
  BY <1>1, <1>2 DEF Contract!Show, Paid, payments, world, Contract!world
<1> QED BY <1>1, <1>3 DEF Contract!Next

(* The read before the write never saw more than was counted, and under    *)
(* its lock the job works on a payment that is not counted yet.            *)
LEMMA UpdateCustomerContract ==
  ASSUME IInv, NEW w \in Workers, UpdateCustomer(w)
  PROVE  Contract!Next
<1> DEFINE t == worker[w]
           p == t.payment
<1>1. /\ t.pc = "updateCustomer" /\ p \in Payments /\ TaskOK(w)
      /\ count' = [count EXCEPT ![p] = @ + 1] /\ value' = [t.read EXCEPT ![p] = @ + 1]
      /\ UNCHANGED <<payments, world, link, overlapped>>
  BY Worker DEF UpdateCustomer, TaskOK
<1>2. /\ t.job \in {"finality", "zombie"} /\ status[p] = "completed"
      /\ t.read \in [Payments -> Nat] /\ \A q \in Payments : t.read[q] <= count[q]
  BY <1>1, Worker DEF TaskOK, PollPCs
<1>3. count \in [Payments -> Nat] /\ LockOK(p)
  BY <1>1 DEF IInv, TypeOK
<1>4. p \notin lockLost => count[p] = 0
  BY <1>1, <1>2, <1>3 DEF LockOK, Holds
<1>5. /\ value' \in [Payments -> Nat] /\ value'[p] = t.read[p] + 1 /\ count'[p] = count[p] + 1
      /\ \A q \in Payments : q # p => count'[q] = count[q] /\ value'[q] = t.read[q]
  BY <1>1, <1>2, <1>3
<1>6. value'[p] > 0 /\ \A q \in Payments : value'[q] <= count'[q]
  BY <1>1, <1>2, <1>3, <1>5
<1>7. Contract!Count(p)
  BY <1>1, <1>2, <1>4, <1>5, <1>6 DEF Contract!Count, payments, world, Contract!world
<1> QED BY <1>1, <1>7 DEF Contract!Next

LEMMA StallContract ==
  ASSUME IInv, NEW w \in Workers, Stall(w)
  PROVE  Contract!Next
<1>1. worker[w].payment \in Payments
  BY HolderWorks DEF Stall
<1>2. Contract!LoseLock(worker[w].payment)
  BY DEF Stall, Contract!LoseLock, payments, books, totals, Contract!books
<1> QED BY <1>1, <1>2 DEF Contract!Next

(* The merchant and the cron; the customer and the clock. *)
LEMMA OutsideContract ==
  ASSUME IInv, NEW p \in Payments,
         ToPending(p) \/ Cancel(p) \/ ExpireOverdue(p) \/ Pay(p) \/ PassExpiry(p)
  PROVE  Contract!Next
<1>1. CASE ToPending(p)
  BY <1>1, MoveContract DEF ToPending, Targets, Status
<1>2. CASE Cancel(p)
  BY <1>2, MoveContract DEF Cancel, Targets, Status
<1>3. CASE ExpireOverdue(p)
  BY <1>3, MoveContract, Table DEF ExpireOverdue, Open, Targets, Status
<1>4. CASE Pay(p)
  <2>1. Contract!Pay(p)
    BY <1>4, Zenon DEF Pay, Contract!Pay, payments, books, totals, Contract!books
  <2> QED BY <2>1 DEF Contract!Next
<1>5. CASE PassExpiry(p)
  <2>1. Contract!PassExpiry(p)
    BY <1>5 DEF PassExpiry, Contract!PassExpiry, payments, books, totals, Contract!books
  <2> QED BY <2>1 DEF Contract!Next
<1> QED BY <1>1, <1>2, <1>3, <1>4, <1>5

LEMMA ContractStep ==
  ASSUME IInv, [Next]_vars
  PROVE  [Contract!Next]_Contract!vars
<1>1. ASSUME NEW w \in Workers, Poll(w) \/ Step(w) \/ Trouble(w)
      PROVE  Contract!Next \/ UNCHANGED Contract!vars
  <2>1. CASE CompareAndSet(w) \/ SyncCheckoutLink(w) \/ UpdateCustomer(w) \/ Stall(w)
    BY <2>1, CompareAndSetContract, SyncCheckoutLinkContract, UpdateCustomerContract, StallContract
  <2>2. CASE Poll(w) \/ PollNext(w) \/ EnqueueFinalityCheck(w)
    BY <2>2, Invisible, Zenon DEF Poll, PollNext, EnqueueFinalityCheck
  <2>3. CASE Horizon(w) \/ Load(w)
    BY <2>3, Invisible, Zenon DEF Horizon, Load
  <2>4. CASE Find(w) \/ GetTransaction(w)
    BY <2>4, Invisible DEF Find, GetTransaction
  <2>5. CASE HorizonUnavailable(w) \/ Reject(w) \/ Die(w)
    BY <2>5, Invisible DEF HorizonUnavailable, Reject, Die
  <2>6. CASE ReadCustomer(w)
    BY <2>6 DEF ReadCustomer, payments, world, Contract!vars, Contract!world, Contract!books
  <2> QED BY <1>1, <2>1, <2>2, <2>3, <2>4, <2>5, <2>6 DEF Step, Trouble
<1>2. ASSUME NEW w \in Workers, NEW p \in Payments, Finalize(w, p)
      PROVE  UNCHANGED Contract!vars
  BY <1>2, Invisible DEF Finalize
<1>3. CASE UNCHANGED vars
  BY <1>3, Invisible DEF vars, payments, world, books, totals
<1> QED BY <1>1, <1>2, <1>3, OutsideContract DEF Next

(* The reconciler, one action per await on any number of pods, with its     *)
(* jobs, retries, outages and lost locks, implements the atomic contract.   *)
THEOREM ImplementsSettlement == Spec => SettlementSpec
<1>1. Init => Contract!Init
  BY DEF Init, Contract!Init
<1> QED BY <1>1, ContractStep, Invariance, PTL DEF Spec, SettlementSpec, Contract!Spec
=============================================================================
