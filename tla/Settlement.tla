----------------------------- MODULE Settlement -----------------------------
(***************************************************************************)
(* What the reconciler promises of every payment, each change atomic and   *)
(* no pod, poll, job or retry behind it: a status moves along the table,   *)
(* an outcome has its ground in the ledger or the clock at the moment it   *)
(* is recorded, the attribution is made once, the link shows nothing else, *)
(* and the customer's totals change only by counting a completed payment,  *)
(* once unless the lock of its finality check was lost.                    *)
(***************************************************************************)
EXTENDS PaymentStatus, Sequences

CONSTANT Payments  \* rows of the payments collection

VARIABLES
  status,    \* Payment.status
  hash,      \* Payment.transactionHash: a position in ledger, or 0
  ledger,    \* what the operations with the payment's memo are worth
  overdue,   \* expiresAt is past
  link,      \* CheckoutLink.paymentTxHash
  count,     \* what each payment added to Customer.paymentCount
  value,     \* how often its amount is in Customer.lifetimeValue
  lockLost   \* whose finality job was taken from a live pod

world == <<ledger, overdue, lockLost>>
books == <<link, count, value>>
vars == <<status, hash, world, books>>

Init ==
  /\ status = [p \in Payments |-> "created"]
  /\ ledger = [p \in Payments |-> <<>>]
  /\ overdue = [p \in Payments |-> FALSE]
  /\ lockLost = {}
  /\ hash = [p \in Payments |-> 0]
  /\ link = [p \in Payments |-> 0]
  /\ count = [p \in Payments |-> 0]
  /\ value = [p \in Payments |-> 0]

Found(p, worth) == {i \in DOMAIN ledger[p] : ledger[p][i] = worth}

Move(p, to) ==
  /\ status[p] \in AllowedFrom[to]
  /\ status' = [status EXCEPT ![p] = to]
  /\ UNCHANGED <<world, books>>

(* create() offers the payment, cancel() takes it back. *)
Offer(p) == Move(p, "pending") /\ UNCHANGED hash
Cancel(p) == Move(p, "canceled") /\ UNCHANGED hash

(* The customer paid what was asked, in time: that operation, and no other *)
(* ever, is the payment's.                                                 *)
Attribute(p) ==
  /\ Move(p, "confirmed")
  /\ \E i \in Found(p, "valid") : hash' = [hash EXCEPT ![p] = i]

Complete(p) == Move(p, "completed") /\ UNCHANGED hash

(* What was paid was wrong, or the confirmed transaction did not last. *)
Refuse(p) ==
  /\ status[p] = "confirmed" \/ Found(p, "wrong") # {}
  /\ Move(p, "failed")
  /\ UNCHANGED hash

Expire(p) == overdue[p] /\ Move(p, "expired") /\ UNCHANGED hash

(* The page the customer sees. *)
Show(p) ==
  /\ status[p] \in {"confirmed", "completed", "failed"} /\ hash[p] # 0
  /\ link' = [link EXCEPT ![p] = hash[p]]
  /\ UNCHANGED <<status, hash, world, count, value>>

(* The customer's totals.  Counting two payments at a time may lose the    *)
(* amount of either (lifetimeValue is read and written back), but never    *)
(* that of the payment counted last, and never adds what was not counted.  *)
Count(p) ==
  /\ status[p] = "completed"
  /\ p \notin lockLost => count[p] = 0
  /\ count' = [count EXCEPT ![p] = @ + 1]
  /\ value' \in [Payments -> Nat]
  /\ value'[p] > 0
  /\ \A q \in Payments : value'[q] <= count'[q]
  /\ UNCHANGED <<status, hash, world, link>>

(* The customer pays, the clock runs, a lock is lost. *)
Pay(p) ==
  /\ \E worth \in {"wrong", IF overdue[p] THEN "late" ELSE "valid"} :
       ledger' = [ledger EXCEPT ![p] = Append(@, worth)]
  /\ UNCHANGED <<status, hash, overdue, lockLost, books>>

PassExpiry(p) ==
  /\ overdue' = [overdue EXCEPT ![p] = TRUE]
  /\ UNCHANGED <<status, hash, ledger, lockLost, books>>

LoseLock(p) ==
  /\ lockLost' = lockLost \cup {p}
  /\ UNCHANGED <<status, hash, ledger, overdue, books>>

Next == \E p \in Payments :
          \/ Offer(p) \/ Cancel(p) \/ Attribute(p) \/ Complete(p) \/ Refuse(p) \/ Expire(p)
          \/ Show(p) \/ Count(p)
          \/ Pay(p) \/ PassExpiry(p) \/ LoseLock(p)

Spec == Init /\ [][Next]_vars
=============================================================================
