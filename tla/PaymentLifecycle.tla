-------------------------- MODULE PaymentLifecycle --------------------------
(***************************************************************************)
(* What the payment state machine promises its callers, with every         *)
(* transition atomic: a status moves only along the transition table, the  *)
(* move to confirmed gives the payment a Stellar transaction hash no other *)
(* payment has, and each move is announced (as a PaymentEvent) at most     *)
(* once and only after it was made.                                        *)
(***************************************************************************)
EXTENDS PaymentStatus

CONSTANTS Payments,   \* rows of the payments collection
          Hashes,     \* Stellar transaction hashes
          NoHash      \* an unset transactionHash

VARIABLES status,           \* Payment.status
          transactionHash,  \* Payment.transactionHash
          entered,          \* the statuses each payment has moved to
          announced         \* the moves that have their event

vars == <<status, transactionHash, entered, announced>>

Init ==
  /\ status = [p \in Payments |-> "created"]
  /\ transactionHash = [p \in Payments |-> NoHash]
  /\ entered = [p \in Payments |-> {}]
  /\ announced = [p \in Payments |-> {}]

(* A move along the table that is not an attribution. *)
Advance(p, t) ==
  /\ t # "confirmed"
  /\ status[p] \in AllowedFrom[t]
  /\ status' = [status EXCEPT ![p] = t]
  /\ entered' = [entered EXCEPT ![p] = @ \cup {t}]
  /\ UNCHANGED <<transactionHash, announced>>

(* The move to confirmed attributes one on-chain transaction to the payment. *)
Confirm(p, h) ==
  /\ status[p] \in AllowedFrom["confirmed"]
  /\ \A q \in Payments : transactionHash[q] # h
  /\ status' = [status EXCEPT ![p] = "confirmed"]
  /\ transactionHash' = [transactionHash EXCEPT ![p] = h]
  /\ entered' = [entered EXCEPT ![p] = @ \cup {"confirmed"}]
  /\ UNCHANGED announced

Announce(p, t) ==
  /\ t \in entered[p] \ announced[p]
  /\ announced' = [announced EXCEPT ![p] = @ \cup {t}]
  /\ UNCHANGED <<status, transactionHash, entered>>

Next == \E p \in Payments :
          \/ \E t \in Targets : Advance(p, t) \/ Announce(p, t)
          \/ \E h \in Hashes : Confirm(p, h)

Spec == Init /\ [][Next]_vars
=============================================================================
