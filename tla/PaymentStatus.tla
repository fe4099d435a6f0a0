--------------------------- MODULE PaymentStatus ---------------------------
(***************************************************************************)
(* The payment statuses and the transition table of                        *)
(* src/src/modules/payments/payment-state-machine.ts, shared by every      *)
(* module that speaks of a payment.                                        *)
(***************************************************************************)
EXTENDS Naturals

(* PaymentStatus of the Prisma schema. *)
Status == {"created", "pending", "confirmed", "completed",
           "failed", "expired", "canceled"}

(* One target per method of PaymentStateMachine; nothing returns to created. *)
Targets == Status \ {"created"}

(* The from-states each method hands to transition(). *)
AllowedFrom ==
  [pending   |-> {"created"},
   confirmed |-> {"pending"},
   completed |-> {"confirmed"},
   failed    |-> {"pending", "confirmed"},
   expired   |-> {"created", "pending"},
   canceled  |-> {"created", "pending"}]

(* Statuses that no row of the table lists as a from-state. *)
Terminal == {s \in Status : \A t \in Targets : s \notin AllowedFrom[t]}

(* How far a status lies from created: every transition climbs. *)
Rank(s) == CASE s = "created"   -> 0
             [] s = "pending"   -> 1
             [] s = "confirmed" -> 2
             [] OTHER           -> 3
=============================================================================
