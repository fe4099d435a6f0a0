----------------------- MODULE MCPaymentStateMachine -----------------------
(* Instances of PaymentStateMachine for TLC: payments are interchangeable, *)
(* and so are workers.                                                     *)
EXTENDS PaymentStateMachine, TLC

PaymentWorkerSymmetry == Permutations(Payments) \cup Permutations(Workers)
=============================================================================
