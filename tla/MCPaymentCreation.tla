------------------------- MODULE MCPaymentCreation -------------------------
(* Instances of PaymentCreation for TLC. *)
EXTENDS PaymentCreation, TLC

RequestSymmetry == Permutations(Requests)
RequestKeySymmetry == Permutations(Requests) \cup Permutations(Keys)
=============================================================================
