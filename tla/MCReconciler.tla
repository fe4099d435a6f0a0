---------------------------- MODULE MCReconciler ----------------------------
(* Instances of Reconciler for TLC. *)
EXTENDS Reconciler, TLC

PodSymmetry == Permutations(Workers)
PodPaymentSymmetry == Permutations(Workers) \cup Permutations(Payments)
=============================================================================
