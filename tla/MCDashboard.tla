----------------------------- MODULE MCDashboard -----------------------------
(* Requests are interchangeable, and so are wallets; the properties are safety. *)
EXTENDS Dashboard

Symmetry == Permutations(Requests) \cup Permutations(Wallets)
=============================================================================
