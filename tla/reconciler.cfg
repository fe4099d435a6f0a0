\* Two pods, two payments of one customer, two operations with a memo between
\* them, two attempts of a finality job; Horizon outages, failing calls, dying pods, lost locks.
SPECIFICATION Spec
CONSTANTS
  Payments = {p1, p2}
  Workers = {w1, w2}
  None = None
  MaxOps = 2
  MaxAttempts = 2
  Outages = TRUE
  Faults = TRUE
  Stalls = TRUE
SYMMETRY PodPaymentSymmetry
INVARIANTS
  OutcomeIsGrounded
  LinkShowsTheAttribution
  CountedOnceUnderLock
