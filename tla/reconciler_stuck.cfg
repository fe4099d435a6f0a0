\* One pod, one payment; only Horizon is unavailable at times.
SPECIFICATION Spec
CONSTANTS
  Payments = {p1}
  Workers = {w1}
  None = None
  MaxOps = 1
  MaxAttempts = 2
  Outages = TRUE
  Faults = FALSE
  Stalls = FALSE
INVARIANTS
  FinalityAhead
