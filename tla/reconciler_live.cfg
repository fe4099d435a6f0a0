\* One pod, two payments of one customer, nothing fails.
SPECIFICATION FairSpec
CONSTANTS
  Payments = {p1, p2}
  Workers = {w1}
  None = None
  MaxOps = 2
  MaxAttempts = 2
  Outages = FALSE
  Faults = FALSE
  Stalls = FALSE
PROPERTIES
  ConfirmedSettles
  CompletedIsAccounted
  OverdueCloses
  SettlementSpec
