\* A create that fails, with no fault of the database.
SPECIFICATION Spec
CONSTANTS
  Requests = {r1, r2}
  Keys = {k1, k2}
  Emails = {e1}
  NoEmail = NoEmail
  Metadata = {m1, m2}
  None = None
  Faults = FALSE
INVARIANTS
  InFlightMeansProcessing
CHECK_DEADLOCK FALSE
