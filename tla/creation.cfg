\* Three requests under one or two keys, with and without an e-mail address,
\* database failures and crashes at every await.
SPECIFICATION Spec
CONSTANTS
  Requests = {r1, r2, r3}
  Keys = {k1, k2}
  Emails = {e1}
  NoEmail = NoEmail
  Metadata = {m1}
  None = None
  Faults = TRUE
SYMMETRY RequestKeySymmetry
INVARIANTS
  OnePaymentPerKey
  ReplayIsOriginal
  AnswerIsBacked
PROPERTIES
  RecordKeepsItsOwner
\* Every request may have ended.
CHECK_DEADLOCK FALSE
