\* Two callers on one payment, no interruption, fair scheduling.
SPECIFICATION FairSpec
CONSTANTS
  Payments = {p1}
  Workers = {w1, w2}
  Hashes = {h1}
  NoHash = NoHash
  Interrupts = FALSE
PROPERTIES
  MovesAreAnnounced
CHECK_DEADLOCK FALSE
