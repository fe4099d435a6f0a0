\* Two callers race on two payments that may claim the same transaction.
SPECIFICATION Spec
CONSTANTS
  Payments = {p1, p2}
  Workers = {w1, w2}
  Hashes = {h1}
  NoHash = NoHash
  Interrupts = TRUE
SYMMETRY PaymentWorkerSymmetry
INVARIANTS
  OneOutcome
  Attribution
  HashesUnique
  EmitNeverConflicts
  SuccessIsReal
  SnapshotNotBehind
PROPERTIES
  TerminalIsFinal
  LifecycleSpec
\* Every payment may reach a terminal status with nobody calling any more.
CHECK_DEADLOCK FALSE
