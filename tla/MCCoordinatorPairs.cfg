SPECIFICATION Spec
CONSTANTS
  Subject = {s1, s2}
  Instance = {i1, i2}
  None = none
  MaxTries = 0
  CompletionLeg = FALSE
  MaxEpoch = 1
  Lossy = FALSE
  Restarts = FALSE
  Lapses = FALSE
  Modes = {"pooled", "directed", "election"}
SYMMETRY Symmetry
CHECK_DEADLOCK FALSE
INVARIANTS TypeOK OneSubjectPerReceiver ConfirmedIsHeld NoOrphanHolder
