SPECIFICATION Spec
CONSTANTS
  Subject = {m1, m2}
  Instance = {i1, i2}
  Agent = {a1}
  None = none
  MaxTries = 0
  CompletionLeg = TRUE
  MaxEpoch = 1
  Lossy = FALSE
  Restarts = FALSE
  Lapses = FALSE
SYMMETRY Symmetry
CHECK_DEADLOCK FALSE
INVARIANTS TypeOK BiddingIsUnderWay ActiveIsConfirmed PendingIsNobodys OneMissionPerAgent
PROPERTY CancelIsFinal
