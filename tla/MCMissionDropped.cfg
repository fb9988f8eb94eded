SPECIFICATION Spec
CONSTANTS
  Subject = {m1}
  Instance = {i1}
  Agent = {a1}
  None = none
  MaxTries = 0
  CompletionLeg = TRUE
  MaxEpoch = 1
  Lossy = FALSE
  Restarts = FALSE
  Lapses = FALSE
CHECK_DEADLOCK FALSE
INVARIANT ActiveHasItsAgent
