SPECIFICATION Spec
CONSTANTS
  Subject = {s1}
  Instance = {i1, i2}
  None = none
  MaxTries = 1
  CompletionLeg = TRUE
  MaxEpoch = 2
  Lossy = TRUE
  Restarts = TRUE
  Lapses = TRUE
  Modes = {"pooled", "directed", "election"}
SYMMETRY Symmetry
CHECK_DEADLOCK FALSE
INVARIANT OneDict 
PROPERTIES FreshAttempts HeldUntilLetGo
