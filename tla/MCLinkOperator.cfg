SPECIFICATION Spec
CONSTANTS
  Subject = {a1}
  Instance = {i1}
  None = none
  MaxTries = 0
  CompletionLeg = FALSE
  MaxEpoch = 1
  Lossy = TRUE
  Restarts = TRUE
  Lapses = FALSE
  LinkingModes = {"GUI", "POOLED", "AUCTION"}
  InstanceDiscovery = TRUE
  Underspecified = {a1}
  MaxUpsets = 2
SYMMETRY Symmetry
CHECK_DEADLOCK FALSE
INVARIANTS TypeOK LinkedNotOffered
PROPERTY PicksAreHonoured
