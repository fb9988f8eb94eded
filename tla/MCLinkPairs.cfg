SPECIFICATION FairSpec
CONSTANTS
  Subject = {a1, a2}
  Instance = {i1}
  None = none
  MaxTries = 0
  CompletionLeg = FALSE
  MaxEpoch = 1
  Lossy = FALSE
  Restarts = FALSE
  Lapses = FALSE
  LinkingModes = {"FIRST_FREE"}
  InstanceDiscovery = TRUE
  Underspecified = {}
  MaxUpsets = 1
CHECK_DEADLOCK FALSE
INVARIANTS ConfirmedIsLinked LinkedIsEngaged OneToOne
PROPERTIES HealthyPairsKept PairsKeepTheirWord DeadPairsEnd
