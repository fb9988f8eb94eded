SPECIFICATION ConsoleSpec
CONSTANTS
  Subject = {a1}
  Instance = {i1}
  None = none
  MaxTries = 0
  CompletionLeg = FALSE
  MaxEpoch = 1
  Lossy = FALSE
  Restarts = FALSE
  Lapses = FALSE
  LinkingModes = {"GUI", "AUCTION"}
  InstanceDiscovery = TRUE
  Underspecified = {}
  MaxUpsets = 1
  Thread = {t1, t2}
  MaxCommands = 3
SYMMETRY Threads
CHECK_DEADLOCK FALSE
INVARIANTS ReviewsAreOpen LinkedIsNotPooled PhasesAreTrue
