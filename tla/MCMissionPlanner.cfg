SPECIFICATION Spec
CONSTANTS
  a1 = a1
  a2 = a2
  a3 = a3
  Agent = {a1, a2, a3}
  None = none
  NX = 7
  NY = 6
  RiskRadius = 3750
  Radius <- SomeRadii
  Passes <- SomePasses
  Maps <- SomeMaps
  Places <- SomePlaces
  Epsilon = 1
  BidValues <- SomeBids
  MaxInvited = 2
  SafetyReserve = 10
CHECK_DEADLOCK FALSE
INVARIANTS WaysAreClear SearchIsRight TheCheapestAreInvited AwardsAreFair
