SPECIFICATION FairSpec
CONSTANTS
  a1 = a1
  a2 = a2
  i1 = i1
  i2 = i2
  Agent = {a1, a2}
  Instance = {i1, i2}
  None = none
  NX = 3
  NY = 5
  RiskRadius = 3750
  MaxVertices = 4
  MaxRange = 14
  MarkerOf <- SomeMarkers
  Sightings <- SomeSightings
  Headings <- SomeHeadings
  Unknown <- Origin
  MaxAge = 0
  MaxTime = 2
  MaxDetections = 4
CHECK_DEADLOCK FALSE
PROPERTIES RobotsAreNotObstacles MapForgets FootprintsGrow
