SPECIFICATION FairSpec
CONSTANTS
  Message = {m1, m2}
  Unroutable = {m2}
  Command = {c1}
  Target = {t1}
  None = none
  InboxBudget = 1
  CommandBudget = 1
  PlanPeriod = 2
  PerceptionPeriod = 1
  MaxEnvelopes = 3
  MaxFaults = 1
INVARIANTS PublishedInOrder
PROPERTIES NothingIsLost QueuesMove TicksGoOn
