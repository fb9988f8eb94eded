SPECIFICATION FairSpec
CONSTANTS
  Subject = {m1}
  Instance = {i1, i2}
  Agent = {a1, a2}
  None = none
  MaxTries = 1
  CompletionLeg = TRUE
  MaxEpoch = 1
  Lossy = TRUE
  Restarts = TRUE
  Lapses = TRUE
CHECK_DEADLOCK FALSE
PROPERTIES BiddingEnds ConversationsEnd
