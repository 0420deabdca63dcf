CONSTANTS
  p = p
  a = a
  b = b
  Node = {p, a, b}
  Publisher = p
  NoNode = NoNode
  Rank <- Ranks
  MaxChildren = 1
  MaxAttempts = 4
  TimerIds = {1, 2, 3}
  MaxInFlight = 2
  MaxFaults = 2
SPECIFICATION LiveSpec
PROPERTIES TreeRepairs
CHECK_DEADLOCK FALSE
