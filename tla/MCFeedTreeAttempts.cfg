CONSTANTS
  p = p
  a = a
  b = b
  c = c
  d = d
  Node = {p, a, b, c, d}
  Publisher = p
  NoNode = NoNode
  Rank <- Ranks
  MaxChildren = 3
  MaxAttempts = 4
  TimerIds = {1, 2}
  MaxInFlight = 1
SPECIFICATION CalmSpec
INVARIANT AttemptsBounded
CHECK_DEADLOCK FALSE
