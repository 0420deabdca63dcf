CONSTANTS
  p = p
  a = a
  b = b
  Node = {p, a, b}
  Publisher = p
  NoNode = NoNode
  Rank <- Ranks
  MaxChildren = 1
  MaxAttempts = 3
  TimerIds = {1, 2, 3}
  MaxInFlight = 2
SPECIFICATION Spec
PROPERTY OldParentAskedFirst
