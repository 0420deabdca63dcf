CONSTANTS
  p = p
  a = a
  b = b
  Node = {p, a, b}
  Publisher = p
  UpdatesCache = 2
  MaxSeq = 3
  MaxInFlight = 1
SPECIFICATION Spec
INVARIANT FetchHasTimer
