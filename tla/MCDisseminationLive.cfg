CONSTANTS
  p = p
  a = a
  Node = {p, a}
  Publisher = p
  UpdatesCache = 2
  MaxSeq = 2
  MaxInFlight = 12
  MaxLost = 2
SPECIFICATION LiveSpec
PROPERTIES Converges KeepsPromise
