CONSTANTS
  a = a
  b = b
  c = c
  z = z
  Node = {a, b, c}
  NoNode = NoNode
  Stranger = {z}
  MaxFriends = 2
  MaxFans = 1
  MaxCandidates = 2
  Evicted = 1
  Auditors = {a}
  Adding = {b}
  Leaving = {a}
  Popular = {c}
  MaxVersion = 2
  TimerIds = {1, 2}
  MaxInFlight = 1
SPECIFICATION FairSpec
INVARIANTS TypeOK OneAudit AuditInProgress ProtectedWhileAsked FriendsBounded AssertionsHold
PROPERTIES OneSidedFriendshipEnds
