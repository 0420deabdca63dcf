CONSTANTS
  Node = {1, 2}
  Conn = {1, 2, 3}
  None = None
  Temporary = Temporary
  Stopping = {1}
  MaxMessages = 3
  MaxFaults = 1
SPECIFICATION Spec
INVARIANTS TypeOK AssertionsHold ConnectionsKnown PendingIsAwaited OneOwner ConnectionSurvives
PROPERTIES AtMostOnce NothingWaitingIsDropped OnlyAttemptsFailIt
CHECK_DEADLOCK FALSE
