CONSTANTS
  Feed = {f1, f2, f3, f4}
  SeparationMin = 2
  GradualJoins = 2
  NoEvent = NoEvent
SPECIFICATION LiveSpec
INVARIANT RejoinIsScheduled
