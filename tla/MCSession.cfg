CONSTANTS
  Publishers = {"a", "b"}
  Players = {"p"}
  HasTargets = FALSE
  MaxSessions = 2
SPECIFICATION Spec
INVARIANTS TypeOK RegisteredAreLive DestroyedAreClosed
PROPERTY DestroyedLeave
CHECK_DEADLOCK FALSE
