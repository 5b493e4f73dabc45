SPECIFICATION Spec
CONSTANTS
  NumTargets = 2
  Delayed = {1}
  MaxRetry = 2
  MaxJoins = 2
  MaxTimers = 2
INVARIANTS PullsOwnStream AloneIsSafe GivesUpAfterAll
PROPERTY RelayDecides
CHECK_DEADLOCK FALSE
