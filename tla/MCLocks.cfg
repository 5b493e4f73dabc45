SPECIFICATION Spec
CONSTANTS
  Loops = {"l1", "l2"}
  MaxDials = 2
INVARIANTS DeadlockOnlyInPull ClosingIsUnderWay
CHECK_DEADLOCK FALSE
