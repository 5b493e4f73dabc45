CONSTANTS
  Parts = 4
  Goals = {"play", "publish"}
  MaxAcks = 1
  ShortWrites = {TRUE, FALSE}
SPECIFICATION ConnectSpec
INVARIANT EndsInStep
PROPERTY PlayStarts
CHECK_DEADLOCK FALSE
