CONSTANTS
  Window = 3
  Listed = 3
  FirstListed = 2
  MinSize = 1
  MaxSize = 2
  Forward = {1}
  Back = {1}
  Clients = {c1}
  None = None
  MaxFrags = 5
SPECIFICATION Spec
INVARIANTS StartsAtKeyFrame ServesWhatItLists
PROPERTY ListMovesForward
CHECK_DEADLOCK FALSE
