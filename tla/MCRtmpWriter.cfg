CONSTANTS
  CSIDs = {2, 4}
  Lens = {1, 2, 3}
  Types = {8}
  Sids = {0, 1}
  Payloads = {1, 2}
  Sizes = {2}
  FirstSize = 1
  OutSize = 2
  MaxTime = 2
  ExtMark = 100
  Base = 3
  None = None
SPECIFICATION OwnSpec
PROPERTY WritesChunkStream
CHECK_DEADLOCK FALSE
