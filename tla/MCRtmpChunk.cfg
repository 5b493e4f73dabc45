CONSTANTS
  CSIDs = {2, 4}
  Lens = {3}
  Types = {8}
  Sids = {1}
  Payloads = {1, 2}
  Sizes = {1}
  FirstSize = 2
  MaxTime = 2
  ExtMark = 2
  None = None
SPECIFICATION Spec
INVARIANTS MessagesIntact StaysFramed
