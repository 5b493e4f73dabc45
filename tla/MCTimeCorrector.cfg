CONSTANTS
  MaxDelta = 2
  DefaultVideo = 1
  DefaultAudio = 1
  Word = 4
  MaxTime = 5
SPECIFICATION Spec
INVARIANTS TypeOK PlayerKeepsStreamTime
PROPERTIES ClocksAreSmooth FirstVideoAligned
CHECK_DEADLOCK FALSE
