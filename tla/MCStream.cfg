CONSTANTS
  Players = {"p1"}
  BufferSize = 3
  BatchSize = 2
  ContentLatency = 1
  Kinds = {"audio_header", "video_header", "key", "inter", "audio"}
  Deltas <- AVDeltas
  MaxIndex = 5
SPECIFICATION Spec
INVARIANTS TypeOK RingHoldsLastPackets GopsBuffered DeliveryInOrder LocateIsAllOrNothing FirstFramesDecodable
PROPERTY SkipsOnlyToKeyFrame
CHECK_DEADLOCK FALSE
