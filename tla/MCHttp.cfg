CONSTANTS
  Kinds = {"get", "ts", "miss", "post", "chunked", "bad", "flv"}
  MaxMsgs = 3
  MaxTags = 2
SPECIFICATION HttpSpec
INVARIANTS RequestsIntact ParserSpinsOnlyOnCut WriterSpinsOnlyOnEmpty ResponsesWhole
CHECK_DEADLOCK FALSE
