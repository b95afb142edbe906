SPECIFICATION WireSpec
CONSTANTS
  Nil = Nil
  Kinds = {"json", "zstd", "gzip", "timed", "empty", "msgpack", "garbled", "large", "text"}
  ReadSize = 9
  MaxFrame = 4
  MaxFrames = 3
INVARIANT MessagesArriveInOrder
INVARIANT ValidateFindsTheFirst
INVARIANT ValidateAllFindsExactlyTheWrong
PROPERTY ConnectionIsAChannel
PROPERTY FramesAreTaken
CHECK_DEADLOCK FALSE
