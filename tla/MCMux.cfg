SPECIFICATION FairSpec
CONSTANTS
  Ids = {1}
  MAX_CHANNELS = 1
  DATA_QUEUE_FRAMES = 1
  LINK_FRAMES = 1
  UpChunks = 2
  DownChunks = 1
INVARIANTS FrameOrder EntriesOwned
PROPERTIES ImplementsPipe TeardownReachesAll NoMutualBlock
CHECK_DEADLOCK FALSE
