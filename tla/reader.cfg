SPECIFICATION FairSpec
CONSTANTS
  Script <- MCScript
  Drained = {6}
  FrameHead = 1
  ChunkSizes = {1, 3, 6}
  Threshold = 4
  MinCapacity = 4
INVARIANTS Aligned BlocksDecode BoundedBuffer SleeperWakes
PROPERTIES ViewsKept ImplementsStream AllRead
CHECK_DEADLOCK FALSE
