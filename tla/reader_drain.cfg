SPECIFICATION Spec
CONSTANTS
  Script <- MCScript
  Drained = {4, 6}
  FrameHead = 1
  ChunkSizes = {1, 3, 6}
  Threshold = 4
  MinCapacity = 4
INVARIANT PacketsWhole
CHECK_DEADLOCK FALSE
