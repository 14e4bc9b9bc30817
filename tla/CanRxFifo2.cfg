SPECIFICATION Spec
CONSTANTS
  Frames <- MCFrames
  FIFO_NUM = 2
  NoFrame = NoFrame
INVARIANT LatestWins
