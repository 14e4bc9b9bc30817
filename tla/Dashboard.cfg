SPECIFICATION DashFairSpec
CONSTANTS
  LINES = 1
  PRE = 1
  POST = 1
  H = 2
  RB7 = 0
  COLS = 1
  E7 = 0
  D7 = 1
  R7 = 5
  DELAY = 0
  D8 = 0
  Frames <- MCFrames
  FIFO_NUM = 1
  NoFrame = NoFrame
PROPERTIES ImplementsController LastFramePainted
