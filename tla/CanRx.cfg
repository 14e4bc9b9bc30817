SPECIFICATION FairSpec
CONSTANTS
  Frames <- MCFrames
  FIFO_NUM = 1
  NoFrame = NoFrame
INVARIANTS TypeOK LatestWins
PROPERTIES SettlesOnLast FlagIsServed
