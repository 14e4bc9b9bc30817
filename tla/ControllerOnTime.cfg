SPECIFICATION FairSpec
CONSTANTS
  LINES = 3
  PRE = 2
  POST = 1
  H = 8
  RB7 = 1
  COLS = 2
  E7 = 1
  D7 = 7
  R7 = 20
  DELAY = 1
  D8 = 2
  Data = {d1, d2}
INVARIANT FrameDoneByVsync
PROPERTIES RowsInTheirLines KeepsPolling
