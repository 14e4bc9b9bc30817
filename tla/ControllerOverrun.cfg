SPECIFICATION FairSpec
CONSTANTS
  LINES = 3
  PRE = 2
  POST = 1
  H = 2
  RB7 = 1
  COLS = 2
  E7 = 3
  D7 = 8
  R7 = 6
  DELAY = 1
  D8 = 3
  Data = {d1, d2}
INVARIANTS TypeOK TearFree NoRowBeyondLast
PROPERTIES ImplementsImage PictureReturns
