SPECIFICATION Spec
CONSTANTS
  Rows <- MCRows
  Data <- MCData
INVARIANTS BarLength PixelExact ColoursWired NoFlash
PROPERTY OtherPinsKept
