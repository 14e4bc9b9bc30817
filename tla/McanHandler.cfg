SPECIFICATION Spec
CONSTANTS
  FIFO_NUM <- ConfiguredAndTwo
  BUFFER_NUM = 1
  Buffered = {0}
  DLCs = {0, 8}
  Enabled = {"DRX", "RF0N", "RF1N", "BO", "ERR"}
  MaxFrames = 4
  MaxOthers = 3
INVARIANTS TypeOK FramesServed
PROPERTY FlagsServed
CHECK_DEADLOCK FALSE
