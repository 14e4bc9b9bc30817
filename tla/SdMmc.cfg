SPECIFICATION SdSpec
CONSTANTS
  Inserted <- Kinds
  Blocks = {1, 2}
  Shared = {"scr"}
  MaxSwaps = 2
  MaxFaults = 2
INVARIANTS ReadyMeansInstalled DataOnAgreedBus ClockInLimits
