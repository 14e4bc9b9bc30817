SPECIFICATION ServicesSpec
CONSTANTS
  Levels = 2
  MaxDepth = 2
  SleepLevels = 2
  Max = 4
  MaxHeld = 2
  Lockable = {0, 2, 4}
  Ids = {"A", "B"}
  Pins = {1, 2}
  Masks <- MCMasks
  MAX_INTERRUPT_SOURCES = 2
  HRMOD = 0
  MaxTicks = 3
  Starts <- MCStarts
  Settings <- MCSettings
INVARIANT CallbacksCalled
