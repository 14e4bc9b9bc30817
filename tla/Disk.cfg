SPECIFICATION DiskSpec
CONSTANTS
  Inserted = {"SDSC", "SDHC"}
  Blocks = {1}
  Shared = {"scr"}
  MaxSwaps = 2
  MaxFaults = 1
  Sectors <- SmallCards
  Reqs <- SmallRequests
INVARIANTS DiskTypeOK WithinCard
PROPERTIES ImplementsStorage InitializeSuffices RequestsEnd
