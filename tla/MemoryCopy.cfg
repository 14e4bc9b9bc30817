SPECIFICATION Spec
CONSTANTS
  DATA_SIZE = 4
  SECTOR = 2
  HEADER = 1
  OBJECT_SIZE = 3
  Sizes <- SomeSizes
  MaxFiles = 2
  Shared = {4}
INVARIANTS ObjectsInOrder FileBytesCopied
