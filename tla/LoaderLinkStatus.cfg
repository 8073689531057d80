CONSTANTS
  Chunk = {"a", "b", "c"}
  Image <- OnlyTwo
  Stored <- OnCard
  Ops = {"sdWrite"}
  Baud = 115200
  Supports = TRUE
  Retries = 5
  Fragile = {"status"}
  Lossy = {}
  Trouble = {}
  MaxFaults = 1
  MaxRuns = 1
SPECIFICATION MCSpec
CHECK_DEADLOCK FALSE
PROPERTIES
  WholeFiles
