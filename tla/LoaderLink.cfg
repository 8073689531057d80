CONSTANTS
  Chunk = {"a", "b", "c"}
  Image <- WithEmpty
  Stored <- AnyCard
  Ops = {"boot", "memWrite", "badWrite", "sdWrite", "longWrite", "sdRead", "sdDelete"}
  Baud = 1500000
  Supports = TRUE
  Retries = 2
  Fragile = {"crc", "data", "hello", "ack"}
  Lossy = {"crc", "data"}
  Trouble = {"interrupt", "card", "slow"}
  MaxFaults = 2
  MaxRuns = 2
SPECIFICATION MCSpec
CHECK_DEADLOCK FALSE
INVARIANTS
  TypeOK
PROPERTIES
  AchievedInStep
  WholeFiles
  MildEndsWell
