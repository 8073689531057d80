\* Every ring and window small enough to wrap: 32 sequence numbers and a window believed 8 ahead,
\* three buffers in the chip; two places in most of the other queues, three in NVMe's.
CONSTANTS
  Mod = 32
  Far = 8
  Buffers = 3
  Excess = 2
  ReqIds = 2
  MaxFifo = 2
  Silence = 4
  Probe = 2
  JoinPoll = 1
  Budget = 3
  Retry = 4
  Slots = 3
  CqEntries = 3
  Ids = 3
  MaxChunks = 2
  RingSlots = 2
  SlotSize = 3
  Sizes = {1, 2}
  QueueLen = 2
  Width = 15
  Count = 16
  Lent = {b1, b2, b3}
  FewLent = {b1, b2}
  Places = 2
  Bulks = 2
  FewBulks = 1
  Handles = {h1, h2}
  FewHandles = {h1}
  Opcodes = {o1, o2}
  FewOpcodes = {o1}
  Total = 2
  MaxFragments = 2
  MaxLine = 2
  Nothing = Nothing
  Early = TRUE
  Script <- Accesses
  Loads = 6
  Attempts = 2
  Faults = 2
  Draws = 6
  Pairings = 3
  Channels = 2
  Opens = 2
  Slow = 1
  Databases <- Services
  Top = 3
  Room = 2
  Walks = 2
  NetQueue = 1
  Fifo = 2
  Lengths = {5, 6}
  Frames = 2
  Size <- TwoBuffers
  Inputs = 2
  Streams <- Films
  MayHold = 1
  b1 = b1
SPECIFICATION MCSpec
CHECK_DEADLOCK FALSE
INVARIANTS
  TypesOK
  AnswersAreOwn
  BooksBalance
  MemoryIsOwned
PROPERTIES
  NothingLost
  LinksAreReal
  Recovers
