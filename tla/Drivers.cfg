\* Two pins of the async driver and one of the application's; FIFOs of two; transfers of up to
\* three bytes and two blocks; cards of every kind on either board; a
\* stream of six chunks; two secondary cores.
CONSTANTS
  Pin = {p1, p2, ph}
  Level = {p1}
  Hand = {ph}
  CanDrop = {p1, p2}
  Late = TRUE
  UartDepth = 2
  UartBuffer = 2
  I2cDepth = 2
  MaxLen = 3
  MaxBlocks = 2
  Chunks = 4
  Cores = {k1, k2}
  Nobody = Nobody
SPECIFICATION MCSpec
CHECK_DEADLOCK FALSE
INVARIANTS
  TypesOK
  ParkedIsServed
  CleanBetween
  OkIsTrue
PROPERTIES
  WaitsEnd
