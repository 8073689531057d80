\* Two channels, one of which the blocking methods drive as well, and microframes round every
\* three; a root hub of two ports with one more hub and a device, plugged and pulled anywhere at any
\* time, each of which may fail any step of its bring-up; a device of two reports behind a hub.
CONSTANTS
  Chan = {c1, c2}
  Polled = {c1}
  Frames = 3
  Function = {d1}
  Hub = {h1}
  Root = hub0
  Ports = 2
  MaxHubs = 2
  MaxAddress = 5
  Off = Off
  Failed = Failed
  Slowest = 3
  Keeps = 5
  Reports = 2
SPECIFICATION MCSpec
CHECK_DEADLOCK FALSE
INVARIANTS
  TypesOK
  ChannelsSound
  BusInStep
PROPERTIES
  HostSettles
