\* A table of two sessions and five logins; two settings and three faults; an exchange of two ticks.
CONSTANTS
  N = 2
  Lifetime = 2
  Serials = 5
  Horizon = 5
  Free = Free
  Default = Default
  NoFile = NoFile
  TornFile = TornFile
  Unset = Unset
  Settings = {dark, light}
  SaveFaults = 3
  ReplyTimeout = 2
  DnsTimeout = 1
  FirstRetry = 1
  RetryMax = 2
  Resync = 3
  Late = 1
  OnWay = 2
SPECIFICATION MCSpec
CHECK_DEADLOCK FALSE
INVARIANTS
  TypesOK
  TimesKept
PROPERTIES
  SavedWhole
  KeepsSyncing
