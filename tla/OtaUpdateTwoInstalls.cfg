CONSTANTS
  u1 = u1
  u2 = u2
  old = old
  new = new
  newer = newer
  Nothing = Nothing
  Torn = Torn
  Upload = {u1, u2}
  Bundles <- TwoReleases
  File <- MCFile
  Content = {old, new, newer}
  FatFile <- MCFatFile
  Partner <- MCPartner
  Factory <- MCFactory
  MaxEntries = 4
  NoVolume = NoVolume
  Volumes <- HasVolume
  MaxFaults = 1
  MaxBoots = 1
SPECIFICATION Spec
CHECK_DEADLOCK FALSE
PROPERTIES
  RebootsIntoUpdate
