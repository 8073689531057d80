CONSTANTS
  u1 = u1
  u2 = u2
  old = old
  new = new
  newer = newer
  Nothing = Nothing
  Torn = Torn
  Upload = {u1, u2}
  Bundles <- MCBundles
  File <- MCFile
  Content = {old, new, newer}
  FatFile <- MCFatFile
  Partner <- MCPartner
  Factory <- MCFactory
  MaxEntries = 4
  NoVolume = NoVolume
  Volumes <- MCVolumes
  MaxFaults = 1
  MaxBoots = 1
SPECIFICATION FairSpec
CHECK_DEADLOCK FALSE
INVARIANTS
  TypeOK
  CommitLast
PROPERTIES
  OkMeansInstalled
  FirmwareInPairs
  UploadEnds
  UpdateTakesEffect
