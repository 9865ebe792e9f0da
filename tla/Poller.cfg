SPECIFICATION FairSpec
CONSTANTS
  z1 = z1
  z2 = z2
  alarm = alarm
  normal = normal
  None = None
  Zones <- TwoZones
  Values <- TwoValues
  Faults <- AllFaults
  MaxFaults = 2
  MaxChanges = 2
  MaxEdits = 1
INVARIANTS
  TypeOK
  TrackerIsPublished
  ReadIsOnline
  StoppedIsClosed
PROPERTIES
  StatusSpec
  ConfirmedChangesReach
  ZonesFollow
