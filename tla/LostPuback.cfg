SPECIFICATION FairSpec
CONSTANTS
  z1 = z1
  z2 = z2
  alarm = alarm
  normal = normal
  None = None
  Zones <- OneZone
  Values <- TwoValues
  Faults = {"puback"}
  MaxFaults = 1
  MaxChanges = 2
  MaxEdits = 0
PROPERTIES
  ChangesReach
