SPECIFICATION Spec
CONSTANTS
  c1 = c1
  c2 = c2
  z1 = z1
  NoZone = NoZone
  NoCommand = NoCommand
  Commands <- OneCommand
  Zones <- OneZone
  Faults = {}
  MaxSends = 1
  MaxAcks = 1
CHECK_DEADLOCK FALSE
INVARIANTS
  SentAwaitsAck
