SPECIFICATION FairSpec
CONSTANTS
  b1 = b1
  b2 = b2
  o1 = o1
  o2 = o2
  None = None
  Browsers <- TwoBrowsers
  Objects <- TwoObjects
  Polled <- OneObject
  MaxConnections = 2
  Viewer = b1
  Capacity = 1
  MaxWork = 3
  MaxDrops = 1
INVARIANTS
  TypeOK
  EventsAreShown
PROPERTIES
  StatusesFollow
  BroadcastsEnd
