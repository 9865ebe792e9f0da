SPECIFICATION FairSpec
CONSTANTS
  o1 = o1
  o2 = o2
  h1 = h1
  h2 = h2
  Blank = Blank
  Absent = Absent
  Objects <- TwoObjects
  Hosts <- OneHost
  Faults <- Everything
  MaxFaults = 2
  MaxEdits = 1
  MaxQueue = 1
INVARIANTS
  TypeOK
  PollersAreKnown
  StatusFollows
  ExitedIsStopped
PROPERTIES
  StatusesSpec
  PollersFollow
