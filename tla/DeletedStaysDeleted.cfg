SPECIFICATION Spec
CONSTANTS
  o1 = o1
  o2 = o2
  h1 = h1
  h2 = h2
  Blank = Blank
  Absent = Absent
  Objects <- OneObject
  Hosts <- OneHost
  Faults = {}
  MaxFaults = 0
  MaxEdits = 1
  MaxQueue = 1
INVARIANTS
  DeletedStaysDeleted
