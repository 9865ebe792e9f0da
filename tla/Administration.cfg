SPECIFICATION EitherSpec
CONSTANTS
  j1 = j1
  j2 = j2
  j3 = j3
  r1 = r1
  r2 = r2
  r3 = r3
  None = None
  Jobs <- ThreeJobs
  MaxFaults = 3
  Admins <- ThreeAdmins
  MaxFailures = 2
CHECK_DEADLOCK FALSE
INVARIANTS
  OneRun
  SavedIsTold
  RunningGoesOn
  SwitchIsRead
PROPERTIES
  RunsAreSaved
  ProductionReturns
