SPECIFICATION EitherSpec
CONSTANTS
  r1 = r1
  r2 = r2
  a = a
  b = b
  alarm = alarm
  normal = normal
  u1 = u1
  u2 = u2
  u3 = u3
  None = None
  Nobody = Nobody
  Same = Same
  Requests <- TwoRequests
  Ops <- AllOps
  Numbers = {1}
  Names <- TwoNames
  Labels <- TwoLabels
  MaxRows = 3
  MaxEvents = 2
  Users <- ThreeUsers
SYMMETRY TableSymmetry
INVARIANTS
  TablesTypeOK
  LastIsHistory
  NumbersAreUnique
  SomeAdministrator
PROPERTIES
  RenamesCostNoEvent
