SPECIFICATION Spec
CONSTANTS
  c1 = c1
  c2 = c2
  z1 = z1
  NoZone = NoZone
  NoCommand = NoCommand
  Commands <- TwoCommands
  Zones <- OneZone
  Faults <- AllFailures
  MaxSends = 2
  MaxAcks = 2
SYMMETRY CommandSymmetry
INVARIANTS
  TypeOK
  ExecutedWasWritten
  LoggedFirst
  DuplicatesBounded
PROPERTIES
  AnsweredIsFinal
  JournalSpec
