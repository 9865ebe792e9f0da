SPECIFICATION FairSpec
CONSTANTS
  r1 = r1
  Admins <- OneAdmin
  MaxFailures = 0
CHECK_DEADLOCK FALSE
PROPERTIES
  ServicesReturn
