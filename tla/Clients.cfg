SPECIFICATION EitherSpec
CONSTANTS
  r1 = r1
  r2 = r2
  r3 = r3
  p1 = p1
  p2 = p2
  p3 = p3
  Nobody = Nobody
  Requests <- ThreeRequests
  MaxLosses = 3
  MaxRefused = 2
  Callers <- ThreeCallers
  MaxCalls = 4
  MaxAgentLosses = 2
  MaxAgentRefused = 1
CHECK_DEADLOCK FALSE
INVARIANTS
  OneConnection
  OneLossIsRetried
  SlotIsOpen
  AgentOneLossIsRetried
PROPERTIES
  Finishes
