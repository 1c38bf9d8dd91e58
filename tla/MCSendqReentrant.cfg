SPECIFICATION Spec
CONSTANTS
  p1 = p1
  p2 = p2
  p3 = p3
  NULL = NULL
  Pkts <- MCPkts
  Size <- MCSize
  Envs <- MCReentrant
  NIov = 2
  MaxFails = 1
INVARIANT WaitingWasSent
CHECK_DEADLOCK FALSE
