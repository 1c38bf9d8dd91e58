SPECIFICATION FairSpec
CONSTANTS
  p1 = p1
  p2 = p2
  p3 = p3
  NULL = NULL
  Pkts <- MCPkts
  Size <- MCSize
  Envs <- MCEnvs
  NIov = 2
  MaxFails = 2
INVARIANT OutputRecorded
INVARIANT WireIsFramed
PROPERTY EventuallyFlushed
CHECK_DEADLOCK FALSE
