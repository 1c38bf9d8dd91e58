SPECIFICATION Spec
CHECK_DEADLOCK FALSE
CONSTANTS
  NReq = 3
  MaxAddr = 2
  Envs <- MCEnvs
INVARIANT WaitersCovered
INVARIANT Ownership
INVARIANT EveryAddressTried
PROPERTY ImplementsRequests
PROPERTY ImplementsAttempts
PROPERTY IdleEnds
