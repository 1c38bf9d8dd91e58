SPECIFICATION FairSpec
CONSTANTS
  o1 = o1
  o2 = o2
  NULL = NULL
  Ops <- MCOps
  Timeout <- MCTimeout
  Envs <- MCEnvs
  RetryInterval = 1
  NmvInterval = 2
  Fuzz = 1
  US = 2
  MS = 2
  Width = 8
  MaxRetries = 2
  MaxTime = 6
INVARIANT TimerCovers
INVARIANT CauseNotMasked
PROPERTY Throttled
PROPERTY Leaves
CHECK_DEADLOCK FALSE
