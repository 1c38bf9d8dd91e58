SPECIFICATION Spec
CHECK_DEADLOCK FALSE
CONSTANTS
  NReq = 3
  MaxAddr = 2
  Envs <- MCCancel
INVARIANT SafeIteration
