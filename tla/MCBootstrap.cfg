CONSTANTS
  NNodes = 2
  CountMod = 8
  Envs <- MCEnvs
SPECIFICATION Spec
INVARIANT CounterExact
INVARIANT ProvidersRemain
PROPERTY ConfigForward
CHECK_DEADLOCK FALSE
PROPERTY RefreshEnds
PROPERTY CatchesUp
PROPERTY WaitEnds
