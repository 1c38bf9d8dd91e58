SPECIFICATION Spec
CONSTANTS
    NPkts = 2
    OpTimeout = 2
    NodeTimeout = 3
    MaxFails = 2
    MaxRetries = 1
    Envs <- MCEnvs
INVARIANT ServerLive
INVARIANT Attended
INVARIANT LateBounded
PROPERTY Drains
CHECK_DEADLOCK FALSE
