SPECIFICATION Spec
CONSTANTS
    NPkts = 2
    OpTimeout = 2
    NodeTimeout = 2
    MaxFails = 1
    MaxRetries = 1
    Envs <- MCGone
INVARIANT ServerLive
CHECK_DEADLOCK FALSE
