SPECIFICATION Spec
CONSTANTS
    NPkts = 2
    OpTimeout = 2
    NodeTimeout = 2
    MaxFails = 1
    MaxRetries = 1
    Envs <- MCEnvs
INVARIANT FailsAtDeadline
CHECK_DEADLOCK FALSE
