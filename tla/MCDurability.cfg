SPECIFICATION Spec
CONSTANTS
    a = a
    b = b
    c = c
    Nodes = {a, b, c}
    NoNode = NoNode
    RetryQ = RetryQ
    Addrs = {1, 2, 3}
    NoAddr = NoAddr
    Items = {1, 2}
    Maps <- MCMaps
    Timeout = 2
    Interval = 1
    Envs <- MCEnvs
INVARIANT CountsExact
INVARIANT DurableWhenAsked
INVARIANT MasterHolds
PROPERTY NotEarly
PROPERTY Ends
CHECK_DEADLOCK FALSE
