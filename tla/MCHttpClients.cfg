CONSTANTS
    NNodes = 2
    NHttp = 3
    NQuery = 3
    MaxDocs = 1
    MinBatch = 1
    MaxRedir = 1
    MaxBad = 1
    Envs <- MCEnvs
SPECIFICATION Spec
INVARIANT SafeCallbacks
INVARIANT PendingExact
INVARIANT FinalTruthful
PROPERTY ImplementsStream
PROPERTY PausedResumes
PROPERTY Released
CHECK_DEADLOCK FALSE
