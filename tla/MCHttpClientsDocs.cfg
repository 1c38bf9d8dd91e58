CONSTANTS
    NNodes = 2
    NHttp = 3
    NQuery = 3
    MaxDocs = 1
    MinBatch = 1
    MaxRedir = 1
    MaxBad = 1
    Envs <- MCDocCancel
SPECIFICATION Spec
INVARIANT AssertionsHold
CHECK_DEADLOCK FALSE
