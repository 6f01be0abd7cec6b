SPECIFICATION FairSpec
CONSTANTS
    N = 4
    Programs <- MCPrograms
    SSITSize = 4
    LFSTSize = 2
    ClearPeriod = 2
    MaxRetries = 1
INVARIANTS NoneLost ReadyOnce ListedInUnit SquashEnds
PROPERTY AllComplete
CHECK_DEADLOCK FALSE
