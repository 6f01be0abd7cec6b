SPECIFICATION Spec
CONSTANTS
    N = 3
    Programs <- MCBarriers
    SSITSize = 4
    LFSTSize = 2
    ClearPeriod = 2
    MaxRetries = 1
INVARIANT BarriersBlock
CHECK_DEADLOCK FALSE
