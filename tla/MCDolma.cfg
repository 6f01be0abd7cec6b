CONSTANTS
    N = 3
    Addrs = {0, 1}
    DepCheckShift = 0
    Configs <- AllConfigs
    Programs <- AllPrograms
    SquashWidth = 1
    CommitWidth = 2
    CacheBlocks = FALSE
SPECIFICATION Spec
INVARIANTS RetireAssertions LoadsReadLatestStore NoWrongPathRetires
PROPERTIES SafeStaysSafe PendingRedirectKept
