CONSTANTS
    N = 4
    Addrs = {0, 1, 2}
    DepCheckShift = 1
    Configs <- UseConfigs
    Programs <- UsePrograms
    SquashWidth = 2
    CommitWidth = 2
    CacheBlocks = FALSE
SPECIFICATION Spec
INVARIANTS NoPendingRetires LoadsReadLatestStore TaintTracked
