CONSTANTS
    N = 4
    Addrs = {0}
    DepCheckShift = 0
    Configs <- Default
    Programs <- LostRedirectPrograms
    SquashWidth = 1
    CommitWidth = 2
    CacheBlocks = TRUE
SPECIFICATION Spec
INVARIANTS RetireAssertions
