CONSTANTS
    N = 3
    Addrs = {0, 1}
    DepCheckShift = 0
    Configs <- DefaultAndSTT
    Programs <- ShortPrograms
    SquashWidth = 1
    CommitWidth = 2
    CacheBlocks = TRUE
SPECIFICATION FairSpec
PROPERTIES EverythingLeaves
