CONSTANTS
    Threads = {"t"}
    ArchRegs = {0, 1}
    ZeroReg = 0
    PhysRegs = {0, 1, 2, 3}
    InitMap <- OneThread
    MaxSeq = 3
    MaxSrcs = 1
    MaxDests = 2
SPECIFICATION FairSpec
INVARIANTS RegsPartitioned MapMatchesInsts NoUseAfterFree ScoreboardRight
PROPERTIES FreeRegsReturn
