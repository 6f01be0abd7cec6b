SPECIFICATION FairSpec
CONSTANTS
    N = 3
    Ops = {"mul", "div", "load"}
    Loads = {"load"}
    Programs <- EvictingOrStalling
    Latency <- MulDivLoad
    NonPipelined = {"div"}
    Units = {1}
    IQEntries = 2
    IssueWidth = 2
INVARIANTS NoUnsafeContention UnitsExclusive EntriesCounted
PROPERTY AllExecute
