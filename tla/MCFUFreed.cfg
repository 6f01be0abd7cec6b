SPECIFICATION Spec
CONSTANTS
    N = 2
    Ops = {"mul", "div", "load"}
    Loads = {"load"}
    Programs <- Evicting
    Latency <- MulDivLoad
    NonPipelined = {"div"}
    Units = {1}
    IQEntries = 2
    IssueWidth = 1
INVARIANT UnitsFreedOnce
