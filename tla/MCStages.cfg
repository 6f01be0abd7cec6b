SPECIFICATION FairSpec
CONSTANTS
    Width = 2
    SquashWidth = 1
    FetchQueueSize = 2
    Setups <- MCSetups
INVARIANTS
    BuffersFit
    UnblocksStalled
    NoneLost
    AbandonedNeverCommit
    RedirectsHeard
    CountsRight
    SerializedAlone
    NonSpecFound
    NonSpecAlone
PROPERTY
    AllDone
