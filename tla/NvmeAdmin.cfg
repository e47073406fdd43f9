\* Two attempts and a call after a success; rings that they do not go round.
CONSTANTS
    QueueDepth = 16
    MaxCalls = 3
SPECIFICATION FairSpec
CHECK_DEADLOCK FALSE
INVARIANTS
    TypeOK
    ReadyMeansUp
    NothingOutstanding
PROPERTIES
    InitReturns
