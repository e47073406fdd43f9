\* Files grow and the device refuses reads and writes.
CONSTANTS
    BLOCK = 2
    TotalBlocks = 7
    DevBlocks = 6
    Bytes = {0, 1, 2, 3}
    MetaByte = 3
    Paths = {"/", "/a", "/b", "/long"}
    RootPaths = {"/"}
    LongPaths = {"/long"}
    Calls <- MixedCalls
    FaultKinds = {"read", "write"}
    MaxFaults = 1
    NoHeader = NoHeader
    Absent = Absent
SPECIFICATION MCSpec
INVARIANTS
    TypeOK
    ChainIntact
PROPERTIES
    StoreUntilGrowth
    OthersUntouched
    CallReturns
