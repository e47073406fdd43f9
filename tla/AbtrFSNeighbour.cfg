\* A file that has a neighbour is given more blocks.
CONSTANTS
    BLOCK = 2
    TotalBlocks = 7
    DevBlocks = 7
    Bytes = {0, 1, 2, 3}
    MetaByte = 3
    Paths = {"/", "/a", "/b"}
    RootPaths = {"/"}
    LongPaths = {}
    Calls <- AvfsCalls
    FaultKinds = {}
    MaxFaults = 1
    NoHeader = NoHeader
    Absent = Absent
SPECIFICATION MCSpec
PROPERTY NeighboursKept
