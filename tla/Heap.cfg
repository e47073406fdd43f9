\* Blocks of 2, 4 and 8 bytes in a buffer that holds at most six of them.
CONSTANTS
    heap_size = 40
    HEADER_SIZE = 4
    ALIGNMENT = 2
    Requests <- SmallRequests
    nullptr = nullptr
    Raw = Raw
SPECIFICATION Spec
CHECK_DEADLOCK FALSE
INVARIANTS
    TypeOK
    NothingLost
    FreeListExact
    LiveApart
