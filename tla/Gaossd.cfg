\* A bus with and without an NVMe controller, two blocks, two contents.
CONSTANTS
    LBAs <- Blocks
    Values <- Contents
    Zero = "zero"
    None = None
SPECIFICATION Spec
INVARIANTS
    QueueDrained
    WritesReachDevice
PROPERTIES
    ImplementsBlockDevice
    BlockOpReturns
