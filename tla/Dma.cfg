\* Buffers wherever operator new and the stack put them: what the device does to memory.
CONSTANTS
    Cells = {0, 1}
    Page = 2
    Frames = 6
    LBAs = {1, 2}
    Half = 4
    Hhdm = 12
    KVirt = 32
    KPhys = 2
    Answered = TRUE
    Buffers <- AnyPlace
SPECIFICATION Spec
PROPERTIES
    ImplementsBlockDevice
    OnlyBufferWritten
