\* 3 x 2 pixels, words of five bits.
CONSTANTS
    Width = 3
    Height = 2
    Pitch = 4
    Word = 32
    Extents <- Lengths
    Responses <- FrameBuffers
    NoResponse = NoResponse
    Garbage = Garbage
SPECIFICATION Spec
INVARIANTS
    StaysInside
    RectExact
    LineAccurate
PROPERTY
    LineEnds
