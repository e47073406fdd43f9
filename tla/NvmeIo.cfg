\* Three slots: each ring wraps, and the phase flips, at every third command.
CONSTANTS
    QueueDepth = 3
    LBAs = {0, 1}
    Values = {v1, v2}
    TagSpace = 4
SPECIFICATION FairSpec
INVARIANTS
    TypeOK
    OwnCompletion
    NoDmaAfterReturn
    QueueInv
PROPERTIES
    CallReturns
    ImplementsBlockDevice
