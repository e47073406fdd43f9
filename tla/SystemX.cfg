\* Up to two storage devices, one file, blocks of two bytes, buffers of one to three.
CONSTANTS
    Addresses <- BaseAddresses
    Texts <- ModelTexts
    Calls <- StoreCalls
    Paths <- AskedPaths
    Dirs <- Directories
    RootDirs <- Roots
    Absent = Absent
    BLOCK = 2
    Storages <- Machines
    InvalidHandle = InvalidHandle
    Garbage = Garbage
SPECIFICATION SysSpec
INVARIANTS
    NameFindsDrive
    MountedMeansFormatted
    SuccessMeansDone
