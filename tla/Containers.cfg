\* Two arrays of sizes up to three; two strings of up to five characters.
CONSTANTS
    arr1 = arr1
    arr2 = arr2
    str1 = str1
    str2 = str2
    blk1 = blk1
    blk2 = blk2
    blk3 = blk3
    ArrayNames <- Arrays
    StringNames <- TwoStrings
    HeapBlocks <- BlockNames
    Values <- Elements
    Strings <- CStrings
    Literals <- Texts
    MaxSize = 3
    MaxLength = 5
    SSO = 1
    MinHeap = 4
    External = External
    Null = Null
    Nul = Nul
    Unset = Unset
    Unused = Unused
    Dead = Dead
SYMMETRY Alike
SPECIFICATION MCSpec
INVARIANTS
    ContentsExact
    BlocksOwnedOnce
    StringsOrdered
PROPERTY
    BorrowedLeftAlone
