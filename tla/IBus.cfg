\* Two buses of one slot with two functions, a map of two ECAM regions.
CONSTANTS
    Buses = 2
    Slots = 1
    Funcs = 2
    MaxECAMRegions = 2
    Absent = Absent
    Hardware <- MCHardware
SPECIFICATION Spec
INVARIANTS
    BusMasterExact
    DriverDeviceListed
PROPERTIES
    StorageStable
    BootReturns
