SPECIFICATION Spec
CONSTANTS
    MaxBlocks = 2
    CacheBlocks = 3
    z = z
    d = d
    Data <- TwoValues
    Zero = z
    Absent = Absent
    BlockIds <- AllKindsOfIds
    Leftovers <- TwoValues
    IOFails = TRUE
INVARIANTS
    CleanIsFileOrZeros
PROPERTIES
    WritesGoHome
