SPECIFICATION ByteSpec
CONSTANTS
    MaxBlocks = 3
    CacheBlocks = 2
    Data <- MCData
    Zero <- MCZero
    Absent = Absent
    BlockIds <- ValidIds
    Leftovers <- JustZeros
    IOFails = FALSE
    BlockSize = 2
    Bytes <- TwoBytes
    ZeroByte = 0
    IntMax = 7
    Arguments <- FewArguments
    WriteBuffers <- TwoBuffers
INVARIANTS
    LoopInRange
    EveryBlockIsChargedOnce
PROPERTIES
    CallsReturn
    ImplementsFlatDisk
