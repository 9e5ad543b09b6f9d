CONSTANTS
    MaxDatanodeNum = 3
    MaxFileCount = 1
    MaxFileBlkCount = 2
    DfsBlockSize = 2
    Heartbeats <- MovingDatanodes
    Requests <- AnyAssignment
    Null = Null
    Garbage = Garbage
    Blank = Blank
    ip1 = ip1
    ip2 = ip2
    port1 = port1
    port2 = port2
    port3 = port3
    file3 = file3
    file1 = file1
    file2 = file2
SPECIFICATION Spec
INVARIANTS TypeOK CountIsExact UnfilledIsOutOfReach
PROPERTIES CrashNeedsRecountOrHole
CHECK_DEADLOCK FALSE
