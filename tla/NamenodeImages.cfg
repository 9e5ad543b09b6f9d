CONSTANTS
    MaxDatanodeNum = 3
    MaxFileCount = 2
    MaxFileBlkCount = 2
    DfsBlockSize = 2
    Heartbeats <- OneDatanode
    Requests <- ThreeFiles
    Null = Null
    Garbage = Garbage
    Blank = Blank
    ip1 = ip1
    ip2 = ip2
    port1 = port1
    port2 = port2
    port3 = port3
    file3 = file3
    file1 = file1
    file2 = file2
SPECIFICATION FairSpec
INVARIANTS OneImagePerFile ImagesAreComplete NumberedFromZero
PROPERTIES RequestsEnd ServiceStarts
CHECK_DEADLOCK FALSE
