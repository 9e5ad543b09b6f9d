CONSTANTS
    MaxDatanodeNum = 3
    MaxFileCount = 1
    MaxFileBlkCount = 2
    DfsBlockSize = 2
    Heartbeats <- TwoHosts
    Requests <- AllRequests
    Null = Null
    Garbage = Garbage
    Blank = Blank
    Clients = {c1, c2}
    Nobody = Nobody
    Bytes = {x1, x2, x3, y1, Zero, Garbage}
    LocalFiles <- TwoWriters
    NoFile = NoFile
    Zero = Zero
    Modifications <- SecondBlock
    LateHeartbeats <- TheSecond
    MaxListen = 2
    MaxCalls <- OneAndTwo
    ip1 = ip1
    ip2 = ip2
    port1 = port1
    port2 = port2
    file1 = file1
    c1 = c1
    c2 = c2
    x1 = x1
    x2 = x2
    x3 = x3
    y1 = y1
SPECIFICATION FairDfsSpec
INVARIANTS DfsTypeOK
PROPERTIES PulledIsPushed DownNeedsRace CallsEnd
CHECK_DEADLOCK FALSE
