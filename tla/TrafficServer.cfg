CONSTANTS
    DataLength = 5
    CbrAmount = 2
    BurstAmount = 6
    QueueSize = 4
    OutputRate = 60
SPECIFICATION FairSpec
INVARIANTS TypeOK StreamIsTheData
PROPERTIES NobodyIsLeftWriting
CHECK_DEADLOCK FALSE
