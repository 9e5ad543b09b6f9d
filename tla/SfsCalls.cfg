CONSTANTS
    LastBlock = 8
    BlockSize = 2
    FrameCount = 1
    DbNinodes = 1
    MaxOpenedFiles = 2
    DirNames = {d1, d2}
    NoName = NoName
    FileNames = {f1, f2}
    Bytes = {Zero, Junk}
    Zero = Zero
    Junk = Junk
    Buffers <- OneOrThreeBytes
    Lengths <- ReadLengths
    Moves <- ToTheStart
    MaxCursor = 3
    MaxLeaked = 0
SYMMETRY NamesAlike
VIEW WithoutAnswers
SPECIFICATION Spec
INVARIANTS TypeOK
PROPERTIES BreaksAreExplained LeaksAreExplained StaleOnlyByOthers
CHECK_DEADLOCK FALSE
