CONSTANTS
    LastBlock = 12
    BlockSize = 2
    FrameCount = 2
    DbNinodes = 1
    MaxOpenedFiles = 2
    DirNames = {d1, d2}
    NoName = NoName
    FileNames = {f1}
    Zero = Zero
    Junk = Junk
    x0 = x0
    y0 = y0
    Bytes = {Zero, Junk, x0, y0}
    Buffers <- ShortAndLong
    Lengths <- NothingOrThree
    Moves <- ToTheStart
    MaxCursor = 5
    MaxLeaked = 2
SYMMETRY DirsAlike
VIEW WithoutAnswers
SPECIFICATION CarefulSpec
INVARIANTS NothingBreaks
PROPERTIES FilesAsPromised
CHECK_DEADLOCK FALSE
