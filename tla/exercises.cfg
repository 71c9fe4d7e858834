CONSTANTS
    Threads = 3
    Chunk = 11
    MaxSize = 11
    MaxSignals = 2
    Programs = {1, 2, 3, 4}
    Mode <- FourModes
    BufSiz = 3
    Half = 3
    Texts <- ShortTexts
    Olds <- OldTexts
    Letters = {"a", "b"}
    Words <- ShortWords
    Low <- Lowest
    High = 100
    IntMax = 255
    MaxReads = 2
SPECIFICATION AllSpec
INVARIANTS Safe Listed
PROPERTIES ImplementsSingle WaitersEnd
CHECK_DEADLOCK FALSE
