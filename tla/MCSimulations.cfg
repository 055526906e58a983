SPECIFICATION SimSpec
CONSTANTS
    NumPages = 3
    NumFrames = 2
    PageSize = 3
    NumRequests = 6
    NUL = 0
    Byte <- MCByte
    Texts <- MCTexts
    Algorithms = {"LRU", "FIFO", "RANDOM"}
    MemSize = 12
    MaxProcessSize = 10
INVARIANTS TablesAgree CleanIsSwapped ExtentsTile
PROPERTIES ImplementsStore ImplementsPolicy FirstFitButTheTail 
CHECK_DEADLOCK FALSE
