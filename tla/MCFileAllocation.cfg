SPECIFICATION RunSpec
CONSTANTS
    Files = {f1, f2, f3}
    NumBlocks = 5
    ConSize = 2
    Char = {"a", "b", "nul"}
    NUL = "nul"
    Texts <- MCTexts
    ContiguousTexts <- MCContiguousTexts
    ModifiedTexts <- MCModifiedTexts
SYMMETRY Symmetry
INVARIANTS EveryDiskSound AgreeUntilFailure NoSpaceIsFragmented
 
CHECK_DEADLOCK FALSE
