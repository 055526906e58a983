CONSTANTS
    NumChildren = 2
    NumQ = 2
    NumOptions = 1
    MaxRuns = 2
    MaxKills = 1
SPECIFICATION Spec
INVARIANTS OneTurn InStep 
PROPERTIES CleanRunEnds
CHECK_DEADLOCK FALSE
