CONSTANTS
    Northbound = {n1, n2}
    Southbound = {s1, s2}
    starvecnt = 2
SPECIFICATION BridgeSpec
PROPERTIES FiniteTime
CHECK_DEADLOCK FALSE
