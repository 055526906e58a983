CONSTANTS
    Northbound = {n1, n2, n3}
    Southbound = {s1, s2}
    starvecnt = 2
SPECIFICATION BridgeSpec
INVARIANTS CountsAgree LockedHasReleaser StuckOnlyCrossed OneWayLimit OneDirectionUntilExit
PROPERTIES EndsOrCrossed
CHECK_DEADLOCK FALSE
