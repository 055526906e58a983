CONSTANTS
    Threads = {t1, t2, t3}
    Events = {e1}
    MAX = 2
    Capacity = 1
    Tickets = {1, 2}
    SeatBound = 1
    BookedBound = 1
    Spurious = TRUE
SPECIFICATION Spec
INVARIANTS EntriesAreOwned ExclusiveUnlessStale SeatsConserved
SYMMETRY Symmetry
CHECK_DEADLOCK FALSE
