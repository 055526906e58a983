CONSTANTS
    Threads = {t1, t2}
    Events = {e1}
    MAX = 1
    Capacity = 2
    Tickets = {1, 2}
    SeatBound = 2
    BookedBound = 2
    Spurious = FALSE
SPECIFICATION Spec
INVARIANTS AtMostMAX
CHECK_DEADLOCK FALSE
