CONSTANTS
    Diners = {d1, d2, d3, d4}
    BatchSize = 2
    MinDiners = 3
    BatchNoMod = 2
SPECIFICATION Spec
INVARIANTS CountersAgree NoLostWakeup BackDoor
PROPERTIES BatchNoStable StallsOnlyWhenShort ImplementsBatchService
CHECK_DEADLOCK FALSE
