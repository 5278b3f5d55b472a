SPECIFICATION Spec
CONSTANTS
    t1 = t1
    t2 = t2
    Thread = {t1}
    Calls <- OneReader
    Modulus = 2
    UpSlots = 1
    DownSlots = 1
    FirmwareWaits = FALSE
    ResetsOverlap = TRUE
    MaxRestart = 3
INVARIANTS InsideMeansUp
CHECK_DEADLOCK FALSE
