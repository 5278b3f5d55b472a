SPECIFICATION Spec
CONSTANTS
    t1 = t1
    t2 = t2
    Thread = {t1, t2}
    Calls <- TwoReaders
    Modulus = 4
    UpSlots = 2
    DownSlots = 1
    FirmwareWaits = TRUE
    ResetsOverlap = TRUE
    MaxRestart = 0
INVARIANTS SleeperHasWaker
CHECK_DEADLOCK FALSE
