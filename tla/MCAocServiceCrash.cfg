SPECIFICATION Spec
CONSTANTS
    t1 = t1
    t2 = t2
    Thread = {t1}
    Calls <- OneReader
    Modulus = 4
    UpSlots = 2
    DownSlots = 1
    FirmwareWaits = TRUE
    ResetsOverlap = TRUE
    MaxRestart = 1
INVARIANTS CrashIsNoticed
CHECK_DEADLOCK FALSE
