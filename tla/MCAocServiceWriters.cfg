SPECIFICATION Spec
CONSTANTS
    t1 = t1
    t2 = t2
    Thread = {t1, t2}
    Calls <- TwoWriters
    Modulus = 4
    UpSlots = 2
    DownSlots = 2
    FirmwareWaits = TRUE
    ResetsOverlap = TRUE
    MaxRestart = 0
PROPERTIES QueuesAreFifo
CHECK_DEADLOCK FALSE
