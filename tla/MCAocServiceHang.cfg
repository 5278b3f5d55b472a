SPECIFICATION FairSpec
CONSTANTS
    t1 = t1
    t2 = t2
    Thread = {t1}
    Calls <- OneReader
    Modulus = 2
    UpSlots = 1
    DownSlots = 1
    FirmwareWaits = FALSE
    ResetsOverlap = TRUE
    MaxRestart = 2
PROPERTIES OfflineFinishes
CHECK_DEADLOCK FALSE
