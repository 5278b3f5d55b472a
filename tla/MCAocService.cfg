SPECIFICATION Spec
CONSTANTS
    t1 = t1
    t2 = t2
    Thread = {t1}
    Calls <- ReadsAndWrites
    Modulus = 4
    UpSlots = 2
    DownSlots = 1
    FirmwareWaits = FALSE
    ResetsOverlap = FALSE
    MaxRestart = 1
INVARIANTS
    TypeOK
    InsideMeansUp
    SleeperHasWaker
    ReadsTheOldest
PROPERTIES QueuesAreFifo
CHECK_DEADLOCK FALSE
