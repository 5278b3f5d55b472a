SPECIFICATION Spec
CONSTANTS
    Channel = {c1, c2}
    Reader = {r1, r2}
    MaxPending = 2
    Threshold = 1
    MaxInFlight = 2
    CommandsFail = TRUE
SYMMETRY ReaderSymmetry
INVARIANTS NoSleeperOnDead CountedIsThere BlockedHasPending
CHECK_DEADLOCK FALSE
