SPECIFICATION Spec
CONSTANTS
    Channel = {c1, c2}
    Reader = {r1, r2}
    MaxPending = 2
    Threshold = 1
    MaxInFlight = 2
    CommandsFail = FALSE
SYMMETRY ReaderSymmetry
INVARIANTS ThresholdBlocks
CHECK_DEADLOCK FALSE
