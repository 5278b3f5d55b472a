CONSTANTS
    h1 = h1
    Holder = {h1}
    MaxRetry = 0
SPECIFICATION Spec
PROPERTIES
    FailedPutIsRetried
CHECK_DEADLOCK FALSE
