CONSTANTS
    h1 = h1
    h2 = h2
    Holder = {h1, h2}
    MaxRetry = 1
SPECIFICATION FairSpec
INVARIANTS
    TypeOK
    PoweredWhileHeld
    NoForgottenPowerDown
    SuspendGate
    FreedIsQuiescent
PROPERTIES
    AsyncPutDone
    PendingIsRetried
    RefinesContract
CHECK_DEADLOCK FALSE
