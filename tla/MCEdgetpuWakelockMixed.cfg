SPECIFICATION Spec
CONSTANTS
    c1 = c1
    c2 = c2
    Client = {c1}
    Thread = {t1}
    AcquireFlags <- AllSuspend
    Serial = {c1}
    IntMax = 1
    MaxLeak = 2
INVARIANTS
    IdleDeviceSuspends
