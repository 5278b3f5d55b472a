SPECIFICATION Spec
CONSTANTS
    c1 = c1
    c2 = c2
    Client = {c1, c2}
    Thread = {t1, t2}
    AcquireFlags <- OneSuspends
    Serial = {c1}
    IntMax = 1
    MaxLeak = 2
SYMMETRY ThreadSymmetry
INVARIANTS
    TypeOK
    PowerBalanced
    HeldMeansPowered
    NoUnpoweredAccess
    MailboxFollowsWakelock
