CONSTANTS
    Sender = {s1}
    Bulk = {}
    Rest = {}
    User = {u1}
    Foreign = Foreign
    NoOne = NoOne
    SendTimeout = 1
    RecoveryMinAge = 1
    AcquireAttempts = 1
    LinkWriteAttempts = 3
    LastAsk = 1
SPECIFICATION Spec
INVARIANT OrphanKeepsClaim
CHECK_DEADLOCK FALSE
