CONSTANTS
    Sender = {s1, s2}
    Bulk = {s1}
    Rest = {s2}
    User = {u1}
    Foreign = Foreign
    NoOne = NoOne
    SendTimeout = 2
    RecoveryMinAge = 2
    AcquireAttempts = 2
    LinkWriteAttempts = 2
    LastAsk = 1
SPECIFICATION FairSpec
INVARIANTS TypeOK SendNeedsClaim SentCreatesAreHeld IndInv
PROPERTIES
    CreatesOnce
    HeldClaimIsCleared
CHECK_DEADLOCK FALSE
