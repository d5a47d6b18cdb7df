CONSTANTS
    Key = {k1, k2}
    Credentials = {1, 2}
    Request = {r1, r2}
    MaxProcesses = 1
    MaxCreations = 2
SPECIFICATION FairSpec
INVARIANTS
    IndInv
    LeasedIsOpen
    NothingLeaks
    OwnCredentials
PROPERTY RetiredIsClosed
CHECK_DEADLOCK FALSE
