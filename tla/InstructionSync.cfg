CONSTANTS
    Check = {c1}
    Delivery = {d1}
    Delegate = {u1}
    MaxRun = 1
    MaxGeneration = 2
    MaxHead = 2
    None = None
SPECIFICATION Spec
INVARIANTS
    IndInv
    NoHeadIsForgotten
PROPERTY LeasedWritesAreFresh
CHECK_DEADLOCK FALSE
