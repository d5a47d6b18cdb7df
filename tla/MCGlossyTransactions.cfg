CONSTANTS
    Tx = {t1, t2, t3}
    Visual = {v1, v2}
    MaxClaims = 2
SPECIFICATION Spec
SYMMETRY Alike
INVARIANTS
    IndInv
    NoDeadlock
    NeverBroken
PROPERTIES
    CacheWrittenWhileHeld
    PublicationSpec
CHECK_DEADLOCK FALSE
