CONSTANTS
    Caller = {c1}
    Worker = {w1, w2}
    RetryAfter = 0
    GiveUpAfter = 0
    MaxEnqueues = 2
SPECIFICATION Spec
SYMMETRY Alike
INVARIANTS SuccessIsCovered IndInv
