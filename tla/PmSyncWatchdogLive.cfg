CONSTANTS
    Caller = {c1}
    Worker = {}
    RetryAfter = 0
    GiveUpAfter = 2
    MaxEnqueues = 2
SPECIFICATION FairSpec
INVARIANT BoundIsTheEnqueues
PROPERTIES OnlyEnqueuesArm PendingIsSettled
