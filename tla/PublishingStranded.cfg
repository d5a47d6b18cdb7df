CONSTANTS
    Bell = {}
    Mail = {r1}
    Attempt = {a1}
    Drain = {d1}
    Bound = 2
    MaxVersion = 2
    None = None
SPECIFICATION FairSpec
PROPERTY DeferralIsSettled
CHECK_DEADLOCK FALSE
