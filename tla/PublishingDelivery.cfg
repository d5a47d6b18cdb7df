CONSTANTS
    Bell = {}
    Mail = {r1}
    Attempt = {a1}
    Drain = {d1, d2}
    Bound = 2
    MaxVersion = 2
    None = None
SPECIFICATION FairSpec
INVARIANTS
    IndInv
    SentWasAccepted
PROPERTIES
    ClaimsEndProperly
    SettledForGood
    DeferralEnds
CHECK_DEADLOCK FALSE
