CONSTANTS
    Editor = {e1, e2}
    StaleAfter = 1
    RequestBound = 1
    ClaimAttempts = 2
    MaxClaims = 2
    MaxFaults = 1
SPECIFICATION FairSpec
INVARIANTS
    IndInv
    RowsAgree
    ResultIsTrue
PROPERTIES
    LiveRunKeepsClaim
    PublicationSpec
    EditionIsFreed
CHECK_DEADLOCK FALSE
