CONSTANTS
    Bell = {r1}
    Mail = {r2}
    Attempt = {a1, a2}
    Drain = {}
    Bound = 1
    MaxVersion = 2
    None = None
SPECIFICATION Spec
INVARIANTS
    BellsAreHonest
    NothingIsStranded
SYMMETRY Symmetry
CHECK_DEADLOCK FALSE
