CONSTANTS
    Key = {k1}
    Credentials = {1}
    Request = {r1, r2}
    MaxProcesses = 1
    MaxCreations = 2
SPECIFICATION Spec
INVARIANT ShutdownClosesAll
CHECK_DEADLOCK FALSE
