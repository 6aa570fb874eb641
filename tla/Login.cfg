SPECIFICATION Spec
CONSTANTS
    r1 = r1
    r2 = r2
    Requests = {r1}
    Before = Before
    None = None
    Limit = 2
    MaxStep = 1
    Situations <- Unenrolled
INVARIANTS
    LoginWithoutFactor
CHECK_DEADLOCK FALSE
