SPECIFICATION Spec
CONSTANTS
    r1 = r1
    r2 = r2
    Requests = {r1, r2}
    Before = Before
    None = None
    Limit = 2
    MaxStep = 2
    Situations <- Everyone
INVARIANTS
    TypeOK
    ResetEndsAccess
    TokenSpentOnce
    LockedAtLimit
    OneLoginPerStep
    SwitchNeverDoubles
    SignOnSpentOnce
    SignOnIsLinked
CHECK_DEADLOCK FALSE
