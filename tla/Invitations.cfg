SPECIFICATION Spec
CONSTANTS
    c1 = c1
    c2 = c2
    a1 = a1
    a2 = a2
    e1 = e1
    None = None
    Creates = {c1, c2}
    Accepts = {a1, a2}
    Emails = {e1}
    EmailOf <- OneEmail
    Situations <- Kinds
INVARIANTS
    TypeOK
    AcceptedLeavesMember
    ConsumedOnce
    NoneBesideAnEarlierPending
    UnmailedIsReported
PROPERTIES
    Answered
    ImplementsLedger
CHECK_DEADLOCK FALSE
