SPECIFICATION Spec
CONSTANTS
    p1 = p1
    p2 = p2
    p3 = p3
    e1 = e1
    e2 = e2
    Requests = {p1, p2, p3}
    Emails = {e1, e2}
    EmailOf <- TwoEmails
    Slug = Slug
INVARIANTS
    TypeOK
    OneCompleteSetup
    ConflictOnlyWhenSetUp
    SessionOnlyForOwner
PROPERTIES
    Answered
CHECK_DEADLOCK FALSE
