SPECIFICATION Spec
CONSTANTS
    p1 = p1
    p2 = p2
    p3 = p3
    e1 = e1
    e2 = e2
    Requests = {p1, p3}
    Emails = {e1, e2}
    EmailOf <- TwoEmails
    Slug = Slug
INVARIANTS
    CompletedSetupIsConflict
CHECK_DEADLOCK FALSE
