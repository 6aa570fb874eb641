SPECIFICATION Spec
CONSTANTS
    t1 = t1
    u1 = u1
    o1 = o1
    p1 = p1
    p2 = p2
    Tokens = {t1}
    NoToken = NoToken
    Users = {u1}
    Organizations = {o1}
    Owner <- OneOwner
    ActiveOrg <- OneOrg
    Requests = {p1, p2}
    IdleTimeout = 3
    MaxLifetime = 2
    SessionTTLCap = 1
    Retention = 0
    CacheEnabled = TRUE
    LastSeenRequired = FALSE
    MaxLatency = 1
    Horizon = 3
INVARIANTS
    TypeOK
    ResolvedWithinLifetime
    BoundedStaleness
    StaleEntryExplained
PROPERTIES
    ImplementsLedger
