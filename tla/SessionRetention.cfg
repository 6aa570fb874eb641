SPECIFICATION Spec
CONSTANTS
    t1 = t1
    u1 = u1
    o1 = o1
    p1 = p1
    p2 = p2
    Tokens = {t1}
    NoToken = NoToken
    Users = {u1}
    Organizations = {o1}
    Owner <- OneOwner
    ActiveOrg <- OneOrg
    Requests = {p1}
    IdleTimeout = 2
    MaxLifetime = 2
    SessionTTLCap = 1
    Retention = 2
    CacheEnabled = TRUE
    LastSeenRequired = FALSE
    MaxLatency = 1
    Horizon = 4
PROPERTIES
    RetentionHonoured
