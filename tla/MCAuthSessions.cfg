SPECIFICATION Spec
CONSTANTS
    Users = {u1, u2}
    FirstAdmin = u1
    Passwords = {p1, p2}
    SessionIds = {1, 2}
    Requests = {r1, r2}
    None = None
    MaxFailures = 2
    LockTime = 1
    IpFailures = 2
    IpWindow = 1
    IdleTime = 2
    FullTime = 3
    TouchTime = 0
    Latency = 1
    MaxClock = 3
SYMMETRY Symmetry
CONSTRAINT Bounds
INVARIANT
    TypeOK
    IdleCountsFromUse
    DeactivatedGetNowhere
    FailuresPerWindow
    FailuresAreCounted
    SessionsFitUsers
    SomeAdminRemains
PROPERTY
    RevokedIsFinal
