\* Two workers, one project and a second job for it: leases and coalescing.
CONSTANTS
    JobIds = {1, 2}
    Projects = {p1}
    Workers = {w1, w2}
    Clients = {}
    None = None
    MaxAttempts = 2
    Stale = 1
    Interval = 1
    InitialDelay = 1
    MaxDelay = 2
    MaxClock = 2
SPECIFICATION Spec
SYMMETRY Symmetry
CONSTRAINT Bounds
INVARIANT TypeOK
INVARIANT AtMostOneActiveJob
INVARIANT LeaseHolds
INVARIANT NoDoubleSync
PROPERTY TerminalIsFinal
PROPERTY SyncsAreSpaced
PROPERTY ImplementsLease
