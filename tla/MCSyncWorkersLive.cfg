\* One worker that crashes, pauses and loses its lease, and one enqueue caller:
\* what must happen in the end.
CONSTANTS
    JobIds = {1, 2}
    Projects = {p1}
    Workers = {w1}
    Clients = {c1}
    None = None
    MaxAttempts = 2
    Stale = 1
    Interval = 1
    InitialDelay = 0
    MaxDelay = 1
    MaxClock = 2
SPECIFICATION FairSpec
INVARIANT AttemptBudget
PROPERTY ClaimsEnd
PROPERTY TargetsAreSynced
