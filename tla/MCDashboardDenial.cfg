\* A request of the user keeps a denial for one hour, a synchronisation for three.
CONSTANTS
    None = None
    Projects = {1}
    Tasks = {t1}
    AllowTtl = 3
    DenyTtl = 1
    SyncDenialTtl = 3
    Concurrency = 1
    RequestTime = 1
    Opening = 256
    Closing = 260
    Commits <- MCCommits
SPECIFICATION Spec
INVARIANT DenialsAreBrief
CHECK_DEADLOCK FALSE
