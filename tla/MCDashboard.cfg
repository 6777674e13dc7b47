SPECIFICATION Spec
CONSTANTS
    None = None
    Projects = {1, 2}
    Tasks = {t1, t2}
    AllowTtl = 1
    DenyTtl = 2
    SyncDenialTtl = 2
    Concurrency = 2
    RequestTime = 1
    Opening = 256
    Closing = 259
    Commits <- MCCommits
CONSTRAINT Bounds
SYMMETRY Symmetry
INVARIANT TypeOK VerdictsAreRecent StrandedOnlyByRace NoMoreSnapshotsThanPages WeeksPartition
CHECK_DEADLOCK FALSE
