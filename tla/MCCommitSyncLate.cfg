\* A run outlives its claim and writes to the window of the next.
CONSTANTS
    Executors = {x1, x2}
    Branches = {1, 2}
    Commits = {1, 2}
    None = None
    PageSize = 2
    Overlap = 1
    ListTime = 0
    MaxLag = 0
    MaxAhead = 0
    MaxClock = 2
    Rewrites = FALSE
SPECIFICATION LateSpec
SYMMETRY Symmetry
CONSTRAINT PushedFirst
INVARIANT NothingLost
