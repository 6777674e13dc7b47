\* One page per commit; branches are deleted or rewritten between two runs only.
CONSTANTS
    Executors = {x1}
    Branches = {1, 2}
    Commits = {1, 2}
    None = None
    PageSize = 1
    Overlap = 2
    ListTime = 1
    MaxLag = 1
    MaxAhead = 1
    MaxClock = 3
    Rewrites = TRUE
SPECIFICATION Spec
ACTION_CONSTRAINT RewritesBetweenRuns
INVARIANT TypeOK
INVARIANT NothingMissed
INVARIANT CursorPassesDrained
