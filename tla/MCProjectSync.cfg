\* What must happen in the end, however often runs pause, with branches that
\* are rewritten and deleted.  A page of branches or of commits holds all of
\* them; a page of merge requests holds one.
CONSTANTS
    Mrs = {1, 2}
    Executors = {x1}
    Branches = {1, 2}
    Commits = {1}
    None = None
    PageSize = 1
    CommitPageSize = 2
    Overlap = 1
    ListTime = 0
    MaxLag = 1
    MaxAhead = 0
    MaxClock = 2
    Rewrites = TRUE
SPECIFICATION ProjectFairSpec
CONSTRAINT FewEvents
INVARIANT CursorCovers
PROPERTY WindowsClose
PROPERTY CommitsArrive
PROPERTY UpdatesArrive
