SPECIFICATION Spec
CONSTANTS
    MaxAttempts = 3
    AttemptTimeout = 2
    TotalTimeout = 4
    BackoffBase = 1
    BackoffMax = 2
    MaxPages = 3
    MaxItems = 2
    CheckTime = 1
    TimerLag = 1
    RetryAfters = {0, 2}
    AnswerLists <- MCAnswerLists
    Internal = FALSE
    Scope = "project"
    PageNumbers = {1, 2, 3}
    PageItems = {0, 1, 2}
    None = None
INVARIANT
    TypeOK
    TotalTimeHolds
    AbortLeavesOneRequest
    LastErrorIsTold
    EveryPageOnce
    NeitherSpellingNorOrderMatters
PROPERTY
    DrainEnds
