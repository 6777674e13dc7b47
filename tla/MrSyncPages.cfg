\* One merge request per page: an update comes between two pages of a run.
CONSTANTS
    Mrs = {1, 2}
    None = None
    PageSize = 1
    MaxClock = 2
SPECIFICATION Spec
INVARIANT NothingSkipped
