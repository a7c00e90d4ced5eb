\* One run of two updates at a time that may die once, a page with two requests on their way.
CONSTANTS
    Web = {q}
    Worker = {}
    Last = 2
    Steps = 2
    Failing = {}
    FailLimit = 1
    Background = FALSE
    MaxJobs = 0
    MaxMishaps = 1
    Call = {c1, c2}
SPECIFICATION FollowSpec
INVARIANTS PageTypeOK SwitchTells StopsForAReason
PROPERTY Followed
CHECK_DEADLOCK FALSE
