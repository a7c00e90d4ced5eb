\* A job is not over when its task is due again.
CONSTANTS
    pull = pull
    feed = feed
    None = None
    Task = {pull}
    Interval <- Timers
    Admin = {ad1}
    MaxTime = 5
    MaxAsks = 1
    MaxFaults = 0
SPECIFICATION Spec
INVARIANTS NoOverlap
CHECK_DEADLOCK FALSE
