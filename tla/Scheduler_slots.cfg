\* One task over three intervals: late fetches, a failing command or crash, requests of an administrator.
CONSTANTS
    pull = pull
    feed = feed
    None = None
    Task = {pull}
    Interval <- Timers
    Admin = {ad1}
    MaxTime = 6
    MaxAsks = 2
    MaxFaults = 1
SPECIFICATION Spec
INVARIANTS TypeOK 
CHECK_DEADLOCK FALSE
