\* Two tasks, one request of an administrator, a failing command or crash: does everything due and forced run?
CONSTANTS
    pull = pull
    feed = feed
    None = None
    Task = {pull, feed}
    Interval <- Timers
    Admin = {ad1}
    MaxTime = 2
    MaxAsks = 1
    MaxFaults = 1
SPECIFICATION FairSpec
PROPERTIES NoneStaysDue 
CHECK_DEADLOCK FALSE
