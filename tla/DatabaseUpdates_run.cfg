\* A request and a worker, three updates of which the second may fail, two mishaps.
CONSTANTS
    Web = {q}
    Worker = {w}
    Last = 3
    Steps = 1
    Failing = {2}
    FailLimit = 1
    Background = TRUE
    MaxJobs = 1
    MaxMishaps = 2
SPECIFICATION Spec
INVARIANTS TypeOK NoneSkipped InOrder
 
CHECK_DEADLOCK FALSE
