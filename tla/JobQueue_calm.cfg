\* Two workers on a queue that retire, are restarted, and one process is stopped.
CONSTANTS
    prio = prio
    w1 = w1
    w2 = w2
    j1 = j1
    j2 = j2
    None = None
    Queue = {prio}
    Worker = {w1, w2}
    Serves <- BothPrio
    Job = {j1, j2}
    Goes <- AllPrio
    Pipelined = TRUE
    MaxStops = 1
    MaxClears = 0
SPECIFICATION FairSpec
INVARIANTS  Settled
PROPERTIES EveryJobEnds KeysGo
CHECK_DEADLOCK FALSE
