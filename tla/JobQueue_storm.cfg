\* Two workers on a queue; processes die, queues are cleared, rows purged, records expire.
CONSTANTS
    prio = prio
    w1 = w1
    w2 = w2
    j1 = j1
    j2 = j2
    None = None
    Queue = {prio}
    Worker = {w1, w2}
    Serves <- BothPrio
    Job = {j1, j2}
    Goes <- AllPrio
    Pipelined = FALSE
    MaxStops = 1
    MaxClears = 1
SPECIFICATION Spec
INVARIANTS TypeOK RunOnce
PROPERTIES KeepsPromise
SYMMETRY Interchangeable
CHECK_DEADLOCK FALSE
