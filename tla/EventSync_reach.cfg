\* Every distribution level but "all", pushed and pulled back, edited on two instances, with checks and saves apart.
CONSTANTS
    a = a
    b = b
    c = c
    d = d
    None = None
    Node <- All
    Worker = {w1}
    Origin = a
    Editors <- OnlyAB
    Deleters <- NoOne
    Push <- Fork
    FullPush <- PushOne
    Pull <- ForkBack
    Internal <- ForkInternal
    UnpublishPush <- PushOne
    Workflow <- NoOne
    PullForce <- Booleans
    Levels = {0, 1, 2}
    Blocklisting = TRUE
    SplitEdit = TRUE
    SplitPublish = TRUE
    MaxTime = 1
    MaxEdits = 2
    MaxPublish = 2
    MaxFaults = 0
SPECIFICATION Spec
INVARIANTS HopBound OriginKept
CHECK_DEADLOCK FALSE
