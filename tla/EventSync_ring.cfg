\* Push links in a cycle: the publish cascade, with two workers on an instance.
CONSTANTS
    a = a
    b = b
    c = c
    d = d
    None = None
    Node <- All
    Worker = {w1, w2}
    Origin = a
    Editors <- OnlyA
    Deleters <- OnlyB
    Push <- Loop
    FullPush <- NoLinks
    Pull <- NoLinks
    Internal <- NoLinks
    UnpublishPush <- NoLinks
    Workflow <- NoOne
    PullForce <- OnlyFalse
    Levels = {3}
    Blocklisting = TRUE
    SplitEdit = FALSE
    SplitPublish = FALSE
    MaxTime = 1
    MaxEdits = 2
    MaxPublish = 2
    MaxFaults = 0
SPECIFICATION FairSpec
INVARIANTS TypeOK  
PROPERTIES  CascadeEnds
CHECK_DEADLOCK FALSE
