\* Scheduled pulls along a chain, the middle of which pushes to a fourth instance,
\* with two editors and failing requests.
CONSTANTS
    a = a
    b = b
    c = c
    d = d
    None = None
    Node <- Four
    Worker = {w1}
    Origin = a
    Editors <- OnlyAB
    Deleters <- OnlyB
    Push <- PushOn
    FullPush <- NoLinks
    Pull <- PullChain
    Internal <- NoLinks
    UnpublishPush <- NoLinks
    Workflow <- OnlyA
    PullForce <- OnlyFalse
    Levels = {1, 3}
    Blocklisting = TRUE
    SplitEdit = FALSE
    SplitPublish = FALSE
    MaxTime = 1
    MaxEdits = 2
    MaxPublish = 1
    MaxFaults = 1
SPECIFICATION FairSpec
 
PROPERTIES PullCatchesUp
CHECK_DEADLOCK FALSE
