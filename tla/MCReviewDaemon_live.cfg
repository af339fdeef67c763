CONSTANTS
    c1 = c1  c2 = c2  c3 = c3  c4 = c4  k1 = k1
    NoClient = NoClient
    Clients = {c1, c2}
    Changes = {k1}
    ChangeOf <- TwoChangeOf
    KindOf <- TwoKindOf
    MaxJobs = 1
    MayStop = TRUE
SPECIFICATION FairSpec
PROPERTIES EveryRequestRuns EveryCallEnds ShutdownEnds
CHECK_DEADLOCK FALSE
