CONSTANTS
    c1 = c1  c2 = c2  c3 = c3  c4 = c4  k1 = k1
    NoClient = NoClient
    Clients = {c1, c2, c3, c4}
    Changes = {k1}
    ChangeOf <- MCChangeOf
    KindOf <- MCKindOf
    MaxJobs = 1
    MayStop = TRUE
SPECIFICATION Spec
SYMMETRY CallSymmetry
INVARIANTS PermitsBalance NoFalseGreen DaemonInv
PROPERTIES ExitIsFinal
CHECK_DEADLOCK FALSE
