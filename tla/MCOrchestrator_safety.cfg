CONSTANTS
    w1 = w1  w2 = w2  daemon = daemon  cli = cli
    i1 = i1  i2 = i2  k1 = k1  k2 = k2  f1 = f1
    NoKey = NoKey
    Ids = {i1, i2}
    Keys = {k1, k2}
    Files = {f1}
    Runs = {w1, w2}
    Procs = {daemon}
    ProcOf <- TwoThreads
    Requests <- MCRequests
    AgentCount <- MCAgentCount
    Services <- EveryService
    StoreMayFail = TRUE
    MayCrash = TRUE
SYMMETRY ThreadSymmetry
SPECIFICATION Spec
INVARIANTS IInv OneRunPerChange RowTracksRun ReplyMatchesRow OrphanHasReason PassIsEarned AuditAgreesWithRow
PROPERTIES TerminalIsFinal BypassOnlyToDegraded LedgerSpec
CHECK_DEADLOCK FALSE
