CONSTANTS
    g1 = g1  g2 = g2  g3 = g3  t1 = t1  t2 = t2  f1 = f1  f2 = f2  None = None
    Gates = {g1, g2, g3}
    Staged = {g1}
    PathsOf <- GateArguments
    Threads = {}
    Skipping = {g3}
    AutoApply = TRUE
    Provider = "gemini"
    Files = {f1, f2}
    NewFiles = {f2}
    MaxVersion = 2
SPECIFICATION Spec
CHECK_DEADLOCK FALSE
INVARIANTS NoSilentPass LatestIsLogged
