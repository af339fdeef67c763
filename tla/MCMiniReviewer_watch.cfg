CONSTANTS
    g1 = g1  g2 = g2  g3 = g3  t1 = t1  t2 = t2  f1 = f1  f2 = f2  None = None
    Gates = {}
    Staged = {}
    PathsOf <- Nobody
    Threads = {t1, t2}
    Skipping = {}
    AutoApply = TRUE
    Provider = "ollama"
    Files = {f1, f2}
    NewFiles = {f2}
    MaxVersion = 2
SPECIFICATION FairSpec
CHECK_DEADLOCK FALSE
INVARIANTS OneWriterPerProcess
PROPERTIES AcceptedSaveIsRead
