CONSTANTS
    t1 = t1  t2 = t2  f1 = f1  f2 = f2  dir = dir  None = None
    Threads = {t1, t2}
    Callers = {t1, t2}
    Files = {f1, f2}
    Paths = {f1, dir}
    Under <- MCUnder
    Hashes <- MCHashes
    MaxVersion = 1
    MaxEntries = 1
    TTL = 2
    MaxTime = 2
    MaxCaches = 3
SPECIFICATION Spec
SYMMETRY ThreadSymmetry
INVARIANTS EntryBound NoDeletedHit InvalidationHolds
CHECK_DEADLOCK FALSE
