CONSTANTS
    w1 = w1  w2 = w2  w3 = w3  t1 = t1  t2 = t2  d1 = d1  d2 = d2
    None = None  NoUri = NoUri
    Writers = {w1, w2, w3}
    Temps = {t1, t2}
    TempOf <- MixedTemps
    Documents = {d1, d2}
    TargetOf <- MixedTargets
SPECIFICATION FairSpec
CHECK_DEADLOCK FALSE
INVARIANTS FeedInv OwnTempIsAtomic OneDocumentShown
PROPERTIES EditorCatchesUp
