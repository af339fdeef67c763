CONSTANTS
    c1 = c1  c2 = c2  c3 = c3  f1 = f1  f2 = f2
    NoFile = NoFile
    Calls = {c1, c2, c3}
    Edits = {e1, e2}
    Files = {f1, f2}
    TargetOf <- MCTargetOf
    TouchesOf <- MCTouchesOf
SPECIFICATION Spec
INVARIANTS StagedSurvives LossIsByRollback UnreportedPatchHasCause
CHECK_DEADLOCK FALSE
