CONSTANTS
    MaxScript = 5
    MaxHunks = 2
SPECIFICATION Spec
INVARIANTS PatchMakesNewText FixTouchesItsLine
CHECK_DEADLOCK FALSE
