CONSTANTS
    Blank = Blank  DefaultPrompt = DefaultPrompt  Missing = Missing
    Prompts = {p1, p2}
    MaxSaves = 2
    TotalTimeout = 2
    SocketTimeout = 2
    Staged <- MCStaged
    MaxRounds = 2
SPECIFICATION FairSpec
INVARIANTS GreenIsEarned NoSelfCollision CallIsBounded PromptIsCurrent
PROPERTIES StagedEnds
CHECK_DEADLOCK FALSE
