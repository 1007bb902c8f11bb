CONSTANTS
    Calls = {c1, c2}
    RefreshNow = {c2}
    Nobody = Nobody
    Pi = Pi
    MaxTokens = 2
SPECIFICATION FairSpec
INVARIANT TokensGuarded
PROPERTY EveryCallAnswered
CHECK_DEADLOCK FALSE
