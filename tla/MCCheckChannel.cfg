CONSTANTS
    Files = {f}
    Python = {f}
    MaxChecks = 2
    MaxCalls = 3
SPECIFICATION ChannelSpec
INVARIANTS
    PoolIsOneDocument
    EvidenceIsWhole
    SuccessLeavesNothing
CHECK_DEADLOCK FALSE
