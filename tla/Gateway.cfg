SPECIFICATION Spec
CONSTANTS
    IP = {"s1", "s2", "t"}
    Decision <- MCDecision
    Flow <- MCFlow
    Internal = {"t"}
    RuleTime = 2
    BlockTime = 3
    MonitorCooldown = 1
    RejectedCooldown = 1
    PendingCooldown = 2
    PermWindow = 4
    PendingTTL = 1
    NftMayFail = FALSE
    Registered = FALSE
    MaxTime = 2
    MaxHandle = 2
    MaxBatch = 2
    MaxReq = 2
INVARIANTS AlertSpacing
PROPERTY ImplementsVerdicts
