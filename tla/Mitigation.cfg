SPECIFICATION MitigationSpec
CONSTANTS
    IP = {"s", "t"}
    Decision <- MCDos
    Flow <- OneFlow
    Internal = {"t"}
    RuleTime = 1
    BlockTime = 1
    MonitorCooldown = 1
    RejectedCooldown = 1
    PendingCooldown = 1
    PermWindow = 1
    PendingTTL = 1
    NftMayFail = TRUE
    Registered = FALSE
    MaxTime = 1
    MaxHandle = 1
    MaxBatch = 1
    MaxReq = 1
    Admin = {"admin1", "admin2"}
    Job = {"job"}
    MaxStray = 1
    NodeMayCrash = TRUE
INVARIANT StatusTruthful
CHECK_DEADLOCK FALSE
PROPERTIES DocumentsMoveOn ExpiredDocsGo
