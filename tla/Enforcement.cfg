SPECIFICATION EnforcementSpec
CONSTANTS
    IP = {"attacker", "target"}
    Decision <- MCDecision
    RuleTime = 1
    BlockTime = 1
    NftMayFail = TRUE
    Registered = TRUE
    MaxTime = 2
    MaxHandle = 3
INVARIANTS OwnRulesScheduled DeletionHitsItsRule
PROPERTY OwnRulesEnd
