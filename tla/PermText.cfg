SPECIFICATION Spec
CONSTANTS
    IP <- MCIP
    TextIn <- MCTextIn
    BootRuleset = {"absent", "bare"}
    AddMayFail = TRUE
INVARIANT BlocksSurviveReboots
