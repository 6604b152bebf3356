SPECIFICATION StaticSpec
CONSTANTS
    r1 = r1
    r2 = r2
    n = n
    nobody = nobody
    Owner = {r1, r2, nobody}
    Nobody = nobody
    TableOf <- InTheirTables
    Slot = {a}
    a = a
    b = b
    Table = {"filter", "nk_nat"}
    NatTable = "nk_nat"
    Prepared = {"filter"}
    NftMayFail = FALSE
    AgentMayStop = TRUE
    MaxHandle = 3
    MaxStamp = 2
    MaxCalls = 5
PROPERTY DisabledIsRemoved
CHECK_DEADLOCK FALSE
