SPECIFICATION FirewallSpec
CONSTANTS
    r1 = r1
    r2 = r2
    n = n
    nobody = nobody
    Owner = {r1, r2, n, nobody}
    Nobody = nobody
    TableOf <- InTheirTables
    Slot = {a, b}
    a = a
    b = b
    Table = {"filter", "nk_nat"}
    NatTable = "nk_nat"
    Prepared = {"filter"}
    NftMayFail = FALSE
    AgentMayStop = TRUE
    MaxHandle = 2
    MaxStamp = 2
    MaxCalls = 3
    IP <- MCIP
    TextIn <- MCTextIn
    BootRuleset = {"absent", "bare"}
    AddMayFail = TRUE
SYMMETRY Interchangeable
INVARIANTS StaticTypeOK HandleIsOwn DocsMatchKernel DocsPersist AckedIsRecorded AckedIsEnforced
PROPERTY ImplementsDurableSet
CHECK_DEADLOCK FALSE
