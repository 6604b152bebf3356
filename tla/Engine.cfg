SPECIFICATION AISpec
CONSTANTS
    Key = {"WebTcp", "NonWebUDP"}
    FlowData <- MCFlow
    MaxFlows = 2
    MaxSteps = 6
    IP = {"s"}
    Label = {"benign", "password"}
    Conf = {60004, 70000, 90000}
    Score <- MCScore
    Net <- MCNet
    MaxBatch = 2
    MaxMade = 4
    Inside = {"d"}
    Packets = {10, 20}
    MaxCount = 20
    MaxWrites = 4
INVARIANTS OwnVerdict AlertsHaveCause ReasonsHold RewardPrefersTable PermOnlyConfirmed NeverOvercounts PermNeedsRepeats RecommendedIsAllowed WithinPeak AttackBarelyLearned
PROPERTY GrowsSlowly
