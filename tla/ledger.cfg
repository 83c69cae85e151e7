SPECIFICATION FairSpec
CONSTANTS
    Efficiency = 2
    Epsilon = 0
    Capacity = 2
    Sessions = {s1}
    Users = {u1}
    Percents = {1, 2}
    QueueSize = 1
    Prior <- MCPrior
    MaxMeter = 2
    MaxUser = 2
    MaxFaults = 1
CHECK_DEADLOCK FALSE
INVARIANTS LedgerTypeOK BlendedIsMetered LifetimeIsExact ChargeIsKept
PROPERTIES TargetEndsCharge
