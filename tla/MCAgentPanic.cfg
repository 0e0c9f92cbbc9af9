CONSTANTS
    c1 = c1
    c2 = c2
    Configs <- MCOneConfig
    DefaultConfig = c1
    NoConfig = NoConfig
    MaxGen = 4
    MaxEvq = 2
    MaxOps = 2
    MaxInitFails = 1
    MaxRpcFails = 1
    MaxRuleEvents = 1
    MaxLeaseExpiries = 1

SPECIFICATION Spec
CHECK_DEADLOCK FALSE

INVARIANTS
    NoControllerPanic
