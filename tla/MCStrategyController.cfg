CONSTANTS
    a1 = a1  a2 = a2  a3 = a3
    g1 = g1  g2 = g2
    c1 = c1  c2 = c2
    Applieds <- MCApplieds
    Agents <- MCAgents
    Configs <- MCConfigs
    NoConfig = NoConfig
    Plan <- MCPlan
    MaxCreateFails = 1
    MaxAddFails = 1
    MaxDelFails = 1
    MaxRpcFails = 1
    MaxApiCalls = 1
SPECIFICATION Spec
CHECK_DEADLOCK FALSE
INVARIANTS TypeOk NoForgottenRunning
PROPERTIES RunningEventuallyHandled
