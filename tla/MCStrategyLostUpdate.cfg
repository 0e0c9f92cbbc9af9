\* One operator call beside the strategy controller, with no storage or RPC
\* failures: an Enable or SetConfig whose read comes before a strategy's
\* reconcile writes the info back as it read it.
CONSTANTS
    a1 = a1  a2 = a2  a3 = a3
    g1 = g1  g2 = g2
    c1 = c1  c2 = c2
    Applieds <- MCApplieds
    Agents <- MCAgents
    Configs <- MCConfigs
    NoConfig = NoConfig
    Plan <- MCPlan
    MaxCreateFails = 0
    MaxAddFails = 0
    MaxDelFails = 0
    MaxRpcFails = 0
    MaxApiCalls = 1
SPECIFICATION Spec
CHECK_DEADLOCK FALSE
PROPERTY OperatorUpdateKeepsOtherField
