\* One config: the node controller only starts and stops the agent, with
\* init failures and a lease expiry of the status key; no rule traffic.
CONSTANTS
    c1 = c1
    c2 = c2
    Configs <- MCOneConfig
    DefaultConfig = c1
    NoConfig = NoConfig
    MaxGen = 4
    MaxEvq = 2
    MaxOps = 2
    MaxInitFails = 1
    MaxRpcFails = 0
    MaxRuleEvents = 0
    MaxLeaseExpiries = 1

SPECIFICATION Spec

\* The agent idles once it matches the info and the operator stops.
CHECK_DEADLOCK FALSE

PROPERTIES
    Converges
