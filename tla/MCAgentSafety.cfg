\* Two configs, so the node controller also reloads, with init and RPC
\* failures and rule traffic on the watchRules streams.
CONSTANTS
    c1 = c1
    c2 = c2
    Configs <- MCTwoConfigs
    DefaultConfig = c1
    NoConfig = NoConfig
    MaxGen = 4
    MaxEvq = 2
    MaxOps = 2
    MaxInitFails = 1
    MaxRpcFails = 1
    MaxRuleEvents = 2
    MaxLeaseExpiries = 0

SPECIFICATION Spec

\* The agent idles once it matches the info, and stops when it panics.
CHECK_DEADLOCK FALSE

INVARIANTS
    TypeOk
    RunningIsAttached
    DetachedUnlessRunning
