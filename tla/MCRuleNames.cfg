\* Two processes adding rules of two names at once.
CONSTANTS
    p1 = p1
    p2 = p2
    n1 = n1
    n2 = n2
    c1 = c1
    t1 = t1
    t2 = t2
    Procs <- MCTwoProcs
    Names <- MCTwoNames
    Cidrs <- MCCidrs
    Ports <- MCPorts
    MaxLeases = 2
    MaxIds = 2

SPECIFICATION Spec

\* The operator stops adding once the leases are used up.
CHECK_DEADLOCK FALSE

INVARIANT
    NamesIndexed
