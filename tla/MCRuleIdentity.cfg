\* One process, one rule-set name and one CIDR with two port rules, and
\* enough leases for three adds: the first rule's lease may run out first.
CONSTANTS
    p1 = p1
    p2 = p2
    n1 = n1
    n2 = n2
    c1 = c1
    t1 = t1
    t2 = t2
    Procs <- MCOneProc
    Names <- MCNames
    Cidrs <- MCCidrs
    Ports <- MCPorts
    MaxLeases = 3
    MaxIds = 2

SPECIFICATION Spec

\* The operator stops adding once the leases are used up.
CHECK_DEADLOCK FALSE

INVARIANT
    IdentityStable
