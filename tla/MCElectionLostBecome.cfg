CONSTANTS
    Nodes <- MCNodes
    NoNode = NoNode
    n1 = n1  n2 = n2  n3 = n3
    MaxDown = 2
    MaxLiveExpiries = 0
    MaxCampErrors = 0
SPECIFICATION Spec
CHECK_DEADLOCK FALSE
PROPERTY LeaderKeyServed
